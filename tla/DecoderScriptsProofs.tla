-------------------------- MODULE DecoderScriptsProofs -------------------------
(***************************************************************************)
(* What DSView relies on of its decoder scripts, proved for twelve of the  *)
(* sixteen scripts stacked on I2C, whatever addresses and bytes are sent.  *)
(***************************************************************************)
EXTENDS I2CScriptsProofs

ProvedI2C == {"rtc8564", "ds1307", "mxc6225xu", "tca6408a", "pca9571", "nunchuk",
              "lm75", "mlx90614", "hdcp", "ltc26x7", "i2cfilter", "i2cdemux"}

\* What is known of the attributes between two calls.
Known ==
    /\ script = "rtc8564" => RegPd(RtcTime)
    /\ script = "ds1307" => RegPd(DsTime)
    /\ script = "pca9571" => Pca9571Pd
    /\ script = "nunchuk" => NunchukPd
    /\ script = "lm75" => Lm75Pd
    /\ script = "mlx90614" => Mlx90614Pd
    /\ script = "hdcp" => HdcpPd
    /\ script = "ltc26x7" => Ltc26x7Pd
    /\ script = "i2cfilter" => I2cFilterPd
    /\ script = "i2cdemux" => I2cDemuxPd

I2CLines == {"idle", "address", "rack", "wack", "read", "write"}
ScriptInv ==
    /\ script \in ProvedI2C
    /\ count \in Nat /\ calls \in 0..MaxCalls[script]
    /\ outcome \in {"returned", "raised", "endless"}
    /\ line \in I2CLines
    /\ Known
    /\ Fine(script, Shows)

-----------------------------------------------------------------------------
(* The start.                                                              *)

\* The scripts proved about are scripts stacked on I2C.
LEMMA Proved == ProvedI2C \subseteq Scripts /\ ProvedI2C \subseteq I2CScripts
    BY DEF ProvedI2C, Scripts, I2CScripts

\* How start() and reset() leave them.
LEMMA Started ==
    ASSUME Init, script \in ProvedI2C
    PROVE  /\ pd = Attributes(script) /\ line = "idle" /\ count = 0 /\ calls = 0
           /\ put = <<>> /\ outcome = "returned"
<1>1. script \notin SPIScripts /\ script \notin {"modbus", "ook_vis"}
    BY DEF ProvedI2C, SPIScripts
<1>2. ASSUME NEW name, NEW attributes, NEW rest, Begin(name, attributes, rest)
      PROVE  /\ script = name /\ pd = attributes /\ line = rest /\ count = 0 /\ calls = 0
             /\ put = <<>> /\ outcome = "returned"
    BY <1>2, Zenon DEF Begin
<1>3. ASSUME NEW S, NEW name \in S, Begin(name, Attributes(name), "idle")
      PROVE  /\ pd = Attributes(script) /\ line = "idle" /\ count = 0 /\ calls = 0
             /\ put = <<>> /\ outcome = "returned"
    BY <1>2, <1>3, Zenon
<1>4. ASSUME NEW name \in SPIScripts, Begin(name, Attributes(name), "begin")
      PROVE  FALSE
  <2>1. script = name
      BY <1>4, Zenon DEF Begin
  <2> QED
      BY <1>1, <1>4, <2>1
<1>5. ASSUME NEW sides, Begin("modbus", Modbus0(sides), "idle")
      PROVE  FALSE
  <2>1. script = "modbus"
      BY <1>5, Zenon DEF Begin
  <2> QED
      BY <1>1, <2>1
<1>6. ASSUME NEW ref, NEW offset, Begin("ook_vis", Vis0(ref, offset), "idle")
      PROVE  FALSE
  <2>1. script = "ook_vis"
      BY <1>6, Zenon DEF Begin
  <2> QED
      BY <1>1, <2>1
<1>7. \E S : \E name \in S : Begin(name, Attributes(name), "idle")
    BY <1>4, <1>5, <1>6, Zenon DEF Init
<1> QED
    BY <1>3, <1>7, Zenon

\* The rows of each script.
LEMMA ShowsOf ==
    /\ script = "rtc8564" => Shows = Rtc8564Rows
    /\ script = "ds1307" => Shows = Ds1307Rows
    /\ script = "mxc6225xu" => Shows = Mxc6225xuRows
    /\ script = "tca6408a" => Shows = Tca6408aRows
    /\ script = "pca9571" => Shows = Pca9571Rows
    /\ script = "nunchuk" => Shows = NunchukRows
    /\ script = "lm75" => Shows = Lm75Rows
    /\ script = "mlx90614" => Shows = Mlx90614Rows
    /\ script = "hdcp" => Shows = HdcpRows
    /\ script = "ltc26x7" => Shows = Ltc26x7Rows
    /\ script = "i2cfilter" => Shows = {"i2c"}
    /\ script = "i2cdemux" => Shows = I2cDemuxRows
    BY Zenon DEF Shows, Rows, I2cDemuxRows, DemuxSlaves

\* The attributes each script starts with.
LEMMA AttributesOf ==
    /\ Attributes("rtc8564") = Rtc0
    /\ Attributes("ds1307") = Ds0
    /\ Attributes("pca9571") = Pca0
    /\ Attributes("nunchuk") = Nun0
    /\ Attributes("lm75") = Lm750
    /\ Attributes("mlx90614") = Mlx0
    /\ Attributes("hdcp") = Hdcp0
    /\ Attributes("ltc26x7") = Ltc0
    /\ Attributes("i2cfilter") = Filter0
    /\ Attributes("i2cdemux") = Demux0
    BY Zenon DEF Attributes

\* The attributes a script starts with are as they are known to be.
LEMMA StartsKnown ==
    ASSUME Ss = 0, outcome = "returned", line = "idle"
    PROVE  /\ pd = Rtc0 => RegPd(RtcTime)
           /\ pd = Ds0 => RegPd(DsTime)
           /\ pd = Pca0 => Pca9571Pd
           /\ pd = Nun0 => NunchukPd
           /\ pd = Lm750 => Lm75Pd
           /\ pd = Mlx0 => Mlx90614Pd
           /\ pd = Hdcp0 => HdcpPd
           /\ pd = Ltc0 => Ltc26x7Pd
           /\ pd = Filter0 => I2cFilterPd
           /\ pd = Demux0 => I2cDemuxPd
<1>1. ASSUME pd = Rtc0
      PROVE  RegPd(RtcTime)
    BY <1>1 DEF RegPd, RegAttributes, RegStates, Rtc0, RtcTime, Unknown
<1>2. ASSUME pd = Ds0
      PROVE  RegPd(DsTime)
    BY <1>2 DEF RegPd, RegAttributes, RegStates, Ds0, DsTime, Unknown
<1>3. ASSUME pd = Pca0
      PROVE  Pca9571Pd
    BY <1>3 DEF Pca9571Pd, Pca0
<1>4. ASSUME pd = Nun0
      PROVE  NunchukPd
    BY <1>4 DEF NunchukPd, NunchukType, NunchukStates, NunSeen, Nun0, NunFields, Unknown
<1>5. ASSUME pd = Lm750
      PROVE  Lm75Pd
    BY <1>5 DEF Lm75Pd, Lm75States, Lm750
<1>6. ASSUME pd = Mlx0
      PROVE  Mlx90614Pd
  <2> DEFINE none == <<>>
  <2>1. pd = [state |-> "IGNORE START REPEAT", data |-> none]
      BY <1>6, Zenon DEF Mlx0
  <2>2. none \in Seq(Nat) /\ Len(none) = 0 /\ DOMAIN none = {}
      OBVIOUS
  <2> HIDE DEF none
  <2>3. pd \in [state : Mlx90614States, data : Seq(Nat)] /\ pd.data = none
      BY <2>1, <2>2 DEF Mlx90614States
  <2> QED
      BY <2>2, <2>3 DEF Mlx90614Pd
<1>7. ASSUME pd = Hdcp0
      PROVE  HdcpPd
  <2> DEFINE none == <<>>
  <2>1. pd = [state |-> "IDLE", stack |-> none, ss_block |-> 0, type |-> ""]
      BY <1>7, Zenon DEF Hdcp0
  <2>2. none \in Seq(HdcpByte) /\ DOMAIN none = {}
      OBVIOUS
  <2> HIDE DEF none
  <2>3. pd \in HdcpAttributes /\ pd.stack = none /\ pd.ss_block = 0
      BY <2>1, <2>2 DEF HdcpAttributes, HdcpStates, HdcpTypes
  <2> QED
      BY <2>2, <2>3 DEF HdcpPd, Stacked
<1>8. ASSUME pd = Ltc0
      PROVE  Ltc26x7Pd
    BY <1>8 DEF Ltc26x7Pd, Ltc26x7States, Ltc0, LtcDacs, Unknown
<1>9. ASSUME pd = Filter0
      PROVE  I2cFilterPd
    BY <1>9 DEF I2cFilterPd, Filter0, Transfers, Ordered
<1>10. ASSUME pd = Demux0
      PROVE  I2cDemuxPd
    BY <1>10 DEF I2cDemuxPd, Demux0, Transfers, Ordered
<1> QED
    BY <1>1, <1>2, <1>3, <1>4, <1>5, <1>6, <1>7, <1>8, <1>9, <1>10, Zenon

\* The invariant holds at the start.
LEMMA StartKnown ==
    ASSUME Init, script \in ProvedI2C
    PROVE  ScriptInv
<1>1. /\ pd = Attributes(script) /\ line = "idle" /\ count = 0 /\ calls = 0
      /\ put = <<>> /\ outcome = "returned"
    BY Started
<1>2. Ss = 0
    BY <1>1 DEF Ss, Width
<1>3. Known
  <2>1. ASSUME NEW name, script = name
        PROVE  pd = Attributes(name)
      BY <1>1, <2>1, Zenon
  <2> QED
      BY <1>1, <1>2, <2>1, StartsKnown, AttributesOf, Zenon DEF Known
<1>4. calls \in 0..MaxCalls[script] /\ count \in Nat
  <2>1. MaxCalls[script] \in Nat
      BY Proved, CallBounds, Zenon
  <2> QED
      BY <1>1, <2>1
<1>5. Fine(script, Shows)
    BY <1>1, FineNone, Zenon DEF Fine
<1> QED
    BY <1>1, <1>3, <1>4, <1>5, Zenon DEF ScriptInv, I2CLines

-----------------------------------------------------------------------------
(* The steps.                                                              *)

\* Only the script that runs is handed packets.
LEMMA Chosen ==
    ASSUME Next, script \in ProvedI2C
    PROVE  /\ script = "rtc8564" => \E q \in I2CInputs("rtc8564") : Rtc8564(q)
           /\ script = "ds1307" => \E q \in I2CInputs("ds1307") : Ds1307(q)
           /\ script = "mxc6225xu" => \E q \in I2CInputs("mxc6225xu") : Mxc6225xu(q)
           /\ script = "tca6408a" => \E q \in I2CInputs("tca6408a") : Tca6408a(q)
           /\ script = "pca9571" => \E q \in I2CInputs("pca9571") : Pca9571(q)
           /\ script = "nunchuk" => \E q \in I2CInputs("nunchuk") : Nunchuk(q)
           /\ script = "lm75" => \E q \in I2CInputs("lm75") : Lm75(q)
           /\ script = "mlx90614" => \E q \in I2CInputs("mlx90614") : Mlx90614(q)
           /\ script = "hdcp" => \E q \in I2CInputs("hdcp") : Hdcp(q)
           /\ script = "ltc26x7" => \E q \in I2CInputs("ltc26x7") : Ltc26x7(q)
           /\ script = "i2cfilter" => \E q \in I2CInputs("i2cfilter") : I2cFilter(q)
           /\ script = "i2cdemux" => \E q \in I2CInputs("i2cdemux") : I2cDemux(q)
<1>1. I2CNext
  <2>1. script \notin SPIScripts
      BY DEF ProvedI2C, SPIScripts
  <2>2. script \notin UARTScripts \cup {"modbus"}
      BY DEF ProvedI2C, UARTScripts
  <2>3. script \notin OtherScripts \cup {"ook_vis"}
      BY DEF ProvedI2C, OtherScripts
  <2> QED
      BY <2>1, <2>2, <2>3, SPIStep, UARTStep, OtherStep, Zenon DEF Next
<1>2. \/ script \in {"eeprom24xx", "xfp", "atsha204a", "edid"}
      \/ script = "rtc8564" /\ \E q \in I2CInputs("rtc8564") : Rtc8564(q)
      \/ script = "ds1307" /\ \E q \in I2CInputs("ds1307") : Ds1307(q)
      \/ script = "mxc6225xu" /\ \E q \in I2CInputs("mxc6225xu") : Mxc6225xu(q)
      \/ script = "tca6408a" /\ \E q \in I2CInputs("tca6408a") : Tca6408a(q)
      \/ script = "pca9571" /\ \E q \in I2CInputs("pca9571") : Pca9571(q)
      \/ script = "nunchuk" /\ \E q \in I2CInputs("nunchuk") : Nunchuk(q)
      \/ script = "lm75" /\ \E q \in I2CInputs("lm75") : Lm75(q)
      \/ script = "mlx90614" /\ \E q \in I2CInputs("mlx90614") : Mlx90614(q)
      \/ script = "hdcp" /\ \E q \in I2CInputs("hdcp") : Hdcp(q)
      \/ script = "ltc26x7" /\ \E q \in I2CInputs("ltc26x7") : Ltc26x7(q)
      \/ script = "i2cfilter" /\ \E q \in I2CInputs("i2cfilter") : I2cFilter(q)
      \/ script = "i2cdemux" /\ \E q \in I2CInputs("i2cdemux") : I2cDemux(q)
  <2>1. \A content : Xfp(content) => script = "xfp"
      BY Zenon DEF Xfp
  <2> QED
      BY <1>1, <2>1, ForStep, ZenonT(60) DEF I2CNext
<1>3. script \notin {"eeprom24xx", "xfp", "atsha204a", "edid"}
    BY DEF ProvedI2C
<1>4. ASSUME script = "rtc8564"
      PROVE  \E q \in I2CInputs("rtc8564") : Rtc8564(q)
  <2>1. script \notin {"ds1307", "mxc6225xu", "tca6408a", "pca9571", "nunchuk", "lm75",
                       "mlx90614", "hdcp", "ltc26x7", "i2cfilter", "i2cdemux"}
      BY <1>4
  <2> QED
      BY <1>2, <1>3, <2>1, Zenon
<1>5. ASSUME script = "ds1307"
      PROVE  \E q \in I2CInputs("ds1307") : Ds1307(q)
  <2>1. script \notin {"rtc8564", "mxc6225xu", "tca6408a", "pca9571", "nunchuk", "lm75",
                       "mlx90614", "hdcp", "ltc26x7", "i2cfilter", "i2cdemux"}
      BY <1>5
  <2> QED
      BY <1>2, <1>3, <2>1, Zenon
<1>6. ASSUME script = "mxc6225xu"
      PROVE  \E q \in I2CInputs("mxc6225xu") : Mxc6225xu(q)
  <2>1. script \notin {"rtc8564", "ds1307", "tca6408a", "pca9571", "nunchuk", "lm75",
                       "mlx90614", "hdcp", "ltc26x7", "i2cfilter", "i2cdemux"}
      BY <1>6
  <2> QED
      BY <1>2, <1>3, <2>1, Zenon
<1>7. ASSUME script = "tca6408a"
      PROVE  \E q \in I2CInputs("tca6408a") : Tca6408a(q)
  <2>1. script \notin {"rtc8564", "ds1307", "mxc6225xu", "pca9571", "nunchuk", "lm75",
                       "mlx90614", "hdcp", "ltc26x7", "i2cfilter", "i2cdemux"}
      BY <1>7
  <2> QED
      BY <1>2, <1>3, <2>1, Zenon
<1>8. ASSUME script = "pca9571"
      PROVE  \E q \in I2CInputs("pca9571") : Pca9571(q)
  <2>1. script \notin {"rtc8564", "ds1307", "mxc6225xu", "tca6408a", "nunchuk", "lm75",
                       "mlx90614", "hdcp", "ltc26x7", "i2cfilter", "i2cdemux"}
      BY <1>8
  <2> QED
      BY <1>2, <1>3, <2>1, Zenon
<1>9. ASSUME script = "nunchuk"
      PROVE  \E q \in I2CInputs("nunchuk") : Nunchuk(q)
  <2>1. script \notin {"rtc8564", "ds1307", "mxc6225xu", "tca6408a", "pca9571", "lm75",
                       "mlx90614", "hdcp", "ltc26x7", "i2cfilter", "i2cdemux"}
      BY <1>9
  <2> QED
      BY <1>2, <1>3, <2>1, Zenon
<1>10. ASSUME script = "lm75"
      PROVE  \E q \in I2CInputs("lm75") : Lm75(q)
  <2>1. script \notin {"rtc8564", "ds1307", "mxc6225xu", "tca6408a", "pca9571", "nunchuk",
                       "mlx90614", "hdcp", "ltc26x7", "i2cfilter", "i2cdemux"}
      BY <1>10
  <2> QED
      BY <1>2, <1>3, <2>1, Zenon
<1>11. ASSUME script = "mlx90614"
      PROVE  \E q \in I2CInputs("mlx90614") : Mlx90614(q)
  <2>1. script \notin {"rtc8564", "ds1307", "mxc6225xu", "tca6408a", "pca9571", "nunchuk",
                       "lm75", "hdcp", "ltc26x7", "i2cfilter", "i2cdemux"}
      BY <1>11
  <2> QED
      BY <1>2, <1>3, <2>1, Zenon
<1>12. ASSUME script = "hdcp"
      PROVE  \E q \in I2CInputs("hdcp") : Hdcp(q)
  <2>1. script \notin {"rtc8564", "ds1307", "mxc6225xu", "tca6408a", "pca9571", "nunchuk",
                       "lm75", "mlx90614", "ltc26x7", "i2cfilter", "i2cdemux"}
      BY <1>12
  <2> QED
      BY <1>2, <1>3, <2>1, Zenon
<1>13. ASSUME script = "ltc26x7"
      PROVE  \E q \in I2CInputs("ltc26x7") : Ltc26x7(q)
  <2>1. script \notin {"rtc8564", "ds1307", "mxc6225xu", "tca6408a", "pca9571", "nunchuk",
                       "lm75", "mlx90614", "hdcp", "i2cfilter", "i2cdemux"}
      BY <1>13
  <2> QED
      BY <1>2, <1>3, <2>1, Zenon
<1>14. ASSUME script = "i2cfilter"
      PROVE  \E q \in I2CInputs("i2cfilter") : I2cFilter(q)
  <2>1. script \notin {"rtc8564", "ds1307", "mxc6225xu", "tca6408a", "pca9571", "nunchuk",
                       "lm75", "mlx90614", "hdcp", "ltc26x7", "i2cdemux"}
      BY <1>14
  <2> QED
      BY <1>2, <1>3, <2>1, Zenon
<1>15. ASSUME script = "i2cdemux"
      PROVE  \E q \in I2CInputs("i2cdemux") : I2cDemux(q)
  <2>1. script \notin {"rtc8564", "ds1307", "mxc6225xu", "tca6408a", "pca9571", "nunchuk",
                       "lm75", "mlx90614", "hdcp", "ltc26x7", "i2cfilter"}
      BY <1>15
  <2> QED
      BY <1>2, <1>3, <2>1, Zenon
<1> QED
    BY <1>4, <1>5, <1>6, <1>7, <1>8, <1>9, <1>10, <1>11, <1>12, <1>13, <1>14, <1>15, Zenon

\* A decode() returns, raises, or is never left.
LEMMA Outcomes ==
    ASSUME NEW q
    PROVE  /\ Rtc8564(q) => outcome' \in {"returned", "raised", "endless"}
           /\ Ds1307(q) => outcome' \in {"returned", "raised", "endless"}
           /\ Mxc6225xu(q) => outcome' \in {"returned", "raised", "endless"}
           /\ Tca6408a(q) => outcome' \in {"returned", "raised", "endless"}
           /\ Pca9571(q) => outcome' \in {"returned", "raised", "endless"}
           /\ Nunchuk(q) => outcome' \in {"returned", "raised", "endless"}
           /\ Lm75(q) => outcome' \in {"returned", "raised", "endless"}
           /\ Mlx90614(q) => outcome' \in {"returned", "raised", "endless"}
           /\ Hdcp(q) => outcome' \in {"returned", "raised", "endless"}
           /\ Ltc26x7(q) => outcome' \in {"returned", "raised", "endless"}
           /\ I2cFilter(q) => outcome' \in {"returned", "raised", "endless"}
           /\ I2cDemux(q) => outcome' \in {"returned", "raised", "endless"}
<1>1. Rtc8564(q) => outcome' \in {"returned", "raised", "endless"}
    BY Zenon DEF Rtc8564, Return, Become, Goto, Ignore, Fail, Hang
<1>2. Ds1307(q) => outcome' \in {"returned", "raised", "endless"}
    BY Zenon DEF Ds1307, Return, Become, Goto, Ignore, Fail, Hang
<1>3. Mxc6225xu(q) => outcome' \in {"returned", "raised", "endless"}
    BY Zenon DEF Mxc6225xu, Return, Become, Goto, Ignore, Fail, Hang
<1>4. Tca6408a(q) => outcome' \in {"returned", "raised", "endless"}
    BY Zenon DEF Tca6408a, Return, Become, Goto, Ignore, Fail, Hang
<1>5. Pca9571(q) => outcome' \in {"returned", "raised", "endless"}
    BY Zenon DEF Pca9571, Return, Become, Goto, Ignore, Fail, Hang
<1>6. Nunchuk(q) => outcome' \in {"returned", "raised", "endless"}
    BY Zenon DEF Nunchuk, NunRegister, NunStop, Return, Become, Goto, Ignore, Fail, Hang
<1>7. Lm75(q) => outcome' \in {"returned", "raised", "endless"}
    BY Zenon DEF Lm75, Return, Become, Goto, Ignore, Fail, Hang
<1>8. Mlx90614(q) => outcome' \in {"returned", "raised", "endless"}
    BY Zenon DEF Mlx90614, Return, Become, Goto, Ignore, Fail, Hang
<1>9. Hdcp(q) => outcome' \in {"returned", "raised", "endless"}
    BY Zenon DEF Hdcp, HdcpEnd, Return, Become, Goto, Ignore, Fail, Hang
<1>10. Ltc26x7(q) => outcome' \in {"returned", "raised", "endless"}
    BY Zenon DEF Ltc26x7, Return, Become, Goto, Ignore, Fail, Hang
<1>11. I2cFilter(q) => outcome' \in {"returned", "raised", "endless"}
    BY Zenon DEF I2cFilter, Return, Become, Goto, Ignore, Fail, Hang
<1>12. I2cDemux(q) => outcome' \in {"returned", "raised", "endless"}
    BY Zenon DEF I2cDemux, Return, Become, Goto, Ignore, Fail, Hang
<1> QED
    BY <1>1, <1>2, <1>3, <1>4, <1>5, <1>6, <1>7, <1>8, <1>9, <1>10, <1>11, <1>12, Zenon

\* What a call keeps, whichever script it is.
LEMMA Handed ==
    ASSUME ScriptInv, NEW name, NEW q, I2CHand(name, q)
    PROVE  /\ script' = script /\ count' \in Nat /\ calls' \in 0..MaxCalls[script']
           /\ Shows' = Shows /\ line' \in I2CLines
<1>1. script' = script /\ count' = count + 1 /\ calls' = calls + 1 /\ calls < MaxCalls[script]
    BY Zenon DEF I2CHand, Hand, HandRun
<1>2. MaxCalls[script] \in Nat
    BY Proved, CallBounds, Zenon DEF ScriptInv
<1>3. count' \in Nat /\ calls' \in 0..MaxCalls[script]
    BY <1>1, <1>2 DEF ScriptInv
<1>4. Shows' = Shows
    BY <1>1, Zenon DEF Shows
<1>5. line' \in I2CLines
  <2>1. line' = I2CLeads(line, q.cmd)
      BY Zenon DEF I2CHand, Hand, HandRun
  <2> QED
      BY <2>1, Zenon DEF I2CLeads, I2CLines
<1> QED
    BY <1>1, <1>3, <1>4, <1>5, Zenon

\* The invariant is kept by every decode().
LEMMA ScriptKept ==
    ASSUME ScriptInv, Next
    PROVE  ScriptInv'
<1>0. script \in ProvedI2C /\ count \in Nat /\ Known
    BY Zenon DEF ScriptInv
<1>1. ASSUME NEW q, I2CHand(script, q), Known', outcome' \in {"returned", "raised", "endless"},
             put' \in Seq(Fits(script, Shows, count')) /\ Disjoint(script, put')
      PROVE  ScriptInv'
  <2>1. /\ script' = script /\ count' \in Nat /\ calls' \in 0..MaxCalls[script']
        /\ Shows' = Shows /\ line' \in I2CLines
      BY <1>1, Handed, Zenon
  <2>2. put' \in Seq(Fits(script', Shows', count')) /\ Disjoint(script', put')
      BY <1>1, <2>1, Zenon
  <2>3. Fine(script, Shows)'
      BY <2>2 DEF Fine, Disjoint
  <2> QED
      BY <1>0, <1>1, <2>1, <2>3 DEF ScriptInv
<1>2. CASE script = "rtc8564"
  <2>1. PICK q \in I2CInputs("rtc8564") : Rtc8564(q)
      BY <1>0, <1>2, Chosen, Zenon
  <2>2. RegPd(RtcTime)
      BY <1>0, <1>2, Zenon DEF Known
  <2>3. RegPd(RtcTime)' /\ Fine("rtc8564", Rtc8564Rows)'
      BY <1>0, <2>1, <2>2, Rtc8564Kept, Rtc8564Puts, Zenon
  <2>4. I2CHand("rtc8564", q) /\ script' = "rtc8564"
      BY <1>0, <2>1, I2CHanded, Zenon DEF Rtc8564
  <2>5. Known'
      BY <2>3, <2>4 DEF Known
  <2>6. put' \in Seq(Fits("rtc8564", Shows, count')) /\ Disjoint("rtc8564", put')
    <3>1. Shows = Rtc8564Rows
        BY <1>2, ShowsOf, Zenon
    <3> QED
        BY <2>3, <3>1 DEF Fine, Disjoint
  <2>7. outcome' \in {"returned", "raised", "endless"}
      BY <2>1, Outcomes, Zenon
  <2> QED
      BY <1>1, <1>2, <2>4, <2>5, <2>6, <2>7, Zenon
<1>3. CASE script = "ds1307"
  <2>1. PICK q \in I2CInputs("ds1307") : Ds1307(q)
      BY <1>0, <1>3, Chosen, Zenon
  <2>2. RegPd(DsTime)
      BY <1>0, <1>3, Zenon DEF Known
  <2>3. RegPd(DsTime)' /\ Fine("ds1307", Ds1307Rows)'
      BY <1>0, <2>1, <2>2, Ds1307Kept, Ds1307Puts, Zenon
  <2>4. I2CHand("ds1307", q) /\ script' = "ds1307"
      BY <1>0, <2>1, I2CHanded, Zenon DEF Ds1307
  <2>5. Known'
      BY <2>3, <2>4 DEF Known
  <2>6. put' \in Seq(Fits("ds1307", Shows, count')) /\ Disjoint("ds1307", put')
    <3>1. Shows = Ds1307Rows
        BY <1>3, ShowsOf, Zenon
    <3> QED
        BY <2>3, <3>1 DEF Fine, Disjoint
  <2>7. outcome' \in {"returned", "raised", "endless"}
      BY <2>1, Outcomes, Zenon
  <2> QED
      BY <1>1, <1>3, <2>4, <2>5, <2>6, <2>7, Zenon
<1>4. CASE script = "mxc6225xu"
  <2>1. PICK q \in I2CInputs("mxc6225xu") : Mxc6225xu(q)
      BY <1>0, <1>4, Chosen, Zenon
  <2>3. Fine("mxc6225xu", Mxc6225xuRows)'
      BY <1>0, <2>1, Mxc6225xuKept, Zenon
  <2>4. I2CHand("mxc6225xu", q) /\ script' = "mxc6225xu"
      BY <1>0, <2>1, I2CHanded, Zenon DEF Mxc6225xu
  <2>5. Known'
      BY <2>3, <2>4 DEF Known
  <2>6. put' \in Seq(Fits("mxc6225xu", Shows, count')) /\ Disjoint("mxc6225xu", put')
    <3>1. Shows = Mxc6225xuRows
        BY <1>4, ShowsOf, Zenon
    <3> QED
        BY <2>3, <3>1 DEF Fine, Disjoint
  <2>7. outcome' \in {"returned", "raised", "endless"}
      BY <2>1, Outcomes, Zenon
  <2> QED
      BY <1>1, <1>4, <2>4, <2>5, <2>6, <2>7, Zenon
<1>5. CASE script = "tca6408a"
  <2>1. PICK q \in I2CInputs("tca6408a") : Tca6408a(q)
      BY <1>0, <1>5, Chosen, Zenon
  <2>3. Fine("tca6408a", Tca6408aRows)'
      BY <1>0, <2>1, Tca6408aKept, Zenon
  <2>4. I2CHand("tca6408a", q) /\ script' = "tca6408a"
      BY <1>0, <2>1, I2CHanded, Zenon DEF Tca6408a
  <2>5. Known'
      BY <2>3, <2>4 DEF Known
  <2>6. put' \in Seq(Fits("tca6408a", Shows, count')) /\ Disjoint("tca6408a", put')
    <3>1. Shows = Tca6408aRows
        BY <1>5, ShowsOf, Zenon
    <3> QED
        BY <2>3, <3>1 DEF Fine, Disjoint
  <2>7. outcome' \in {"returned", "raised", "endless"}
      BY <2>1, Outcomes, Zenon
  <2> QED
      BY <1>1, <1>5, <2>4, <2>5, <2>6, <2>7, Zenon
<1>6. CASE script = "pca9571"
  <2>1. PICK q \in I2CInputs("pca9571") : Pca9571(q)
      BY <1>0, <1>6, Chosen, Zenon
  <2>2. Pca9571Pd
      BY <1>0, <1>6, Zenon DEF Known
  <2>3. Pca9571Pd' /\ Fine("pca9571", Pca9571Rows)'
      BY <1>0, <2>1, <2>2, Pca9571Kept, Zenon
  <2>4. I2CHand("pca9571", q) /\ script' = "pca9571"
      BY <1>0, <2>1, I2CHanded, Zenon DEF Pca9571
  <2>5. Known'
      BY <2>3, <2>4 DEF Known
  <2>6. put' \in Seq(Fits("pca9571", Shows, count')) /\ Disjoint("pca9571", put')
    <3>1. Shows = Pca9571Rows
        BY <1>6, ShowsOf, Zenon
    <3> QED
        BY <2>3, <3>1 DEF Fine, Disjoint
  <2>7. outcome' \in {"returned", "raised", "endless"}
      BY <2>1, Outcomes, Zenon
  <2> QED
      BY <1>1, <1>6, <2>4, <2>5, <2>6, <2>7, Zenon
<1>7. CASE script = "nunchuk"
  <2>1. PICK q \in I2CInputs("nunchuk") : Nunchuk(q)
      BY <1>0, <1>7, Chosen, Zenon
  <2>2. NunchukPd
      BY <1>0, <1>7, Zenon DEF Known
  <2>3. NunchukPd' /\ Fine("nunchuk", NunchukRows)'
      BY <1>0, <2>1, <2>2, NunchukAttributes, NunchukPuts, Zenon
  <2>4. I2CHand("nunchuk", q) /\ script' = "nunchuk"
      BY <1>0, <2>1, I2CHanded, Zenon DEF Nunchuk
  <2>5. Known'
      BY <2>3, <2>4 DEF Known
  <2>6. put' \in Seq(Fits("nunchuk", Shows, count')) /\ Disjoint("nunchuk", put')
    <3>1. Shows = NunchukRows
        BY <1>7, ShowsOf, Zenon
    <3> QED
        BY <2>3, <3>1 DEF Fine, Disjoint
  <2>7. outcome' \in {"returned", "raised", "endless"}
      BY <2>1, Outcomes, Zenon
  <2> QED
      BY <1>1, <1>7, <2>4, <2>5, <2>6, <2>7, Zenon
<1>8. CASE script = "lm75"
  <2>1. PICK q \in I2CInputs("lm75") : Lm75(q)
      BY <1>0, <1>8, Chosen, Zenon
  <2>2. Lm75Pd
      BY <1>0, <1>8, Zenon DEF Known
  <2>3. Lm75Pd' /\ Fine("lm75", Lm75Rows)'
      BY <1>0, <2>1, <2>2, Lm75Kept, Zenon
  <2>4. I2CHand("lm75", q) /\ script' = "lm75"
      BY <1>0, <2>1, I2CHanded, Zenon DEF Lm75
  <2>5. Known'
      BY <2>3, <2>4 DEF Known
  <2>6. put' \in Seq(Fits("lm75", Shows, count')) /\ Disjoint("lm75", put')
    <3>1. Shows = Lm75Rows
        BY <1>8, ShowsOf, Zenon
    <3> QED
        BY <2>3, <3>1 DEF Fine, Disjoint
  <2>7. outcome' \in {"returned", "raised", "endless"}
      BY <2>1, Outcomes, Zenon
  <2> QED
      BY <1>1, <1>8, <2>4, <2>5, <2>6, <2>7, Zenon
<1>9. CASE script = "mlx90614"
  <2>1. PICK q \in I2CInputs("mlx90614") : Mlx90614(q)
      BY <1>0, <1>9, Chosen, Zenon
  <2>2. Mlx90614Pd
      BY <1>0, <1>9, Zenon DEF Known
  <2>3. Mlx90614Pd' /\ Fine("mlx90614", Mlx90614Rows)'
      BY <1>0, <2>1, <2>2, Mlx90614Kept, Zenon
  <2>4. I2CHand("mlx90614", q) /\ script' = "mlx90614"
      BY <1>0, <2>1, I2CHanded, Zenon DEF Mlx90614
  <2>5. Known'
      BY <2>3, <2>4 DEF Known
  <2>6. put' \in Seq(Fits("mlx90614", Shows, count')) /\ Disjoint("mlx90614", put')
    <3>1. Shows = Mlx90614Rows
        BY <1>9, ShowsOf, Zenon
    <3> QED
        BY <2>3, <3>1 DEF Fine, Disjoint
  <2>7. outcome' \in {"returned", "raised", "endless"}
      BY <2>1, Outcomes, Zenon
  <2> QED
      BY <1>1, <1>9, <2>4, <2>5, <2>6, <2>7, Zenon
<1>10. CASE script = "hdcp"
  <2>1. PICK q \in I2CInputs("hdcp") : Hdcp(q)
      BY <1>0, <1>10, Chosen, Zenon
  <2>2. HdcpPd
      BY <1>0, <1>10, Zenon DEF Known
  <2>3. HdcpPd' /\ Fine("hdcp", HdcpRows)'
      BY <1>0, <2>1, <2>2, HdcpKept, HdcpPuts, Zenon
  <2>4. I2CHand("hdcp", q) /\ script' = "hdcp"
      BY <1>0, <2>1, I2CHanded, Zenon DEF Hdcp
  <2>5. Known'
      BY <2>3, <2>4 DEF Known
  <2>6. put' \in Seq(Fits("hdcp", Shows, count')) /\ Disjoint("hdcp", put')
    <3>1. Shows = HdcpRows
        BY <1>10, ShowsOf, Zenon
    <3> QED
        BY <2>3, <3>1 DEF Fine, Disjoint
  <2>7. outcome' \in {"returned", "raised", "endless"}
      BY <2>1, Outcomes, Zenon
  <2> QED
      BY <1>1, <1>10, <2>4, <2>5, <2>6, <2>7, Zenon
<1>11. CASE script = "ltc26x7"
  <2>1. PICK q \in I2CInputs("ltc26x7") : Ltc26x7(q)
      BY <1>0, <1>11, Chosen, Zenon
  <2>2. Ltc26x7Pd
      BY <1>0, <1>11, Zenon DEF Known
  <2>3. Ltc26x7Pd' /\ Fine("ltc26x7", Ltc26x7Rows)'
      BY <1>0, <2>1, <2>2, Ltc26x7Kept, Zenon
  <2>4. I2CHand("ltc26x7", q) /\ script' = "ltc26x7"
      BY <1>0, <2>1, I2CHanded, Zenon DEF Ltc26x7
  <2>5. Known'
      BY <2>3, <2>4 DEF Known
  <2>6. put' \in Seq(Fits("ltc26x7", Shows, count')) /\ Disjoint("ltc26x7", put')
    <3>1. Shows = Ltc26x7Rows
        BY <1>11, ShowsOf, Zenon
    <3> QED
        BY <2>3, <3>1 DEF Fine, Disjoint
  <2>7. outcome' \in {"returned", "raised", "endless"}
      BY <2>1, Outcomes, Zenon
  <2> QED
      BY <1>1, <1>11, <2>4, <2>5, <2>6, <2>7, Zenon
<1>12. CASE script = "i2cfilter"
  <2>1. PICK q \in I2CInputs("i2cfilter") : I2cFilter(q)
      BY <1>0, <1>12, Chosen, Zenon
  <2>2. I2cFilterPd
      BY <1>0, <1>12, Zenon DEF Known
  <2>3. I2cFilterPd' /\ Fine("i2cfilter", {"i2c"})'
      BY <1>0, <2>1, <2>2, I2cFilterKept, Zenon
  <2>4. I2CHand("i2cfilter", q) /\ script' = "i2cfilter"
      BY <1>0, <2>1, I2CHanded, Zenon DEF I2cFilter
  <2>5. Known'
      BY <2>3, <2>4 DEF Known
  <2>6. put' \in Seq(Fits("i2cfilter", Shows, count')) /\ Disjoint("i2cfilter", put')
    <3>1. Shows = {"i2c"}
        BY <1>12, ShowsOf, Zenon
    <3> QED
        BY <2>3, <3>1 DEF Fine, Disjoint
  <2>7. outcome' \in {"returned", "raised", "endless"}
      BY <2>1, Outcomes, Zenon
  <2> QED
      BY <1>1, <1>12, <2>4, <2>5, <2>6, <2>7, Zenon
<1>13. CASE script = "i2cdemux"
  <2>1. PICK q \in I2CInputs("i2cdemux") : I2cDemux(q)
      BY <1>0, <1>13, Chosen, Zenon
  <2>2. I2cDemuxPd
      BY <1>0, <1>13, Zenon DEF Known
  <2>3. I2cDemuxPd' /\ Fine("i2cdemux", I2cDemuxRows)'
      BY <1>0, <2>1, <2>2, I2cDemuxKept, Zenon
  <2>4. I2CHand("i2cdemux", q) /\ script' = "i2cdemux"
      BY <1>0, <2>1, I2CHanded, Zenon DEF I2cDemux
  <2>5. Known'
      BY <2>3, <2>4 DEF Known
  <2>6. put' \in Seq(Fits("i2cdemux", Shows, count')) /\ Disjoint("i2cdemux", put')
    <3>1. Shows = I2cDemuxRows
        BY <1>13, ShowsOf, Zenon
    <3> QED
        BY <2>3, <3>1 DEF Fine, Disjoint
  <2>7. outcome' \in {"returned", "raised", "endless"}
      BY <2>1, Outcomes, Zenon
  <2> QED
      BY <1>1, <1>13, <2>4, <2>5, <2>6, <2>7, Zenon
<1> QED
    BY <1>0, <1>2, <1>3, <1>4, <1>5, <1>6, <1>7, <1>8, <1>9, <1>10, <1>11, <1>12, <1>13 DEF ProvedI2C

\* A step that hands nothing over.
LEMMA ScriptStutter ==
    ASSUME ScriptInv, UNCHANGED vars
    PROVE  ScriptInv'
<1>1. /\ script' = script /\ pd' = pd /\ line' = line /\ count' = count /\ calls' = calls
      /\ put' = put /\ outcome' = outcome
    BY DEF vars
<1>2. Ss' = Ss
    BY <1>1 DEF Ss
<1>3. Known' <=> Known
    BY <1>1, <1>2 DEF Known, RegPd, Pca9571Pd, NunchukPd, Lm75Pd, Mlx90614Pd, HdcpPd, Ltc26x7Pd,
                      I2cFilterPd, I2cDemuxPd
<1>4. Shows' = Shows
    BY <1>1, Zenon DEF Shows
<1>5. Fine(script, Shows)' <=> Fine(script, Shows)
    BY <1>1, <1>4 DEF Fine, Disjoint
<1> QED
    BY <1>1, <1>3, <1>5 DEF ScriptInv

-----------------------------------------------------------------------------
(* What follows.                                                           *)

\* What is relied on follows from the invariant.
LEMMA ScriptPromises ==
    ASSUME ScriptInv
    PROVE  TypeOK /\ SpansOfThePast /\ ShownInSpan /\ DrawnApart
<1>1. /\ script \in Scripts /\ count \in Nat /\ calls \in 0..MaxCalls[script]
      /\ outcome \in {"returned", "raised", "endless"} /\ Fine(script, Shows)
    BY Proved, Zenon DEF ScriptInv
<1> DEFINE fits == Fits(script, Shows, count)
<1>2. put \in Seq(fits) /\ Disjoint(script, put)
    BY <1>1 DEF Fine
<1>3. \A i \in DOMAIN put : put[i] \in fits
  <2> HIDE DEF fits
  <2> QED
      BY <1>2
<1>4. TypeOK
  <2>1. \A i \in DOMAIN put : put[i].row \in Shows
      BY <1>3 DEF Fits
  <2>2. script \in DOMAIN MaxCalls
      BY <1>1, CallBounds, Zenon
  <2> QED
      BY <1>1, <2>1, <2>2, Zenon DEF TypeOK
<1>5. SpansOfThePast
    BY <1>3 DEF SpansOfThePast, Promised, Fits
<1>6. ShownInSpan
    BY <1>3 DEF ShownInSpan, Promised, Fits
<1>7. DrawnApart
    BY <1>2 DEF DrawnApart, Promised, Disjoint
<1> QED
    BY <1>4, <1>5, <1>6, <1>7

ClearedI2C == {"pca9571", "i2cfilter", "i2cdemux"}

\* Between transfers the three scripts that clear their attributes are as started.
LEMMA ScriptRests ==
    ASSUME ScriptInv, script \in ClearedI2C
    PROVE  FreshAtRest
<1> SUFFICES ASSUME line \in {"idle", "high", "rose"}, outcome = "returned",
                    NEW a \in OfTransfer
             PROVE  pd[a] = Attributes(script)[a]
    BY DEF FreshAtRest
<1>1. line = "idle" /\ Known
  <2>1. line \in I2CLines /\ Known
      BY Zenon DEF ScriptInv
  <2> QED
      BY <2>1 DEF I2CLines
<1>2. CASE script = "pca9571"
  <2>1. a = "state" /\ Pca9571Pd /\ Attributes(script) = Pca0
    <3>1. OfTransfer = {"state"}
        BY <1>2, Zenon DEF OfTransfer
    <3> QED
        BY <1>1, <1>2, <3>1, AttributesOf, Zenon DEF Known
  <2> QED
      BY <1>1, <2>1 DEF Pca9571Pd, Pca0
<1>3. CASE script = "i2cfilter"
  <2>1. a = "packets" /\ I2cFilterPd /\ Attributes(script) = Filter0
    <3>1. OfTransfer = {"packets"}
        BY <1>3, Zenon DEF OfTransfer
    <3> QED
        BY <1>1, <1>3, <3>1, AttributesOf, Zenon DEF Known
  <2> QED
      BY <1>1, <2>1 DEF I2cFilterPd, Filter0
<1>4. CASE script = "i2cdemux"
  <2>1. a \in {"packets", "stream"} /\ I2cDemuxPd /\ Attributes(script) = Demux0
    <3>1. OfTransfer = {"packets", "stream"}
        BY <1>4, Zenon DEF OfTransfer
    <3> QED
        BY <1>1, <1>4, <3>1, AttributesOf, Zenon DEF Known
  <2> QED
      BY <1>1, <2>1 DEF I2cDemuxPd, Demux0
<1> QED
    BY <1>2, <1>3, <1>4 DEF ClearedI2C

\* A script stays the one that was started: srd_session_send() runs the decode() of one
\* decoder instance.
LEMMA Same == ScriptInv /\ [Next]_vars => script' = script
<1>1. ASSUME ScriptInv, Next
      PROVE  script' = script
  <2>1. script \in ProvedI2C /\ count \in Nat
      BY <1>1, Zenon DEF ScriptInv
  <2>2. CASE script = "rtc8564"
      BY <1>1, <2>1, <2>2, Chosen, I2CHanded, Zenon DEF Rtc8564
  <2>3. CASE script = "ds1307"
      BY <1>1, <2>1, <2>3, Chosen, I2CHanded, Zenon DEF Ds1307
  <2>4. CASE script = "mxc6225xu"
      BY <1>1, <2>1, <2>4, Chosen, I2CHanded, Zenon DEF Mxc6225xu
  <2>5. CASE script = "tca6408a"
      BY <1>1, <2>1, <2>5, Chosen, I2CHanded, Zenon DEF Tca6408a
  <2>6. CASE script = "pca9571"
      BY <1>1, <2>1, <2>6, Chosen, I2CHanded, Zenon DEF Pca9571
  <2>7. CASE script = "nunchuk"
      BY <1>1, <2>1, <2>7, Chosen, I2CHanded, Zenon DEF Nunchuk
  <2>8. CASE script = "lm75"
      BY <1>1, <2>1, <2>8, Chosen, I2CHanded, Zenon DEF Lm75
  <2>9. CASE script = "mlx90614"
      BY <1>1, <2>1, <2>9, Chosen, I2CHanded, Zenon DEF Mlx90614
  <2>10. CASE script = "hdcp"
      BY <1>1, <2>1, <2>10, Chosen, I2CHanded, Zenon DEF Hdcp
  <2>11. CASE script = "ltc26x7"
      BY <1>1, <2>1, <2>11, Chosen, I2CHanded, Zenon DEF Ltc26x7
  <2>12. CASE script = "i2cfilter"
      BY <1>1, <2>1, <2>12, Chosen, I2CHanded, Zenon DEF I2cFilter
  <2>13. CASE script = "i2cdemux"
      BY <1>1, <2>1, <2>13, Chosen, I2CHanded, Zenon DEF I2cDemux
  <2> QED
      BY <2>1, <2>2, <2>3, <2>4, <2>5, <2>6, <2>7, <2>8, <2>9, <2>10, <2>11, <2>12, <2>13 DEF ProvedI2C
<1> QED
    BY <1>1 DEF vars

\* What is known of a script at its start() is kept by every decode(), whatever packets the
\* I2C script hands it.
THEOREM ScriptInvariant == Spec /\ script \in ProvedI2C => []ScriptInv
<1>1. Init /\ script \in ProvedI2C => ScriptInv
    BY StartKnown
<1>2. ScriptInv /\ [Next]_vars => ScriptInv'
    BY ScriptKept, ScriptStutter
<1> QED
    BY <1>1, <1>2, PTL DEF Spec

\* Every annotation a decode() of these scripts puts belongs to a row the script has
\* declared, and the call returns or raises: srd_decoder_put() refuses other classes.
THEOREM ScriptTypeCorrect == Spec /\ script \in ProvedI2C => []TypeOK
<1>1. ScriptInv => TypeOK
    BY ScriptPromises
<1> QED
    BY <1>1, ScriptInvariant, PTL

\* Their annotations start before they end, and end in the past: no mark (ss_block,
\* databytes, stack, data, packets) is used that was never set or lies ahead.
THEOREM SpansCorrect == Spec /\ script \in ProvedI2C => []SpansOfThePast
<1>1. ScriptInv => SpansOfThePast
    BY ScriptPromises
<1> QED
    BY <1>1, ScriptInvariant, PTL

\* Their annotations lie over every byte whose value they show, so none shows a byte that
\* is left over from an earlier transfer, except in the rows OutOfPlace names.
THEOREM ShownCorrect == Spec /\ script \in ProvedI2C => []ShownInSpan
<1>1. ScriptInv => ShownInSpan
    BY ScriptPromises
<1> QED
    BY <1>1, ScriptInvariant, PTL

\* What one decode() of theirs puts in one row lies apart: the bits of a register and the
\* packets that are passed on do not overlap, except in the rows Overlaid names.
THEOREM ApartCorrect == Spec /\ script \in ProvedI2C => []DrawnApart
<1>1. ScriptInv => DrawnApart
    BY ScriptPromises
<1> QED
    BY <1>1, ScriptInvariant, PTL

\* Wherever a transfer broke off, pca9571 awaits a START again, and i2cfilter and i2cdemux
\* hold no packet of it that they could pass on with the next transfer.
THEOREM RestCorrect == Spec /\ script \in ClearedI2C => []FreshAtRest
<1>1. script \in ClearedI2C => script \in ProvedI2C
    BY DEF ClearedI2C, ProvedI2C
<1>2. ScriptInv /\ script \in ClearedI2C /\ [Next]_vars => (script \in ClearedI2C)'
    BY Same
<1>3. ScriptInv /\ script \in ClearedI2C => FreshAtRest
    BY ScriptRests
<1> QED
    BY <1>1, <1>2, <1>3, ScriptInvariant, PTL DEF Spec
===============================================================================
