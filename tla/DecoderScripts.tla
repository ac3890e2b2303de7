---------------------------- MODULE DecoderScripts ----------------------------
(***************************************************************************)
(* One decoder script on top of a layer that may hand it anything its      *)
(* grammar of packets allows.  The script is chosen at the start.          *)
(***************************************************************************)
EXTENDS I2CRegisters, I2CDevices, I2CMemories, SPIRadios, SPIMemories, SPIRegisters, SPIChips,
        UARTSerial, UARTBuses, UARTTrace, Z80Script, USBScripts, JTAGScripts,
        OneWireScripts, LinkScripts, DecoderRows

CONSTANTS
    Slaves,   \* per script, the I2C addresses that appear
    Bytes,    \* per script, the bytes that are sent
    Runs      \* per script that collects bytes, the runs of them that are sent

ASSUME I2CBytes == \A name \in {"rtc8564", "ds1307"} : Bytes[name] \subseteq 0..255

\* What may be handed to a script; nothing while another one runs.
For(name, inputs) == IF script = name THEN inputs ELSE {}
I2CInputs(name) ==
    For(name, I2CConditions \cup I2CAddresses(Slaves[name]) \cup I2CData(Bytes[name]))
RunsOf(name) == For(name, Runs[name])
\* Inputs by their place in a message.
Placed(name, inputs, at) ==
    For(name, LET places == inputs[name] IN places[IF at > Len(places) THEN Len(places) ELSE at])
\* SPI bytes, the same in both directions.
SPIInputs(name, at) ==
    For(name, SPISelects \cup {SPITransfer}
              \cup {[cmd |-> "DATA", v |-> b, w |-> b] : b \in Placed(name, Bytes, at)})

\* reset() of the scripts, and the attributes start() takes from the options.
I2CScripts == {"rtc8564", "ds1307", "mxc6225xu", "tca6408a", "pca9571", "nunchuk", "lm75",
               "mlx90614", "hdcp", "ltc26x7", "i2cfilter", "i2cdemux",
               "eeprom24xx", "xfp", "atsha204a", "edid"}
SPIScripts == {"cc1101", "st25r39xx_spi", "nrf24l01", "a7105", "spiflash", "sdcard_spi",
               "mrf24j40", "ade77xx", "adns5020", "max7219", "adxl345", "enc28j60", "nrf905",
               "avr_isp", "adf435x", "ad79x0", "ltc242x", "x2444m", "nes_gamepad", "ssi32", "rfm12", "ad5626", "rgb_led_spi"}
UARTScripts == {"midi", "amulet_ascii", "lin", "sbus_futaba", "pan1321", "ufcs", "arm_tpiu", "arm_itm", "arm_etmv3"}
OtherScripts == {"z80", "usb_packet", "usb_request", "jtag", "cjtag", "cjtag-oscan0", "jtag_ejtag", "jtag_stm32",
                 "onewire_network", "ds243x", "ds2408", "ds28ea00", "pjon", "sipi", "eeprom93xx", "ook_oregon", "cfp"}
Scripts == I2CScripts \cup SPIScripts \cup UARTScripts \cup OtherScripts \cup {"modbus", "ook_vis"}
ASSUME CallBounds == \A name \in Scripts : name \in DOMAIN MaxCalls /\ MaxCalls[name] \in Nat

Attributes(name) ==
    CASE name = "rtc8564" -> Rtc0
      [] name = "ds1307" -> Ds0
      [] name = "mxc6225xu" -> Mxc0
      [] name = "tca6408a" -> Tca0
      [] name = "pca9571" -> Pca0
      [] name = "nunchuk" -> Nun0
      [] name = "lm75" -> Lm750
      [] name = "mlx90614" -> Mlx0
      [] name = "hdcp" -> Hdcp0
      [] name = "ltc26x7" -> Ltc0
      [] name = "i2cfilter" -> Filter0
      [] name = "i2cdemux" -> Demux0
      [] name = "eeprom24xx" -> Eep0
      [] name = "xfp" -> Xfp0
      [] name = "atsha204a" -> Sha0
      [] name = "edid" -> Edid0
      [] name \in {"cc1101", "st25r39xx_spi", "nrf24l01", "a7105"} -> Radio0
      [] name = "spiflash" -> Flash0
      [] name = "sdcard_spi" -> Sd0
      [] name = "mrf24j40" -> Mrf0
      [] name \in {"ade77xx", "adns5020"} -> Collect0
      [] name = "max7219" -> Max0
      [] name = "adxl345" -> Adxl0
      [] name = "enc28j60" -> Enc0
      [] name = "avr_isp" -> Avr0
      [] name = "rfm12" -> Rfm0
      [] name = "midi" -> Midi0
      [] name = "amulet_ascii" -> Amulet0
      [] name = "lin" -> Lin0
      [] name = "sbus_futaba" -> Sbus0
      [] name = "pan1321" -> Pan0
      [] name = "ufcs" -> Ufcs0
      [] name = "arm_tpiu" -> Tpiu0
      [] name = "arm_itm" -> Itm0
      [] name = "arm_etmv3" -> Etm0
      [] name = "z80" -> Z800
      [] name = "usb_request" -> Usb0
      [] name = "jtag" -> Jtag0
      [] name = "cjtag" -> Cjtag0
      [] name = "cjtag-oscan0" -> Oscan0
      [] name = "jtag_ejtag" -> Ejtag0
      [] name = "jtag_stm32" -> Stm0
      [] name = "onewire_network" -> Network0
      [] name \in {"ds243x", "ds2408"} -> Function0
      [] name = "ds28ea00" -> Ea0
      [] name = "pjon" -> PjonBlank
      [] name = "ad5626" -> Ad0
      [] name = "rgb_led_spi" -> Rgb0
      [] OTHER -> <<>>   \* nothing outlives a step

I2CNext ==
    \/ \E q \in I2CInputs("rtc8564") : Rtc8564(q)
    \/ \E q \in I2CInputs("ds1307") : Ds1307(q)
    \/ \E q \in I2CInputs("mxc6225xu") : Mxc6225xu(q)
    \/ \E q \in I2CInputs("tca6408a") : Tca6408a(q)
    \/ \E q \in I2CInputs("pca9571") : Pca9571(q)
    \/ \E q \in I2CInputs("nunchuk") : Nunchuk(q)
    \/ \E q \in I2CInputs("lm75") : Lm75(q)
    \/ \E q \in I2CInputs("mlx90614") : Mlx90614(q)
    \/ \E q \in I2CInputs("hdcp") : Hdcp(q)
    \/ \E q \in I2CInputs("ltc26x7") : Ltc26x7(q)
    \/ \E q \in I2CInputs("i2cfilter") : I2cFilter(q)
    \/ \E q \in I2CInputs("i2cdemux") : I2cDemux(q)
    \/ \E q \in I2CInputs("eeprom24xx") : Eeprom24xx(q)
    \/ \E content \in {"blank", "filled", "odd"} : Xfp(content)
    \/ \E q \in For("atsha204a", I2CRuns(Slaves["atsha204a"], Runs["atsha204a"])) : Atsha204a(q)
    \/ \E content \in {"plain", "rich", "header"} :
           \E q \in For("edid", EdidInputs(Slaves["edid"], Runs["edid"])) : Edid(q, content)

SPINext ==
    \/ \E q \in SPIInputs("cc1101", 1) : Cc1101(q)
    \/ \E q \in SPIInputs("st25r39xx_spi", 1) : St25r39xxSpi(q)
    \/ \E q \in SPIInputs("nrf24l01", 1), wrong \in BOOLEAN : Nrf24l01(q, wrong)
    \/ \E q \in SPIInputs("a7105", 1) : A7105(q)
    \/ \E q \in SPIInputs("spiflash", 1), aligned \in BOOLEAN : Spiflash(q, aligned)
    \/ \E n \in RunsOf("sdcard_spi"), index \in Bytes["sdcard_spi"], stray \in BOOLEAN :
           SdcardSpi(n, index, stray)
    \/ \E q \in SPIInputs("mrf24j40", Len(pd.bytes) + 1) : Mrf24j40(q)
    \/ \E q \in SPIInputs("ade77xx", Len(pd.bytes) + 1) : Ade77xx(q)
    \/ \E q \in SPIInputs("adns5020", 1) : Adns5020(q)
    \/ \E q \in SPIInputs("max7219", 1) : Max7219(q)
    \/ \E q \in SPIInputs("adxl345", 1) : Adxl345(q)
    \/ \E run \in RunsOf("enc28j60") : Enc28j60(run)
    \/ \E n \in RunsOf("nrf905"), first \in Bytes["nrf905"] : Nrf905(first, n)
    \/ \E command \in RunsOf("avr_isp"), reply \in Bytes["avr_isp"] : AvrIsp(command, reply)
    \/ \E n \in RunsOf("adf435x"), reg \in 0..7, low \in BOOLEAN : Adf435x(n, reg, low)
    \/ \E n \in RunsOf("ad79x0"), full \in BOOLEAN : Ad79x0(n, full)
    \/ \E n \in RunsOf("ltc242x"), channel \in {0, 1} : Ltc242x(n, channel)
    \/ \E n \in RunsOf("x2444m"), first \in Bytes["x2444m"] : X2444m(first, n)
    \/ \E q \in SPIInputs("nes_gamepad", 1) : NesGamepad(q)
    \/ \E n \in RunsOf("ssi32"), first \in {0, 128}, tx, rx \in Bytes["ssi32"] : Ssi32(first, n, tx, rx)
    \/ \E q \in SPIInputs("rfm12", IF pd.first = Unknown THEN 1 ELSE 2) : Rfm12(q)
    \/ \E q \in SPIInputs("ad5626", 1) : Ad5626(q)
    \/ \E q \in SPIInputs("rgb_led_spi", 1) : RgbLedSpi(q)

UARTNext ==
    \/ \E v \in For("midi", Bytes["midi"]) : Midi(v)
    \/ \E v \in Placed("modbus", Bytes, calls + 1), gap \in Placed("modbus", Runs, calls + 1), good \in BOOLEAN :
           Modbus(v, gap, good)
    \/ \E v \in For("amulet_ascii", Bytes["amulet_ascii"]) : AmuletAscii(v)
    \/ \E v \in Placed("lin", Bytes, calls + 1), stop \in BOOLEAN, bad \in SUBSET {"parity", "checksum"} :
           Lin(v, stop, bad)
    \/ \E bad \in For("lin", SUBSET {"parity", "checksum"}) : LinEnd(bad)
    \/ \E v \in Placed("sbus_futaba", Bytes, calls + 1), frame \in Placed("sbus_futaba", Runs, calls + 1) :
           Sbus(v, frame.gap, frame.valid)
    \/ \E v \in For("pan1321", Bytes["pan1321"]) : Pan1321(v)
    \/ \E v \in Placed("ufcs", Bytes, calls + 1), good \in BOOLEAN : Ufcs(v, good)
    \/ \E v \in Placed("arm_tpiu", Bytes, calls + 1), gap \in Placed("arm_tpiu", Runs, calls + 1) : ArmTpiu(v, gap)
    \/ \E v \in Placed("arm_itm", Bytes, calls + 1), gap \in Placed("arm_itm", Runs, calls + 1) : ArmItm(v, gap)
    \/ \E v \in Placed("arm_etmv3", Bytes, calls + 1), gap \in Placed("arm_etmv3", Runs, calls + 1), jumped \in BOOLEAN :
           ArmEtmv3(v, gap, jumped)

OtherNext ==
    \/ \E v \in Placed("z80", Bytes, calls + 1), cycle \in Placed("z80", Runs, calls + 1) : Z80(cycle[1], cycle[2], v)
    \/ \E n \in RunsOf("usb_packet"), pid \in UsbTokens \cup {"SOF"} \cup UsbDatas \cup UsbOthers : UsbPacket(n, pid)
    \/ \E packet \in Placed("usb_request", Runs, calls + 1) : UsbRequest(packet[1], packet[2])
    \/ \E edges \in RunsOf("jtag") : Jtag(edges)
    \/ \E edges \in Placed("cjtag", Runs, calls + 1) : Cjtag(edges)
    \/ \E edges \in Placed("cjtag-oscan0", Runs, calls + 1) : CjtagOscan0(edges)
    \/ \E scan \in Placed("jtag_ejtag", Runs, calls + 1) : JtagEjtag(scan.edges, scan.code, scan.access)
    \/ \E scan \in Placed("jtag_stm32", Runs, calls + 1) : JtagStm32(scan.edges, scan.instruction)
    \/ \E q \in Placed("onewire_network", Runs, calls + 1) : OneWireNetwork(q)
    \/ \E q \in Placed("ds243x", Runs, calls + 1) : Ds243x(q)
    \/ \E q \in Placed("ds2408", Runs, calls + 1) : Ds2408(q)
    \/ \E q \in RunsOf("ds28ea00") : Ds28ea00(q)
    \/ \E q \in Placed("pjon", Runs, calls + 1) : Pjon(q)
    \/ \E n \in RunsOf("sipi"), v \in Bytes["sipi"], reserved \in SUBSET {"4..7", "0"}, good \in BOOLEAN :
           Sipi(n, v, reserved, good)
    \/ \E n \in RunsOf("eeprom93xx"), opcode \in {"READ", "WRITE", "ERASE", "other"}, extended \in {"WEN", "WRAL"} :
           Eeprom93xx(n, opcode, extended)
    \/ \E packet \in RunsOf("ook_oregon"), type \in OregonTypes, unread \in SUBSET {"channel", "battery", "wind"}, errors \in BOOLEAN :
           OokOregon(packet.ver, packet.pre, packet.n, type, unread, errors)
    \/ \E n, p \in RunsOf("ook_vis") : OokVis(n, p)
    \/ \E is_read \in BOOLEAN, reg \in For("cfp", Bytes["cfp"]) : Cfp(is_read, reg)

Init ==
    \/ \E name \in I2CScripts : Begin(name, Attributes(name), "idle")
    \/ \E name \in SPIScripts : Begin(name, Attributes(name), "begin")
    \/ \E name \in UARTScripts : Begin(name, Attributes(name), "idle")
    \/ \E name \in OtherScripts : Begin(name, Attributes(name), "idle")
    \/ \E sides \in {{"sc"}, {"cs"}, {"sc", "cs"}} : Begin("modbus", Modbus0(sides), "idle")
    \/ \E ref \in {0, 2, NumbersOnly}, offset \in {-4, 0, 4} : Begin("ook_vis", Vis0(ref, offset), "idle")
Next == I2CNext \/ SPINext \/ UARTNext \/ OtherNext
Spec == Init /\ [][Next]_vars

-----------------------------------------------------------------------------
(***************************************************************************)
(* What DSView relies on.  A set of rows names the scripts that break a    *)
(* promise and where; what they do there is told in the README.            *)
(***************************************************************************)

\* The scripts that only pass packets on put them to the output they have for them.
Shows ==
    CASE script = "i2cfilter" -> {"i2c"}
      [] script = "i2cdemux" -> {ToString(a) : a \in Slaves[script]}
      [] OTHER -> Rows(script)

\* Every annotation belongs to a row its script has declared: srd_decoder_put() refuses
\* the others, and DecoderStack has no row to keep them in.
TypeOK ==
    /\ script \in DOMAIN MaxCalls
    /\ calls \in 0..MaxCalls[script]
    /\ count \in Nat
    /\ outcome \in {"returned", "raised", "endless"}
    /\ \A i \in DOMAIN put : put[i].row \in Shows

Promised(broken) == {i \in DOMAIN put : <<script, put[i].row>> \notin broken}

OutOfOrder ==
    {<<"a7105", "warnings">>, <<"max7219", "warnings">>, <<"nrf24l01", "warnings">>, <<"z80", "warnings">>,
     <<"adf435x", "writes">>, <<"adxl345", "data">>, <<"arm_itm", "software">>, <<"ds1307", "bits">>,
     <<"edid", "fields">>, <<"edid", "sections">>, <<"eeprom24xx", "bits-bytes">>, <<"eeprom24xx", "fields">>,
     <<"jtag_ejtag", "control_fields_in">>, <<"jtag_ejtag", "control_fields_out">>, <<"jtag_ejtag", "pracc">>,
     <<"jtag_stm32", "fields">>, <<"jtag_stm32", "items">>, <<"lin", "data">>, <<"lm75", "lm75">>,
     <<"modbus", "sc">>, <<"modbus", "cs">>, <<"nunchuk", "regs">>, <<"ook_oregon", "l2">>, <<"ook_vis", "compare">>,
     <<"ook_vis", "level2">>, <<"sdcard_spi", "bits">>, <<"ufcs", "payload">>, <<"usb_packet", "fields">>,
     <<"usb_request", "request-in">>, <<"usb_request", "request-out">>}
\* The annotations of a row are put in the order in which they start, in one decode() and
\* from one to the next: RowData looks the visible ones up by bisection and draws them
\* from left to right.
InOrder ==
    \A i \in Promised(OutOfOrder)' :
        /\ \A j \in 1..(i - 1) : put'[j].row = put'[i].row => put'[j].ss <= put'[i].ss
        /\ put'[i].row \in DOMAIN tail => \A s \in tail[put'[i].row] : s <= put'[i].ss
StartsInOrder == [][InOrder]_vars

NotOfThePast ==
    {<<"spiflash", "commands">>, <<"ook_vis", "level2">>, <<"jtag_stm32", "fields">>, <<"ufcs", "payload">>}
\* An annotation starts before it ends, and ends before the sample that the script below
\* has reached: samples are unsigned 64 bit numbers, and the view measures an annotation by
\* end - start.  It catches marks (ss_*, es_*) that were never set or are left over.
SpansOfThePast ==
    \A i \in Promised(NotOfThePast) : 0 <= put[i].ss /\ put[i].ss <= put[i].es /\ put[i].es <= Width * count

OutOfPlace ==
    {<<"amulet_ascii", "fields">>, <<"arm_itm", "trace">>, <<"arm_tpiu", "data">>, <<"cjtag", "bits-tdi">>,
     <<"cjtag", "bits-tdo">>, <<"cjtag-oscan0", "bits-tdi">>, <<"cjtag-oscan0", "bits-tdo">>, <<"ds1307", "date_time">>,
     <<"edid", "fields">>, <<"edid", "sections">>, <<"jtag_ejtag", "pracc">>, <<"rtc8564", "date-time">>, <<"ufcs", "phase">>, <<"ufcs", "payload">>, <<"xfp", "field-names-and-vals">>,
     <<"xfp", "field-vals">>, <<"z80", "operands">>}
\* An annotation lies over every byte its text is made of, so that nothing is read off a
\* waveform it does not belong to: bytes of an earlier transfer, or of a later one.
ShownInSpan ==
    \A i \in Promised(OutOfPlace) : \A b \in put[i].shown : b < put[i].es /\ put[i].ss < b + Width

Overlaid ==
    {<<"amulet_ascii", "bits">>, <<"amulet_ascii", "fields">>, <<"amulet_ascii", "warnings">>, <<"arm_etmv3", "trace">>,
     <<"arm_itm", "software">>, <<"atsha204a", "frame">>, <<"avr_isp", "warnings">>, <<"edid", "fields">>,
     <<"eeprom24xx", "warnings">>, <<"jtag_ejtag", "regs">>, <<"jtag_stm32", "commands">>, <<"jtag_stm32", "fields">>, <<"lin", "data">>,
     <<"lm75", "lm75">>, <<"modbus", "sc">>, <<"modbus", "cs">>, <<"nrf905", "registers">>, <<"ook_oregon", "l2">>,
     <<"ook_vis", "level2">>, <<"pan1321", "text">>, <<"sbus_futaba", "warnings">>, <<"spiflash", "bits">>,
     <<"st25r39xx_spi", "warnings">>, <<"ufcs", "payload">>, <<"usb_packet", "fields">>, <<"z80", "warnings">>,
     <<"xfp", "field-names-and-vals">>, <<"xfp", "field-vals">>}
\* The annotations that one decode() puts in one row lie apart: the view draws those of a
\* row over one another.  It catches fields whose bits or bytes are counted one too far.
DrawnApart ==
    \A i, j \in Promised(Overlaid) :
        i < j /\ put[i].row = put[j].row => put[i].es <= put[j].ss \/ put[j].es <= put[i].ss

\* The attributes that belong to one transfer.
OfTransfer ==
    CASE script \in {"cc1101", "st25r39xx_spi", "nrf24l01", "a7105"} -> {"cmd", "first", "mb", "mb_s", "mb_e"}
      [] script = "ad5626" -> {"data"}
      [] script \in {"ade77xx", "adns5020", "atsha204a"} -> {"bytes"}
      [] script \in {"adxl345", "pca9571", "ds28ea00"} -> {"state"}
      [] script = "spiflash" -> {"state", "cmdstate", "data", "on_end"}
      [] script = "eeprom24xx" -> {"state", "packets", "op"}
      [] script = "i2cfilter" -> {"packets"}
      [] script = "i2cdemux" -> {"packets", "stream"}
      [] script = "onewire_network" -> {"state", "bit_cnt"}
      [] script \in {"ds243x", "ds2408", "pjon"} -> DOMAIN pd
      [] script = "jtag" -> {"state", "n", "pos", "cnt", "ready"}
      [] OTHER -> {}
\* Between two transfers, however the last one broke off, these attributes are as start()
\* leaves them: nothing of one transfer is taken for a part of the next one.
FreshAtRest ==
    line \in {"idle", "high", "rose"} /\ outcome = "returned" =>
        \A a \in OfTransfer : pd[a] = Attributes(script)[a]
=============================================================================
