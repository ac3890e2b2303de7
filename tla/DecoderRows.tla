------------------------------ MODULE DecoderRows ------------------------------
(***************************************************************************)
(* The rows of annotations every script declares.  The library refuses an  *)
(* annotation of a class the script has not declared, and shows every      *)
(* class in the one row that lists it; a script without rows has one for   *)
(* all of its classes.                                                     *)
(***************************************************************************)

Rtc8564Rows == {"bits", "regs", "date-time"}
Ds1307Rows == {"bits", "regs", "date_time", "warnings"}
Mxc6225xuRows == {"mxc6225xu"}
Tca6408aRows == {"regs", "warnings"}
Pca9571Rows == {"regs", "warnings"}
NunchukRows == {"regs", "summary", "warnings"}
Lm75Rows == {"lm75"}
Mlx90614Rows == {"temps-celsius", "temps-kelvin"}
HdcpRows == {"messages", "summaries", "warnings"}
Ltc26x7Rows == {"addr_cmd", "dac_a_voltages", "dac_b_voltages"}
Eeprom24xxRows == {"bits-bytes", "fields", "ops", "warnings"}
XfpRows == {"field-names-and-vals", "field-vals"}
Atsha204aRows == {"frame", "status", "warnings"}
EdidRows == {"sections", "fields"}
Cc1101Rows == {"cmd", "data", "status", "warnings"}
St25r39xxSpiRows == {"regs", "cmds", "data", "status", "warnings"}
Nrf24l01Rows == {"commands", "responses", "warnings"}
A7105Rows == {"commands", "warnings"}
SpiflashRows == {"bits", "fields", "commands", "warnings"}
SdcardSpiRows == {"bits", "commands-replies"}
Mrf24j40Rows == {"reads", "writes", "warnings", "tx-frames", "rx-frames", "tx-retries-1", "tx-retries-2",
    "tx-retries-3", "tx-fails", "ccafails"}
Ade77xxRows == {"read", "write", "warnings"}
Adns5020Rows == {"read", "write", "warnings"}
Max7219Rows == {"commands", "warnings"}
Adxl345Rows == {"reg", "data"}
Enc28j60Rows == {"commands", "fields", "warnings"}
Nrf905Rows == {"commands", "responses", "registers", "tx", "rx", "warnings"}
AvrIspRows == {"commands", "warnings", "devs"}
Adf435xRows == {"writes", "warnings"}
Ad79x0Rows == {"modes", "voltages", "data_validation"}
Ltc242xRows == {"ch0_voltages", "ch1_voltages"}
X2444mRows == {"annotations"}
NesGamepadRows == {"buttons", "no-presses", "not-connected-vals"}
Ssi32Rows == {"tx", "rx"}
Rfm12Rows == {"commands", "return", "interpretation"}
Ad5626Rows == {"voltage"}
RgbLedSpiRows == {"rgb"}
MidiRows == {"normal", "sys-real"}
AmuletAsciiRows == {"bits", "fields", "commands", "warnings"}
LinRows == {"data", "error"}
SbusFutabaRows == {"framing", "channels", "warnings"}
Pan1321Rows == {"text"}
UfcsRows == {"phase", "payload", "type", "warnings", "text"}
ArmTpiuRows == {"stream", "data"}
ArmItmRows == {"trace", "software", "dwt_event", "dwt_watchpoint", "dwt_exc", "dwt_pc", "mode", "location",
    "function"}
ArmEtmv3Rows == {"trace", "flow", "data", "pc", "instruction", "source", "location", "function"}
ModbusRows == {"sc", "cs", "error-indicators"}
Z80Rows == {"addrbus", "databus", "instructions", "operands", "warnings"}
UsbPacketRows == {"fields", "packet"}
UsbRequestRows == {"request-setup", "request-in", "request-out", "errors"}
JtagRows == {"bits-tdi", "bits-tdo", "bitstrings-tdi", "bitstrings-tdo", "states"}
CjtagRows == {"bits-tdi", "bits-tdo", "bitstrings-tdi", "bitstrings-tdo", "bits-tms", "cjtag-states",
    "jtag-states"}
CjtagOscan0Rows == {"bits-tdi", "bits-tdo", "bitstrings-tdi", "bitstrings-tdo", "bit-tms", "state-tapc",
    "states"}
JtagEjtagRows == {"instructions", "regs", "control_fields_in", "control_fields_out", "pracc"}
JtagStm32Rows == {"items", "fields", "commands", "warnings"}
OnewireNetworkRows == {"text"}
Ds243xRows == {"text"}
Ds2408Rows == {"text"}
Ds28ea00Rows == {"text"}
PjonRows == {"fields", "relations", "warnings"}
SipiRows == {"fields", "warnings"}
Eeprom93xxRows == {"data", "warnings"}
OokOregonRows == {"bits", "fields", "l2"}
CfpRows == {"registers", "decodes"}
OokVisRows == {"bits", "compare", "fields", "ref_fields", "level2", "ref_level2"}

\* i2cfilter and i2cdemux have no annotations of their own and hand packets on.
Rows(name) ==
    CASE name = "rtc8564" -> Rtc8564Rows
      [] name = "ds1307" -> Ds1307Rows
      [] name = "mxc6225xu" -> Mxc6225xuRows
      [] name = "tca6408a" -> Tca6408aRows
      [] name = "pca9571" -> Pca9571Rows
      [] name = "nunchuk" -> NunchukRows
      [] name = "lm75" -> Lm75Rows
      [] name = "mlx90614" -> Mlx90614Rows
      [] name = "hdcp" -> HdcpRows
      [] name = "ltc26x7" -> Ltc26x7Rows
      [] name = "eeprom24xx" -> Eeprom24xxRows
      [] name = "xfp" -> XfpRows
      [] name = "atsha204a" -> Atsha204aRows
      [] name = "edid" -> EdidRows
      [] name = "cc1101" -> Cc1101Rows
      [] name = "st25r39xx_spi" -> St25r39xxSpiRows
      [] name = "nrf24l01" -> Nrf24l01Rows
      [] name = "a7105" -> A7105Rows
      [] name = "spiflash" -> SpiflashRows
      [] name = "sdcard_spi" -> SdcardSpiRows
      [] name = "mrf24j40" -> Mrf24j40Rows
      [] name = "ade77xx" -> Ade77xxRows
      [] name = "adns5020" -> Adns5020Rows
      [] name = "max7219" -> Max7219Rows
      [] name = "adxl345" -> Adxl345Rows
      [] name = "enc28j60" -> Enc28j60Rows
      [] name = "nrf905" -> Nrf905Rows
      [] name = "avr_isp" -> AvrIspRows
      [] name = "adf435x" -> Adf435xRows
      [] name = "ad79x0" -> Ad79x0Rows
      [] name = "ltc242x" -> Ltc242xRows
      [] name = "x2444m" -> X2444mRows
      [] name = "nes_gamepad" -> NesGamepadRows
      [] name = "ssi32" -> Ssi32Rows
      [] name = "rfm12" -> Rfm12Rows
      [] name = "ad5626" -> Ad5626Rows
      [] name = "rgb_led_spi" -> RgbLedSpiRows
      [] name = "midi" -> MidiRows
      [] name = "amulet_ascii" -> AmuletAsciiRows
      [] name = "lin" -> LinRows
      [] name = "sbus_futaba" -> SbusFutabaRows
      [] name = "pan1321" -> Pan1321Rows
      [] name = "ufcs" -> UfcsRows
      [] name = "arm_tpiu" -> ArmTpiuRows
      [] name = "arm_itm" -> ArmItmRows
      [] name = "arm_etmv3" -> ArmEtmv3Rows
      [] name = "modbus" -> ModbusRows
      [] name = "z80" -> Z80Rows
      [] name = "usb_packet" -> UsbPacketRows
      [] name = "usb_request" -> UsbRequestRows
      [] name = "jtag" -> JtagRows
      [] name = "cjtag" -> CjtagRows
      [] name = "cjtag-oscan0" -> CjtagOscan0Rows
      [] name = "jtag_ejtag" -> JtagEjtagRows
      [] name = "jtag_stm32" -> JtagStm32Rows
      [] name = "onewire_network" -> OnewireNetworkRows
      [] name = "ds243x" -> Ds243xRows
      [] name = "ds2408" -> Ds2408Rows
      [] name = "ds28ea00" -> Ds28ea00Rows
      [] name = "pjon" -> PjonRows
      [] name = "sipi" -> SipiRows
      [] name = "eeprom93xx" -> Eeprom93xxRows
      [] name = "ook_oregon" -> OokOregonRows
      [] name = "cfp" -> CfpRows
      [] name = "ook_vis" -> OokVisRows
=============================================================================
