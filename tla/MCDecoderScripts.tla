--------------------------- MODULE MCDecoderScripts ---------------------------
EXTENDS DecoderScripts

MCMaxCalls ==
    "rtc8564" :> 10 @@ "ds1307" :> 8 @@ "mxc6225xu" :> 8 @@ "tca6408a" :> 8 @@ "pca9571" :> 8 @@
    "nunchuk" :> 15 @@ "lm75" :> 9 @@ "mlx90614" :> 9 @@ "hdcp" :> 11 @@ "ltc26x7" :> 9 @@
    "i2cfilter" :> 8 @@ "i2cdemux" :> 8 @@
    "eeprom24xx" :> 12 @@ "xfp" :> 40 @@ "atsha204a" :> 8 @@ "edid" :> 10 @@
    "cc1101" :> 7 @@ "st25r39xx_spi" :> 7 @@ "nrf24l01" :> 7 @@ "a7105" :> 7 @@
    "spiflash" :> 8 @@ "sdcard_spi" :> 6 @@ "mrf24j40" :> 10 @@ "ade77xx" :> 9 @@ "adns5020" :> 8 @@
    "max7219" :> 8 @@ "adxl345" :> 9 @@ "enc28j60" :> 4 @@ "nrf905" :> 2 @@ "avr_isp" :> 4 @@
    "adf435x" :> 2 @@ "ad79x0" :> 3 @@ "ltc242x" :> 3 @@ "x2444m" :> 3 @@ "nes_gamepad" :> 5 @@
    "ssi32" :> 2 @@ "rfm12" :> 5 @@ "midi" :> 6 @@ "modbus" :> 14 @@
    "amulet_ascii" :> 8 @@ "lin" :> 8 @@ "sbus_futaba" :> 27 @@ "pan1321" :> 8 @@ "ufcs" :> 22 @@
    "arm_tpiu" :> 22 @@ "arm_itm" :> 10 @@ "arm_etmv3" :> 12 @@ "z80" :> 8 @@
    "usb_packet" :> 2 @@ "usb_request" :> 9 @@ "jtag" :> 4 @@ "cjtag" :> 4 @@ "cjtag-oscan0" :> 4 @@
    "jtag_ejtag" :> 12 @@ "jtag_stm32" :> 6 @@
    "onewire_network" :> 9 @@ "ds243x" :> 8 @@ "ds2408" :> 7 @@ "ds28ea00" :> 5 @@ "pjon" :> 16 @@ "sipi" :> 1 @@
    "eeprom93xx" :> 2 @@ "ook_oregon" :> 1 @@ "ook_vis" :> 3 @@ "cfp" :> 3 @@ "ad5626" :> 6 @@ "rgb_led_spi" :> 7
MCSlaves ==
    "rtc8564" :> {\h51} @@ "ds1307" :> {\h51, \h68} @@ "mxc6225xu" :> {\h15} @@
    "tca6408a" :> {\h15, \h20} @@ "pca9571" :> {\h15, \h25} @@ "nunchuk" :> {\h52} @@
    "lm75" :> {\h15, \h48} @@ "mlx90614" :> {\h5a} @@ "hdcp" :> {\h3a, \h3b} @@
    "ltc26x7" :> {0, \h10, \h73} @@ "i2cfilter" :> {\h25, \h26} @@ "i2cdemux" :> {\h25, \h26} @@ "eeprom24xx" :> {\h50} @@ "atsha204a" :> {\h64} @@ "edid" :> {\h50}
MCFilterOptions == [address |-> \h25, direction |-> "read"]
Zeros(n) == [i \in 1..n |-> 0]
MCCycles(set) == {<<c, c>> : c \in set}
\* A scan of n bits from IDLE to IDLE, or with a pause in the middle.
MCScan(register, n) == (IF register = "IR" THEN <<1, 1, 0, 0>> ELSE <<1, 0, 0>>) \o Zeros(n - 1) \o <<1, 1, 0>>
MCPaused(register, n) == (IF register = "IR" THEN <<1, 1, 0, 0>> ELSE <<1, 0, 0>>) \o Zeros(n - 1) \o <<1, 0, 1, 1, 0>>
MCLevels(edges) == [i \in DOMAIN edges |-> [v |-> edges[i], escapes |-> 0]]
MCActivate(v, n) == <<[v |-> 1, escapes |-> 6]>> \o [i \in 1..n |-> [v |-> IF i = 7 THEN v ELSE 1, escapes |-> 0]]
MCOscan(edges) == [i \in 1..(3 * Len(edges)) |-> [v |-> IF i % 3 = 2 THEN edges[(i + 2) \div 3] ELSE 0, escapes |-> 0]]
MCTokens(names, ep) == {[cat |-> "TOKEN", name |-> name, ep |-> ep] : name \in names}
MCHandshakes(names) == {[cat |-> "HANDSHAKE", name |-> name] : name \in names}
MCData(n) == {[cat |-> "DATA", n |-> n, setup |-> setup] : setup \in {"SETUP IN", "SETUP OUT"}}
MCUsbRequests ==
    <<(MCTokens({"IN", "OUT", "SETUP"}, 0) \cup MCTokens({"OUT"}, 1) \cup {[cat |-> "SPECIAL"], [cat |-> "ignored"]}) \X {0},
      (MCData(8) \cup {[cat |-> "DATA", n |-> 0, setup |-> "SETUP OUT"]} \cup MCHandshakes({"ACK"})) \X {0},
      (MCHandshakes({"ACK", "NAK", "STALL"}) \cup MCTokens({"IN", "OUT"}, 0)) \X {0, 1},
      (MCTokens({"IN", "OUT", "SETUP"}, 0) \cup MCTokens({"IN", "OUT"}, 1)) \X {0},
      (MCData(8) \cup MCHandshakes({"ACK"})) \X {0},
      MCHandshakes({"ACK", "NAK"}) \X {0}, MCTokens({"IN", "OUT"}, 0) \X {0}, MCData(0) \X {0}, MCHandshakes({"ACK"}) \X {0}>>
\* The scan of a long register, in three parts.
MCLong(last) == <<{<<1, 0, 0>> \o Zeros(10)}, {Zeros(10)}, {Zeros(n) \o end : n \in last, end \in {<<1, 1, 0>>, <<1, 0, 1, 1, 0>>}}>>
MCEjtag(edges, codes, accesses) == {[edges |-> e, code |-> code, access |-> access] : e \in edges, code \in codes, access \in accesses}
MCEjtagWord(last, accesses) ==
    [i \in 1..3 |-> MCEjtag(MCLong(last)[i], {0}, IF i = 3 THEN accesses ELSE {"none"})]
MCEjtagScans ==
    LET instruction(codes) == <<MCEjtag({MCScan("IR", 5)}, codes, {"none"})>>
    IN instruction({0, 1, 3, 8, 9, 10, 14}) \o MCEjtagWord({10, 12}, {"none", "store"}) \o instruction({9, 10})
       \o MCEjtagWord({10, 11}, {"load"}) \o instruction({10}) \o MCEjtagWord({10}, {"none", "store", "load"})
MCStmScans ==
    LET scans(edges, instructions) == {[edges |-> e, instruction |-> i] : e \in edges, i \in instructions}
        all == {"BYPASS", "IDCODE", "DPACC", "APACC", "ABORT", "UNKNOWN"}
        long == MCLong({11, 14})
    IN <<scans({MCScan("IR", 5), MCScan("IR", 9), MCPaused("IR", 9)}, all),
         scans({MCScan("DR", 1), MCScan("DR", 5)} \cup long[1], {"UNKNOWN"}),
         scans(long[2], {"UNKNOWN"}), scans(long[3], {"UNKNOWN"}), scans({MCScan("IR", 9)}, {"IDCODE"}),
         scans({MCScan("DR", 5)} \cup long[1], {"UNKNOWN"})>>
MCCompact ==
    LET four == {MCLevels(<<1>>), MCLevels(MCScan("IR", 5)), MCLevels(MCPaused("DR", 3))}
        scans == {MCOscan(<<0>> \o MCScan("DR", 3)), MCOscan(MCScan("IR", 4))}
        more == {MCLevels([i \in 1..12 |-> 1])}
    IN <<four \cup {MCActivate(0, 12), MCActivate(1, 12)}, scans \cup more \cup four \cup {<<[v |-> 0, escapes |-> 8]>>},
         scans \cup more \cup {MCLevels(MCPaused("DR", 3))}, scans \cup {MCLevels(<<0>>), MCActivate(1, 12)}>>
MCBits(ns, vs) == {[code |-> "BIT", n |-> n, v |-> v] : n \in ns, v \in vs}
MCData1(ns, vs) == {[code |-> "DATA", n |-> n, v |-> v] : n \in ns, v \in vs}
MCOther(codes) == {[code |-> code, n |-> 1] : code \in codes}
MCFunctions(commands) ==
    LET ends == MCOther({"RESET/PRESENCE", "ROM"})
    IN <<MCData1({1}, commands) \cup ends, MCData1({1, 2}, {1}) \cup ends, MCData1({1, 8}, {1}), MCData1({2, 20}, {1}), MCData1({1, 25, 33}, {1}) \cup ends,
         MCData1({1}, {0, \haa, \hff, 1}), MCData1({1}, {\haa, 2}) \cup ends, MCData1({1}, commands)>>
MCPjonBytes(ns, vs, goods) == {[type |-> "DATA_BYTE", n |-> n, v |-> v, good |-> good] : n \in ns, v \in vs, good \in goods}
MCPjonOther(types) == {[type |-> type, n |-> 1] : type \in types}
MCPjon ==
    LET flags == {0, 2, 7, 15, 64, 2 + 32, 255}
        some == MCPjonBytes({1, 4}, {1}, {TRUE})
        any == some \cup MCPjonOther({"SYNC_RESP_WAIT", "IDLE"})
    IN <<MCPjonOther({"IDLE", "FRAME_INIT", "SYNC_RESP_WAIT"}) \cup MCPjonBytes({1}, {1}, {TRUE}), MCPjonOther({"FRAME_INIT"}),
         MCPjonBytes({1}, {0, 5}, {TRUE}), MCPjonBytes({1}, flags, {TRUE}), MCPjonBytes({2, 1}, {6, 8, 27}, {TRUE}),
         MCPjonBytes({1, 4}, {1}, BOOLEAN), any, some, any, some, some, some, some,
         MCPjonBytes({1, 4}, {1}, BOOLEAN) \cup MCPjonOther({"SYNC_RESP_WAIT"}), some, MCPjonOther({"FRAME_DATA", "FRAME_INIT"})>>
MCOregon ==
    {[ver |-> ver, pre |-> pre, n |-> n] : ver \in {"v2.1", "v1", "v3", "none"}, pre \in {10, 16, 24}, n \in {0, 1, 20, 32, 64, 72, 160}}
MCRuns ==
    "onewire_network" :> <<MCBits({8, 3}, {\h33, \hcc, \hf0, 1}) \cup MCOther({"RESET/PRESENCE"}), MCBits({8, 64, 100}, {\h33, \hcc, \hf0, 1}),
                           MCBits({92, 64, 8, 5}, {1, \hcc}) \cup MCOther({"RESET/PRESENCE"}), MCBits({8}, {\hcc}) \cup MCOther({"RESET/PRESENCE"})>> @@
    "ds243x" :> MCFunctions({\h0f, \haa, \h5a, \h33, \h55, \ha5, \hf0, 1}) @@
    "ds2408" :> MCFunctions({\hf0, \hf5, \h5a, \hcc, \hc3, 1}) @@
    "ds28ea00" :> (MCData1({1}, {\h44, 1}) \cup MCOther({"RESET/PRESENCE", "ROM"})) @@
    "pjon" :> MCPjon @@ "sipi" :> {1, 2, 3, 4, 5, 8, 10, 12, 20, 36, 40} @@ "eeprom93xx" :> {5, 10, 11, 15, 26, 30, 42} @@
    "ook_oregon" :> MCOregon @@ "ook_vis" :> {1, 3, 4, 9, 16, 20} @@
    "usb_packet" :> {2, 8, 12, 16, 17, 20, 24, 31, 32, 33, 40} @@
    "usb_request" :> MCUsbRequests @@
    "jtag" :> {<<0>>, <<1>>, MCScan("IR", 5), MCScan("DR", 1), MCScan("DR", 4), MCPaused("DR", 3), MCPaused("DR", 1)} @@
    "cjtag" :> MCCompact @@
    "cjtag-oscan0" :> MCCompact @@
    "jtag_ejtag" :> MCEjtagScans @@
    "jtag_stm32" :> MCStmScans @@
    "z80" :> <<MCCycles({"FETCH"}), MCCycles({"FETCH", "MEMRD", "MEMWR", "IORD"}) \cup {<<"FETCH", "MEMRD">>},
               MCCycles({"FETCH", "MEMRD", "MEMWR"}), MCCycles({"FETCH", "MEMRD", "MEMWR"})>> @@
    "sdcard_spi" :> {1, 2, 6, 20} @@
    "enc28j60" :> {<<>>, <<0>>, <<2, 0>>, <<\h1f, 0>>, <<2, 0, 0>>, <<\h3a, 1, 2>>, <<\h3b>>, <<\h7a, 1>>,
                   <<\h40, 0>>, <<\h5f, 2>>, <<\h9f, 1>>, <<\hbf, 2>>, <<\h9f>>, <<\hc0>>, <<\hff>>, <<\hff, 0>>} @@
    "nrf905" :> {0, 1, 2, 4} @@
    "avr_isp" :> {<<\hac, \h53, 0, 0>>, <<\hac, 128, 0, 0>>, <<\h30, 0, 0, 0>>, <<\h30, 0, 1, 0>>,
                  <<\h30, 0, 2, 0>>, <<\h58, 0, 0, 0>>, <<0, 0, 0, 0>>} @@
    "adf435x" :> {0, 2, 4} @@ "ad79x0" :> 0..3 @@ "ltc242x" :> {0, 2, 3, 4} @@ "x2444m" :> {0, 1, 3} @@
    "ssi32" :> {1, 4, 64} @@ "modbus" :> <<{0}, {0}, {0, 3}, {0}, {0, 2}, {0}, {0, 3}, {0}>> @@
    "arm_tpiu" :> <<{0}, {0}, {0}, {0}, {0, 2}, {0}>> @@ "arm_itm" :> <<{0}, {0}, {0, 17}, {0}, {0, 17}, {0}, {0}, {0}, {0, 17}, {0, 17}>> @@
    "sbus_futaba" :> [i \in 1..27 |-> [gap : IF i = 2 THEN {0, 1} ELSE {0}, valid : IF i \in {1, 5, 7, 26} THEN BOOLEAN ELSE {TRUE}]] @@ "arm_etmv3" :> <<{0}, {0}, {0, 17}, {0}>> @@
    "atsha204a" :> {<<0>>, <<4>>, <<3>>, <<3, 9, 2>>, <<3, 7, 2, 0, 0, 0, 9, 9>>, <<3, 6, 2, 0, 0, 0, 9>>,
                    <<3, 3, 2, 0>>, <<3, 2, 99>>, <<3, 7, 2, 3, 0, 0, 9, 9>>, <<4, 0, 9, 9>>, <<4, 7, 9, 9>>,
                    <<3, 9, 2, 0, 0, 0, 1, 1, 9, 9>>, <<3, 8, 21, 0, 0, 0, 1, 9, 9>>,
                    <<3, 84>> \o <<40, 0, 0, 0>> \o Zeros(77) \o <<9, 9>>,
                    <<3, 43>> \o <<18, 0, 0, 0>> \o Zeros(36) \o <<9, 9>>} @@
    "edid" :> {<<0>>, <<1>>, <<128>>} \cup {Zeros(n) : n \in {2, 3, 5, 7, 8, 10, 15, 16, 18, 72, 100}}
MCEepChip == [addr_bytes |-> 1, addr_pins |-> 3, page_size |-> 8]
MCEdidDescriptors == <<"timing", "text", "limits", "other">>
MCEdidExtensionBlock == [dtd |-> 9, dtds |-> 1, blocks |-> <<<<2, 1>>, <<1, 3>>, <<2, 31>>>>]
MCBytes ==
    "cfp" :> {\h7fff, \h8000, \h80ff, \h8300, \ha0ff} @@ "ad5626" :> <<{1}>> @@ "rgb_led_spi" :> <<{1}>> @@
    "sipi" :> {0, 4, 8, 23, 31} @@
    "z80" :> <<{\hdd, \hcb, \hed, \h3a, \he3, \h22, \hc9, \h10, \h36, \h34}, {\hcb, \hb0, \h36, 0}, {5, \hdd}, {6}>> @@
    "rtc8564" :> {2, 15} @@ "ds1307" :> {7, 2} @@ "mxc6225xu" :> {3} @@ "tca6408a" :> {3, 4} @@
    "pca9571" :> {0, 255} @@ "nunchuk" :> {0, \h40} @@ "lm75" :> {1} @@ "mlx90614" :> {1} @@
    "hdcp" :> {2, \h60, \h70, 19, 20} @@ "ltc26x7" :> {\h02, \h0f, \h31} @@ "i2cfilter" :> {1} @@ "i2cdemux" :> {1} @@
    "eeprom24xx" :> {7} @@
    "cc1101" :> <<{0, \h35, \h70, \hc2, \hf5}>> @@ "st25r39xx_spi" :> <<{1, \h9f, \hfb, \hfc, \hc1, \hff}>> @@
    "nrf24l01" :> <<{0, \h2a, \h50, \h7f, \hff}>> @@ "a7105" :> <<{1, \h35, \h05, \h80}>> @@
    "spiflash" :> <<{\h06, \h9f, \h05, \h01, \h02, \h0b, \hbb, \h20, \hd7}>> @@ "sdcard_spi" :> {0, 1, 9, 17, 41, 55} @@
    "mrf24j40" :> <<{\h1a, \h1b, \h36, \h48, 128, \he0}, {\h20, \h50, \hc1}, {3}>> @@
    "ade77xx" :> <<{0, \h10, \h12, \h11, \h91}, {1}>> @@ "adns5020" :> <<{1, 129}>> @@
    "max7219" :> <<{1, \h0d}>> @@ "adxl345" :> <<{\h2c, \h38, \h32, \hb5, 1, \h39}>> @@
    "nrf905" :> {0, 8, 10, \h20, \h21, \h24, \h30, \h80} @@
    "avr_isp" :> {<<0, \h30, 0, \h1e>>, <<0, \h30, 1, \h92>>, <<1, \h30, 0, 5>>, <<0, \hac, \h53, 0>>} @@
    "x2444m" :> {3, 128, 134} @@ "nes_gamepad" :> <<{0, 1, 255}>> @@ "ssi32" :> {0, 60, 61} @@
    "rfm12" :> <<{\h80, \h82, \ha0, \h90, \hc2, \hca, \hce, \hb0, \hc4, \h98, \hcc, \hc6, \hb8, \hfe, \he0, \hc8, \hc0, 0, 1},
                 {0, 8, \h9c, \hff}>> @@
    "midi" :> {0, 122, \h90, \hc9, \hf0, \hf2, \hf6, \hf7, \hf8} @@
    "modbus" :> <<{1}, {1, 3, 5, 7, 11, 12, 15, 17, 20, 22, 23, 99, 130}, {2, 3}, {2}, {2}, {2}, {2, 8}, {2}, {2}, {2}, {2, 4}, {2}>> @@
    "amulet_ascii" :> {0, 2, 48, \h7a, \ha0, \hd0, \hd4, \hd5, \hd6, \hd7, \hdf, \he6, \hec, \hf1, \hf5} @@
    "lin" :> <<{0, 1}>> @@ "pan1321" :> {13, 10, 65} @@
    "sbus_futaba" :> <<{0, 15}>> \o [i \in 1..22 |-> {0}] \o <<{0, 16}, {0, 1}, {15}>> @@
    "ufcs" :> <<{\haa}, {\h20, \h40, \h60, \h80}, {0, 1, 3}, {0, 1, 2, 5, 6, 7, 8, 9, 10, 11, 12}, {0, 1, 3, 7, 8, 16},
                {2, \haa}, {2}>> @@
    "arm_tpiu" :> <<{3, 5, 255}, {255, 2}, {4, 5, 255}, {127, 1}, {6}, {2}, {5}, {2}, {6}, {2}, {3}, {2}, {2}, {2}, {5}, {0, 5, 193}, {2}>> @@
    "arm_itm" :> <<{0, 128, \h70, \h10, \h90, \h08, \h09, \h0a, \h05, \h06, \h0d, \h0e, \h4e, \h16, \h17}, {0, \h41, \h85},
                  {0, \h19, 9, \h20, \h10}, {0, \h41, \h0e}, {0, 9}, {\h20, \h41, 128}, {9, 0}, {0, \h41}, {0}>> @@
    "arm_etmv3" :> <<{0, 1, 129, \h08, \h70, \h76, \h04, \h80, \h84, \hcc, \h82, \h83, \hb2},
                     {0, \hc1, \h41, \h81}, {0, 128}, {0, 1, 128}, {0, 9, 64, 128}, {128, 32}, {1}>>
=============================================================================
