------------------------------ MODULE JTAGScripts ------------------------------
(***************************************************************************)
(* JTAG and compact JTAG, and the scripts above JTAG for MIPS and STM32    *)
(* processors.  A step is a run of rising clock edges, Width samples apart.*)
(* What is said of TDI holds of TDO, which is sampled along with it.       *)
(***************************************************************************)
EXTENDS DecoderScript

\* A state of the test access port: what it does, and to which register.
JtagReset == <<"RESET", "">>
JtagIdle == <<"IDLE", "">>

\* advance_state_machine(tms)
JtagAdvance(s, tms) ==
    LET To(zero, one) == IF tms = 1 THEN one ELSE zero
        At(what) == <<what, s[2]>>
    IN CASE s[1] = "RESET" -> To(JtagIdle, JtagReset)
         [] s[1] = "IDLE" -> To(JtagIdle, <<"SELECT", "DR">>)
         [] s[1] = "SELECT" -> To(At("CAPTURE"), IF s[2] = "DR" THEN <<"SELECT", "IR">> ELSE JtagReset)
         [] s[1] \in {"CAPTURE", "SHIFT"} -> To(At("SHIFT"), At("EXIT1"))
         [] s[1] = "EXIT1" -> To(At("PAUSE"), At("UPDATE"))
         [] s[1] = "PAUSE" -> To(At("PAUSE"), At("EXIT2"))
         [] s[1] = "EXIT2" -> To(At("SHIFT"), At("UPDATE"))
         [] s[1] = "UPDATE" -> To(JtagIdle, <<"SELECT", "DR">>)

\* reset(): n bits have been collected, pos has the start and end of each, the newest
\* first; the end of the newest is not known yet.  Of bits_cnt it matters whether it
\* is 0, 1 or more.
JtagBlank == [first |-> TRUE, item |-> 0, bits_ss |-> 0, n |-> 0, pos |-> <<>>, cnt |-> 0, ready |-> FALSE]
Jtag0 == [state |-> JtagIdle] @@ JtagBlank

JtagItem(row, f, at, shown) == <<P(row, f.item, at, shown)>>
JtagBoth(f, at) == JtagItem("bits-tdi", f, at, {f.pos[1].ss}) \o JtagItem("bits-tdo", f, at, {f.pos[1].ss})
JtagClosed(f, at) == [f EXCEPT !.pos[1].es = at]
JtagInsert(f, at) == [f EXCEPT !.pos = <<[ss |-> at, es |-> Unknown]>> \o @]
JtagString(f, at) == P("bitstrings-tdi", f.bits_ss, at, {f.pos[i].ss : i \in 1..f.n})

\* handle_rising_tck_edge(), in or at the end of a shift: the first edge brings a place
\* for a bit and no bit.
JtagCollect(f, at) ==
    LET bit == [JtagInsert(f, at) EXCEPT !.n = @ + 1]
    IN CASE f.cnt = 0 -> [f |-> [JtagInsert(f, at) EXCEPT !.cnt = 1], anns |-> <<>>]
         [] f.cnt = 1 -> [f |-> [bit EXCEPT !.bits_ss = at, !.cnt = 2], anns |-> <<>>]
         [] f.cnt = 2 -> [f |-> [JtagInsert(JtagClosed(f, at), at) EXCEPT !.n = @ + 1], anns |-> JtagBoth(f, at)]

\* ... and at the edge after the one that ended it: the bits are put and handed over.
JtagFlush(f, at) ==
    LET g == JtagClosed(f, at)
        tdi == JtagString(f, at)
        bits == JtagBoth(f, at)
    IN [f |-> [g EXCEPT !.ready = FALSE, !.n = 0, !.pos = <<>>],
        anns |-> <<tdi, bits[1], [tdi EXCEPT !.row = "bitstrings-tdo"], bits[2]>>,
        out |-> [reg |-> f.state[2], ss |-> f.bits_ss, es |-> at, n |-> f.n, pos |-> g.pos]]

\* The edge that takes the port from state old to the one f has now.
JtagBits(f, old, at) ==
    LET shifts == f.state[1] = "SHIFT"
        exits == old[1] = "SHIFT" /\ f.state[1] = "EXIT1"
        got == JtagCollect(f, at)
    IN CASE shifts -> got
         [] exits -> [got EXCEPT !.f = [@ EXCEPT !.ready = TRUE, !.cnt = 0]]
         [] old[1] \in {"EXIT1", "EXIT2"} /\ f.ready -> JtagFlush(f, at)
         [] OTHER -> [f |-> f, anns |-> <<>>]

\* One edge, and the edges of a run; packets are what is handed to the script above.
JtagEdge(g, tms) ==
    LET to == JtagAdvance(g.f.state, tms)
        bits == JtagBits([g.f EXCEPT !.state = to], g.f.state, g.at)
        state == IF g.f.first THEN <<>> ELSE JtagItem("states", g.f, g.at, {})
        new == IF g.f.first THEN <<>> ELSE <<[cmd |-> "NEW STATE", what |-> to]>>
        data == IF "out" \in DOMAIN bits THEN <<[cmd |-> "TDI"] @@ bits.out, [cmd |-> "TDO"] @@ bits.out>> ELSE <<>>
    IN [f |-> [bits.f EXCEPT !.first = FALSE, !.item = g.at], at |-> g.at + Width,
        anns |-> g.anns \o state \o bits.anns, packets |-> g.packets \o new \o data]
JtagRun(f, edges) ==
    FoldLeft(LAMBDA g, tms : JtagEdge(g, tms), [f |-> f, at |-> Ss, anns |-> <<>>, packets |-> <<>>], edges)

Jtag(edges) ==
    LET run == JtagRun(pd, edges)
    IN /\ HandRun("jtag", Len(edges), IF run.f.state = JtagIdle THEN "idle" ELSE "scan")
       /\ Return(run.f, run.anns)

(* cjtag, cjtag-oscan0: an edge has a level of the one data line, and the  *)
(* number of edges of that line since the clock rose before it; six or     *)
(* eight of them change the protocol.  In OSCAN1 three clocks carry the    *)
(* TDI, TMS and TDO of one.                                                *)

CjStart == [cj |-> "FOUR_WIRE", oacp |-> 0, oaclen |-> 0, cycle |-> 0, tms |-> 0] @@ JtagBlank
Cjtag0 == [state |-> JtagIdle] @@ CjStart
Oscan0 == [state |-> JtagReset] @@ CjStart

\* handle_tapc_state()
CjEscape(f, escapes) ==
    CASE escapes >= 8 -> [f EXCEPT !.cj = "FOUR_WIRE"]
      [] escapes = 6 -> [f EXCEPT !.cj = "CJTAG", !.oacp = 0, !.oaclen = 12]
      [] OTHER -> f

\* advance_state_machine(tms): the activation, of 12 clocks or of 36, and the port.
CjActivate(f, tms) ==
    LET n == f.oacp + 1
        len == IF n = 8 /\ tms = 0 THEN 36 ELSE f.oaclen
        counted == [f EXCEPT !.oacp = n, !.oaclen = len]
    IN IF n > len THEN [counted EXCEPT !.cj = "OSCAN1", !.cycle = 1, !.state = JtagReset] ELSE counted
CjAdvance(f, tms) == IF f.cj = "CJTAG" THEN CjActivate(f, tms) ELSE [f EXCEPT !.state = JtagAdvance(@, tms)]

\* cjtag, handle_rising_tckc_edge(): a bit is collected at every edge that leaves SHIFT
\* or EXIT1, the last one is left out, and all are put when the port comes to UPDATE.
CjBits(f, old, at) ==
    LET got == IF old[1] \notin {"SHIFT", "EXIT1"} THEN [f |-> f, anns |-> <<>>]
               ELSE IF f.cnt = 0 THEN [f |-> [JtagInsert(f, at) EXCEPT !.bits_ss = at, !.cnt = 1], anns |-> <<>>]
               ELSE [f |-> JtagInsert(JtagClosed(f, at), at), anns |-> JtagBoth(f, at)]
        whole == P("bitstrings-tdi", got.f.bits_ss, at, {got.f.pos[i].ss : i \in 2..Len(got.f.pos)})
    IN IF f.state[1] # "UPDATE" THEN got
       ELSE [f |-> [got.f EXCEPT !.pos = <<>>, !.cnt = 0, !.bits_ss = at],
             anns |-> got.anns \o <<whole, [whole EXCEPT !.row = "bitstrings-tdo"]>>]

\* The rows of the state the port and the protocol have been in until this edge.
CjStates(f, old, rows, at) ==
    IF f.first THEN <<>>
    ELSE JtagItem(rows.states, f, at, {}) \o JtagItem(rows.protocol, f, at, {})
         \o (IF old = "CJTAG" THEN JtagItem(rows.tms, f, at, {f.item}) ELSE <<>>)

\* One edge; Collect is how the script collects the bits of a scan.
CjPort(f, old, tms, at, Collect(_, _, _), rows) ==
    LET moved == CjAdvance(f, tms)
        bits == Collect(moved, f.state, at)
    IN [f |-> [bits.f EXCEPT !.first = FALSE, !.item = at], anns |-> CjStates(f, old, rows, at) \o bits.anns]
CjEdge(g, edge, Collect(_, _, _), rows) ==
    LET f == CjEscape(g.f, edge.escapes)
        scan == f.cj = "OSCAN1"
        port == CjPort(f, g.f.cj, IF scan THEN f.tms ELSE edge.v, g.at, Collect, rows)
        to == CASE scan /\ f.cycle = 0 -> [f |-> [f EXCEPT !.cycle = 1], anns |-> <<>>]
                [] scan /\ f.cycle = 1 -> [f |-> [f EXCEPT !.cycle = 2, !.tms = edge.v], anns |-> <<>>]
                [] scan /\ f.cycle = 2 -> [port EXCEPT !.f = [@ EXCEPT !.cycle = 0]]
                [] ~scan -> port
    IN [f |-> to.f, at |-> g.at + Width, anns |-> g.anns \o to.anns]

\* Either script; a step is the edge that may come after some others, and a run.
CjRun(name, edges, Collect(_, _, _), rows) ==
    LET run == FoldLeft(LAMBDA g, edge : CjEdge(g, edge, Collect, rows), [f |-> pd, at |-> Ss, anns |-> <<>>], edges)
    IN /\ HandRun(name, Len(edges), "idle")
       /\ Return(run.f, run.anns)
Cjtag(edges) ==
    CjRun("cjtag", edges, CjBits, [states |-> "jtag-states", protocol |-> "cjtag-states", tms |-> "bits-tms"])

\* cjtag-oscan0 collects as jtag does.
OscanBits(f, old, at) == JtagBits(f, old, at)
CjtagOscan0(edges) ==
    CjRun("cjtag-oscan0", edges, OscanBits, [states |-> "states", protocol |-> "state-tapc", tms |-> "bit-tms"])

(* jtag_ejtag: what is scanned is shown, under the name of the register    *)
(* that is selected, when the port comes to UPDATE-DR.                     *)

\* last_data and pracc_state: of the words the address and the data have been set to,
\* the start of the scan that set them.
Ejtag0 == [tap |-> Jtag0, reg |-> "RESET", in |-> <<>>, out |-> <<>>, at |-> <<0, 0>>,
           address |-> {}, data_in |-> {}, data_out |-> {}]

\* ejtag_state_map
EjtagSelect(code) ==
    CASE code = 1 -> "DEVICE_ID"
      [] code = 3 -> "IMPLEMENTATION"
      [] code = 8 -> "ADDRESS"
      [] code = 9 -> "DATA"
      [] code = 10 -> "CONTROL"
      [] code = 14 -> "FASTDATA"
      [] OTHER -> "RESET"

\* ejtag_control_reg: the highest and lowest bit of the fields, and those that mean
\* something when they are written.
EjtagFields == <<<<31, 31>>, <<30, 29>>, <<23, 23>>, <<22, 22>>, <<21, 21>>, <<20, 20>>, <<19, 19>>, <<18, 18>>,
                 <<16, 16>>, <<15, 15>>, <<14, 14>>, <<13, 13>>, <<12, 12>>, <<3, 3>>>>
EjtagWritten == SelectSeq(EjtagFields, LAMBDA field : field[1] \in {31, 20, 18, 16, 14, 13, 12})

\* parse_control_reg(): the positions are those of 32 bits, the highest first.
EjtagControl(row, scan, fields) ==
    [i \in DOMAIN fields |->
        LET from == scan.pos[32 - fields[i][2]].ss
        IN P(row, from, scan.pos[32 - fields[i][1]].es, {from})]

\* parse_pracc(): the access the processor has waited for, if the scan ends it.
EjtagPracc(f, access) ==
    IF access = "none" THEN [f |-> f, anns |-> <<>>]
    ELSE [f |-> [f EXCEPT !.at = <<0, 0>>, !.address = {}, !.data_in = {}, !.data_out = {}],
          anns |-> <<P("pracc", f.at[1], f.at[2],
                       f.address \cup (IF access = "store" THEN f.data_out ELSE f.data_in))>>]

\* handle_new_state('UPDATE-DR')
EjtagUpdate(f, access) ==
    LET name == P("regs", f.in.ss, f.in.es, {})
        pracc == EjtagPracc(f, access)
    IN CASE f.in = <<>> \/ f.reg = "RESET" -> [f |-> f, anns |-> <<>>]
         [] f.in # <<>> /\ f.reg \notin {"RESET", "CONTROL"} -> [f |-> f, anns |-> <<name>>]
         [] f.in # <<>> /\ f.reg = "CONTROL" /\ Len(f.in.pos) # 32 -> [f |-> f, anns |-> <<name, name>>]
         [] OTHER -> [f |-> pracc.f,
                      anns |-> <<name>> \o EjtagControl("control_fields_in", f.in, EjtagWritten)
                               \o EjtagControl("control_fields_out", f.out, EjtagFields) \o pracc.anns]

\* handle_dr_tdi(), handle_dr_tdo(), handle_fastdata(): the bit before the data word
\* has a place of its own.
EjtagScan(f, q) ==
    LET input == q.cmd = "TDI"
        got == IF input THEN [f EXCEPT !.in = q, !.at = <<q.ss, q.es>>] ELSE [f EXCEPT !.out = q]
        row == IF input THEN "control_fields_in" ELSE "control_fields_out"
        set == CASE f.reg = "ADDRESS" /\ ~input -> [got EXCEPT !.address = {q.ss}]
                 [] f.reg = "DATA" /\ input -> [got EXCEPT !.data_in = {q.ss}]
                 [] f.reg = "DATA" /\ ~input -> [got EXCEPT !.data_out = {q.ss}]
                 [] OTHER -> got
    IN [f |-> set,
        anns |-> IF f.reg = "FASTDATA" /\ q.n > 32
                 THEN <<P(row, q.pos[33].ss, q.pos[33].es, {q.pos[33].ss}),
                        P(row, q.pos[32].ss, q.pos[1].es, {q.pos[i].ss : i \in 1..32})>>
                 ELSE <<>>]

\* decode(), for one packet: code is the instruction that is scanned, access what the
\* control words say of the processor.
EjtagPacket(g, q, code, access) ==
    LET f == g.f
        to == CASE q.cmd = "NEW STATE" ->
                     IF q.what = <<"UPDATE", "DR">> THEN EjtagUpdate(f, access) ELSE [f |-> f, anns |-> <<>>]
                [] q.cmd # "NEW STATE" /\ q.reg = "DR" -> EjtagScan(f, q)
                [] q.cmd = "TDI" /\ q.reg = "IR" ->
                     [f |-> [f EXCEPT !.reg = EjtagSelect(code)], anns |-> <<P("instructions", q.ss, q.es, {q.ss})>>]
                [] q.cmd = "TDO" /\ q.reg = "IR" -> [f |-> f, anns |-> <<>>]
        short == q.cmd # "NEW STATE" /\ q.reg = "DR" /\ f.reg = "FASTDATA" /\ q.n < 33
    IN IF g.fails THEN g ELSE [f |-> to.f, anns |-> g.anns \o to.anns, fails |-> short]
JtagEjtag(edges, code, access) ==
    LET run == JtagRun(pd.tap, edges)
        done == FoldLeft(LAMBDA g, q : EjtagPacket(g, q, code, access), [f |-> pd, anns |-> <<>>, fails |-> FALSE], run.packets)
    IN /\ HandRun("jtag_ejtag", Len(edges), IF run.f.state = JtagIdle THEN "idle" ELSE "scan")
       /\ IF done.fails THEN Fail(done.anns) ELSE Return([done.f EXCEPT !.tap = run.f], done.anns)

(* jtag_stm32: two ports in a row; the lowest five bits of an instruction  *)
(* and the lowest bit of a data word belong to the other one.              *)

Stm0 == [tap |-> Jtag0, state |-> "IDLE"]

\* putf(): bits s to e, the oldest place first; the first has no end.
StmBits(row, q, s, e) ==
    LET place(i) == q.pos[Len(q.pos) - i]
        end == place(e).es
    IN P(row, place(s).ss, IF end = Unknown THEN Forever ELSE end, {place(s).ss})
StmAll(row, q) == P(row, q.ss, q.es, {q.pos[i].ss : i \in 1..q.n})

\* handle_reg_idcode(): the word must be long enough to have a part number, the places
\* enough for its fields.
StmIdcodeFields ==
    <<<<"fields", 0, 0>>, <<"items", 8, 11>>, <<"items", 1, 7>>, <<"fields", 1, 11>>,
      <<"fields", 12, 27>>, <<"fields", 28, 31>>, <<"fields", 32, 32>>>>
StmIdcode(q) ==
    LET fits == IF q.n < 30 THEN <<>> ELSE SelectSeq(StmIdcodeFields, LAMBDA field : field[3] <= q.n)
        fields == [i \in DOMAIN fits |-> StmBits(fits[i][1], q, fits[i][2], fits[i][3])]
    IN [anns |-> IF q.n < 32 THEN fields ELSE Append(fields, StmAll("commands", q)), fails |-> q.n < 32]

\* handle_reg_bypass() to handle_reg_unknown(), for the packet they wait for: an access
\* needs a data word beside its three other bits.
StmHandle(state, q) ==
    LET Put(anns, least) == [anns |-> IF q.n < least THEN <<>> ELSE anns, fails |-> q.n < least]
        command == <<StmAll("commands", q)>>
    IN CASE state = "BYPASS" -> Put(<<StmAll("items", q)>>, 0)
         [] state = "IDCODE" -> StmIdcode(q)
         [] state \in {"DPACC", "APACC"} -> Put(command, 5)
         [] state = "ABORT" -> Put(IF q.n = 33 THEN command ELSE Append(command, StmAll("warnings", q)), 2)
         [] state = "UNKNOWN" -> Put(command, 0)
StmWaits(state) ==
    CASE state = "BYPASS" -> {"TDI"}
      [] state \in {"IDCODE", "ABORT", "UNKNOWN"} -> {"TDO"}
      [] state \in {"DPACC", "APACC"} -> {"TDI", "TDO"}
      [] state = "IDLE" -> {}

\* decode(), for one packet: instruction is what the nine bits of a scan say.
StmPacket(g, q, instruction) ==
    LET state == g.f.state
        handled == StmHandle(state, q)
        selects == q.cmd = "TDI" /\ q.reg = "IR"
        To(next, anns, fails) == [f |-> [g.f EXCEPT !.state = next], anns |-> g.anns \o anns, fails |-> fails]
        chosen == IF q.n < 9 THEN "UNKNOWN" ELSE instruction
        fields == IF q.n < 8 THEN <<>>
                  ELSE <<StmBits("fields", q, 4, 8), StmBits("fields", q, 0, 3), StmAll("commands", q)>>
    IN CASE g.fails \/ q.cmd = "NEW STATE" -> g
         [] ~g.fails /\ selects -> To(chosen, fields, q.n < 8)
         [] ~g.fails /\ q.cmd # "NEW STATE" /\ ~selects ->
              IF q.reg = "IR" \/ q.cmd \notin StmWaits(state) THEN g
              ELSE To(IF state \in {"DPACC", "APACC"} /\ q.cmd = "TDI" THEN state ELSE "IDLE",
                      handled.anns, handled.fails)
JtagStm32(edges, instruction) ==
    LET run == JtagRun(pd.tap, edges)
        done == FoldLeft(LAMBDA g, q : StmPacket(g, q, instruction), [f |-> pd, anns |-> <<>>, fails |-> FALSE], run.packets)
    IN /\ HandRun("jtag_stm32", Len(edges), IF run.f.state = JtagIdle THEN "idle" ELSE "scan")
       /\ IF done.fails THEN Fail(done.anns) ELSE Return([done.f EXCEPT !.tap = run.f], done.anns)
=============================================================================
