------------------------------ MODULE Z80Script ------------------------------
(***************************************************************************)
(* z80: the disassembler.  A step is one bus cycle, with the byte that is  *)
(* on the data bus, or a cycle that turns into another one without a pause.*)
(* Every byte is looked at when the next cycle ends, so the script is      *)
(* always one cycle behind the bus.                                        *)
(***************************************************************************)
EXTENDS DecoderScript

Fetch == "FETCH"
Z80Prefixes == {\hcb, \hed, \hdd, \hfd}

\* An instruction: how many bytes of displacement, immediate operand, input and
\* output operand it has, and whether it repeats.
Needs(d, i, ro, wo, rep) == [dis |-> d, imm |-> i, read |-> ro, write |-> wo, repeat |-> rep]
Takes(i, ro, wo) == Needs(0, i, ro, wo, FALSE)
Plain == Takes(0, 0, 0)
Invalid == Takes(-1, 0, 0)

\* The opcodes that work on the byte at HL, in a range.
AtHL(from, to) == {op \in from..to : op % 8 = 6}
Every8(from, to) == {op \in from..to : op % 8 = from % 8}

\* main_instructions, below 0x80 and above
Z80MainLow(op) ==
    CASE op \in {\h01, \h11, \h21, \h31} -> Takes(2, 0, 0)
      [] op \in {\h0a, \h1a} \cup (AtHL(\h40, \h7f) \ {\h76}) -> Takes(0, 1, 0)
      [] op \in AtHL(0, \h3f) \ {\h36} -> Takes(1, 0, 0)
      [] op \in {\h02, \h12, \h77} \cup \h70..\h75 -> Takes(0, 0, 1)
      [] op \in {\h10, \h18, \h20, \h28, \h30, \h38} -> Needs(1, 0, 0, 0, FALSE)
      [] op \in {\h34, \h35} -> Takes(0, 1, 1)
      [] op = \h36 -> Takes(1, 0, 1)
      [] op = \h22 -> Takes(2, 0, 2)
      [] op = \h2a -> Takes(2, 2, 0)
      [] op = \h32 -> Takes(2, 0, 1)
      [] op = \h3a -> Takes(2, 1, 0)
      [] OTHER -> Plain
Z80MainHigh(op) ==
    CASE op \in AtHL(\h80, \hbf) -> Takes(0, 1, 0)
      [] op \in AtHL(\hc0, \hff) -> Takes(1, 0, 0)
      [] op \in Every8(\hc2, \hff) \cup {\hc3} -> Takes(2, 0, 0)
      [] op \in Every8(\hc0, \hff) \cup {\hc1, \hd1, \he1, \hf1, \hc9} -> Takes(0, 2, 0)
      [] op \in {\hc5, \hd5, \he5, \hf5} \cup Every8(\hc7, \hff) -> Takes(0, 0, 2)
      [] op \in Every8(\hc4, \hff) \cup {\hcd} -> Takes(2, 0, 2)
      [] op = \hd3 -> Takes(1, 0, 1)
      [] op = \hdb -> Takes(1, 1, 0)
      [] op = \he3 -> Takes(0, 2, 2)
      [] OTHER -> Plain
Z80Extended(op) ==
    CASE op \in Every8(\h40, \h7f) \cup {\ha1, \ha9} -> Takes(0, 1, 0)
      [] op \in Every8(\h41, \h7f) -> Takes(0, 0, 1)
      [] op \in Every8(\h45, \h7f) -> Takes(0, 2, 0)
      [] op \in {\h67, \h6f, \ha0, \ha2, \ha3, \ha8, \haa, \hab} -> Takes(0, 1, 1)
      [] op \in {\hb0, \hb2, \hb3, \hb8, \hba, \hbb} -> Needs(0, 0, 1, 1, TRUE)
      [] op \in {\hb1, \hb9} -> Needs(0, 0, 1, 0, TRUE)
      [] op \in {\h43, \h53, \h63, \h73} -> Takes(2, 0, 2)
      [] op \in {\h4b, \h5b, \h6b, \h7b} -> Takes(2, 2, 0)
      [] op \in \h40..\h7f \ {\h4d, \h77, \h7f} -> IF op % 8 \in {2, 4, 6, 7} THEN Plain ELSE Invalid
      [] OTHER -> Invalid
\* bit_instructions: shifts, BIT, and RES and SET.
Z80Shift(op) == IF op % 8 = 6 THEN Takes(0, 1, 1) ELSE Plain
Z80Test(op) == IF op % 8 = 6 THEN Takes(0, 1, 0) ELSE Plain
Z80Set(op) == IF op % 8 = 6 THEN Takes(0, 1, 1) ELSE Plain
Z80Index(op) ==
    CASE op \in (AtHL(\h40, \hbf) \ {\h76}) -> Needs(1, 0, 1, 0, FALSE)
      [] op \in \h70..\h75 \cup {\h77} -> Needs(1, 0, 0, 1, FALSE)
      [] op \in {\h34, \h35} -> Needs(1, 0, 1, 1, FALSE)
      [] op = \h36 -> Needs(1, 1, 0, 1, FALSE)
      [] op \in {\h26, \h2e} -> Takes(1, 0, 0)
      [] op = \h21 -> Takes(2, 0, 0)
      [] op = \h22 -> Takes(2, 0, 2)
      [] op = \h2a -> Takes(2, 2, 0)
      [] op = \he1 -> Takes(0, 2, 0)
      [] op = \he3 -> Takes(0, 2, 2)
      [] op = \he5 -> Takes(0, 0, 2)
      [] \/ op \in {\h09, \h19, \h29, \h39, \h23, \h2b, \h24, \h25, \h2c, \h2d, \he9, \hf9}
         \/ op \in \h44..\h5f \cup \h7c..\hbf /\ op % 8 \in {4, 5}
         \/ op \in \h60..\h6f -> Plain
      [] OTHER -> Invalid
\* index_bit_instructions, all on memory; the table has 0 for the displacement,
\* which comes before the opcode.
Z80IndexShift == Takes(0, 1, 1)
Z80IndexTest == Takes(0, 1, 0)
Z80IndexSet == Takes(0, 1, 1)
\* A table of four times 64 operations: shift, BIT, RES and SET.
Z80Quarters(op, shift, test, set) ==
    CASE op < \h40 -> shift
      [] op \in \h40..\h7f -> test
      [] op > \h7f -> set

\* instr_table_by_prefix
Z80Table(prefix, op) ==
    CASE prefix = <<>> -> IF op < \h80 THEN Z80MainLow(op) ELSE Z80MainHigh(op)
      [] prefix = <<\hed>> -> Z80Extended(op)
      [] prefix = <<\hcb>> -> Z80Quarters(op, Z80Shift(op), Z80Test(op), Z80Set(op))
      [] Len(prefix) = 1 /\ prefix[1] \in {\hdd, \hfd} -> Z80Index(op)
      [] Len(prefix) = 2 -> Z80Quarters(op, Z80IndexShift, Z80IndexTest, Z80IndexSet)

Reads(c) == c \in {"MEMRD", "IORD"}
Writes(c) == c \in {"MEMWR", "IOWR"}

\* reset(), start(): of pend_data the byte and the cycle it was on the bus.  The
\* text of an instruction shows the bytes in shown.
Z800 == [state |-> "IDLE", pend |-> [at |-> Unknown, v |-> 0], data_start |-> 0, ann_data |-> FALSE, addr_start |-> Unknown,
         dasm_start |-> 0, prefix |-> <<>>, needs |-> Plain, shown |-> {}, in |-> {}, out |-> {}]

\* What a state leads to: the next one, and the row of a text if there is one.
Lead(f, state, row) == [f |-> [f EXCEPT !.state = state], row |-> row]
Ends(f) == Lead(f, "RESTART", "warnings")

\* state_OPCODE and the states after it: an instruction that has all its bytes is
\* put, and its operands are awaited if the cycle that has just ended transfers one.
Z80Complete(f, c) ==
    Lead(f, CASE f.needs.read > 0 /\ Reads(c) -> "ROP1"
              [] ~(f.needs.read > 0 /\ Reads(c)) /\ f.needs.write > 0 /\ Writes(c) -> "WOP1"
              [] OTHER -> "RESTART", "instructions")
Z80Bytes(f, c, dis) ==
    CASE dis /\ f.needs.dis > 0 -> Lead(f, "POSTDIS", "")
      [] ~(dis /\ f.needs.dis > 0) /\ f.needs.imm > 0 -> Lead(f, "IMM1", "")
      [] OTHER -> Z80Complete(f, c)
Z80Opcode(f, c) ==
    LET needs == Z80Table(f.prefix, f.pend.v)
    IN IF needs = Invalid THEN Ends([f EXCEPT !.prefix = <<>>, !.shown = {}])
       ELSE Z80Bytes([f EXCEPT !.prefix = <<>>, !.needs = needs, !.shown = @ \cup {f.pend.at}], c, TRUE)

\* state_ROP1, state_ROP2, state_WOP1, state_WOP2.  WOP1 goes on to ROP2 whenever
\* the instruction reads two bytes.
Z80Operand(f, c) ==
    LET n == f.needs
        in == [f EXCEPT !.in = IF f.state = "ROP1" THEN {f.pend.at} ELSE @ \cup {f.pend.at}]
        out == [f EXCEPT !.out = IF f.state = "WOP1" THEN {f.pend.at} ELSE @ \cup {f.pend.at}]
        Text(g, bytes, state) == Lead([g EXCEPT !.shown = bytes], state, "operands")
        after == CASE n.write > 0 -> "WOP1"
                   [] n.write = 0 /\ n.read > 1 -> "ROP2"
                   [] n.write = 0 /\ n.read <= 1 /\ n.repeat /\ Reads(c) -> "ROP1"
                   [] OTHER -> "RESTART"
    IN CASE f.state = "ROP1" -> IF n.read < 2 THEN Text(in, in.in, after) ELSE Lead(in, after, "")
         [] f.state = "ROP2" -> Text(in, in.in, IF n.write > 0 /\ Writes(c) THEN "WOP1" ELSE "RESTART")
         [] f.state = "WOP1" /\ n.read > 1 -> Lead(out, "ROP2", "")
         [] f.state = "WOP1" /\ n.read <= 1 /\ n.write > 1 -> Lead(out, "WOP2", "")
         [] f.state = "WOP1" /\ n.read <= 1 /\ n.write <= 1 ->
              Text(out, out.out, IF n.read > 0 /\ n.repeat /\ Reads(c) THEN "ROP1" ELSE "RESTART")
         [] f.state = "WOP2" -> Text(out, out.out, "RESTART")

\* op_state(), at the end of cycle c with byte v on the bus; a byte of the prefix
\* or of an operand is the one of the cycle before.
Z80State(f, c, v) ==
    LET byte == [f EXCEPT !.shown = @ \cup {f.pend.at}]
    IN CASE f.state = "PRE1" /\ c # Fetch -> Ends(f)
         [] f.state = "PRE1" /\ c = Fetch ->
              Lead([f EXCEPT !.prefix = <<f.pend.v>>],
                   CASE f.pend.v \in {\hdd, \hfd} /\ v = \hcb -> "PRE2"
                     [] f.pend.v \in {\hdd, \hfd} /\ v \in {\hdd, \hed, \hfd} -> "PRE1"
                     [] OTHER -> "OPCODE", "")
         [] f.state \in {"PRE2", "PREDIS"} /\ c # "MEMRD" -> Ends(f)
         [] f.state = "PRE2" /\ c = "MEMRD" ->
              Lead([f EXCEPT !.prefix = Append(@, f.pend.v)], "PREDIS", "")
         [] f.state = "PREDIS" /\ c = "MEMRD" -> Lead(byte, "OPCODE", "")
         [] f.state = "OPCODE" -> Z80Opcode(f, c)
         [] f.state = "POSTDIS" -> Z80Bytes(byte, c, FALSE)
         [] f.state = "IMM1" -> IF f.needs.imm > 1 THEN Lead(byte, "IMM2", "") ELSE Z80Complete(byte, c)
         [] f.state = "IMM2" -> Z80Complete(byte, c)
         [] f.state \in {"ROP1", "ROP2", "WOP1", "WOP2"} -> Z80Operand(f, c)
         [] f.state = "IDLE" -> Lead(f, "RESTART", "")

\* state_IDLE: an instruction begins with a fetch.
Z80Idle(f, c, v, now) ==
    IF c # Fetch THEN [f EXCEPT !.state = "IDLE"]
    ELSE [f EXCEPT !.state = IF v \in Z80Prefixes THEN "PRE1" ELSE "OPCODE", !.dasm_start = now,
                   !.prefix = <<>>, !.shown = {}, !.in = {}, !.out = {}, !.needs = Plain]

\* on_cycle_begin(), on_cycle_trans(), on_cycle_end()
Z80Address(now) == IF pd.addr_start = Unknown THEN <<>> ELSE <<P("addrbus", pd.addr_start, now, {Ss - Width})>>
Z80Glued(now) == <<P("warnings", now - 1, now, {})>>
Z80End(f, before, c, v, now) ==
    LET to == Z80State(f, c, v)
        text == IF to.row = "" THEN <<>> ELSE <<P(to.row, f.dasm_start, now, to.f.shown)>>
        put1 == IF text = <<>> THEN to.f ELSE [to.f EXCEPT !.dasm_start = now]
        next == IF put1.state = "RESTART" THEN Z80Idle(put1, c, v, now) ELSE put1
        byte == IF f.ann_data THEN <<P("databus", f.data_start, now, {f.pend.at})>> ELSE <<>>
    IN Return([next EXCEPT !.pend = [at |-> Ss, v |-> v], !.data_start = now, !.ann_data = TRUE], before \o text \o byte)

\* decode(): cycle c, which began as cycle `from'.  The address bus is connected.
Z80(from, c, v) ==
    LET begin == Ss + 2
        now == Ss + Width - 1
        f == [pd EXCEPT !.addr_start = IF from = c THEN begin ELSE Unknown,
                        !.ann_data = @ /\ from = c]
        before == Z80Address(begin) \o (IF from = c THEN <<>> ELSE Z80Glued(begin + 2))
    IN /\ Hand("z80", "idle")
       /\ Z80End(f, before, c, v, now)
=============================================================================
