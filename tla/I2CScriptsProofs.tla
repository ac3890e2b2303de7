--------------------------- MODULE I2CScriptsProofs ---------------------------
(***************************************************************************)
(* Proofs about the scripts stacked on I2C, for any slaves and bytes and   *)
(* any number of packets.                                                  *)
(***************************************************************************)
EXTENDS ScriptProofs

-----------------------------------------------------------------------------
(* lm75: the first byte of a temperature is of the past.                   *)

Lm75States == {"IDLE", "GET SLAVE ADDR", "REGS"}
Lm75Pd ==
    /\ pd \in [state : Lm75States, databytes : Seq(Nat)]
    /\ pd.databytes # <<>> => pd.databytes[1] + Width <= Ss

\* decode() of lm75: databytes[0] is a byte of the past until the second one is read.
LEMMA Lm75Kept ==
    ASSUME count \in Nat, Lm75Pd, NEW q, Lm75(q)
    PROVE  Lm75Pd' /\ Fine("lm75", Lm75Rows)'
<1> DEFINE Fit == Fits("lm75", Lm75Rows, count + 1)
           t == P("lm75", pd.databytes[1], Es(q), {pd.databytes[1], Ss})
<1>1. /\ count' = count + 1 /\ Ss \in Nat /\ Ss' = Ss + Width /\ Width = 8
    BY I2CHanded DEF Lm75
<1>0. Ss + Width = Width * (count + 1)
    BY I2CHanded DEF Lm75
<1>2. \/ pd' = pd
      \/ \E s \in Lm75States : pd' = [pd EXCEPT !.state = s]
      \/ pd' = [pd EXCEPT !.databytes = <<Ss>>]
      \/ pd' = [pd EXCEPT !.databytes = <<>>]
    BY Zenon DEF Lm75, Return, Become, Goto, Ignore, Lm75States
<1>3. \/ put' = <<>> \/ put' = <<Note("lm75", q)>>
      \/ pd.databytes # <<>> /\ IsData(q) /\ put' \in {<<t, t>>, <<t, t, t>>}
    BY Zenon DEF Lm75, Return, Become, Goto, Ignore, Show
<1> HIDE DEF Ss, Width
<1>4. Lm75Pd'
  <2>1. CASE pd' = pd
      BY <1>1, <2>1 DEF Lm75Pd
  <2>2. ASSUME NEW s \in Lm75States, pd' = [pd EXCEPT !.state = s]
        PROVE  Lm75Pd'
      BY <1>1, <2>2 DEF Lm75Pd
  <2>3. ASSUME NEW b \in Seq(Nat), b # <<>> => b[1] = Ss, pd' = [pd EXCEPT !.databytes = b]
        PROVE  Lm75Pd'
      BY <1>1, <2>3, SMTT(30) DEF Lm75Pd
  <2>4. <<Ss>> \in Seq(Nat) /\ <<Ss>>[1] = Ss /\ <<>> \in Seq(Nat)
      BY <1>1
  <2>5. CASE pd' = [pd EXCEPT !.databytes = <<Ss>>]
      BY <2>3, <2>4, <2>5, Zenon
  <2>6. CASE pd' = [pd EXCEPT !.databytes = <<>>]
      BY <2>3, <2>4, <2>6, Zenon
  <2> QED
      BY <1>2, <2>1, <2>2, <2>5, <2>6, Zenon
<1>5. Note("lm75", q) \in Fit
    BY FitNote DEF Lm75Rows
<1>6. ASSUME pd.databytes # <<>>, IsData(q)
      PROVE  t \in Fit
  <2>1. pd.databytes[1] \in Nat /\ pd.databytes[1] + Width <= Ss
      BY <1>1, <1>6 DEF Lm75Pd
  <2>2. Es(q) = Ss + Width
      BY <1>6, PacketEnds
  <2> QED
      BY <1>0, <1>1, <2>1, <2>2, FitP DEF Lm75Rows
<1>7. \A n \in {<<t, t>>, <<t, t, t>>} : Disjoint("lm75", n)
  <2>1. t.row = "lm75" /\ <<"lm75", "lm75">> \in Overlaid
      BY Zenon DEF P, Overlaid
  <2> HIDE DEF t
  <2> QED
      BY <2>1 DEF Disjoint
<1> HIDE DEF t, Fit
<1>8. pd.databytes # <<>> /\ IsData(q) => <<t, t>> \in Seq(Fit) /\ <<t, t, t>> \in Seq(Fit)
    BY <1>6
<1>9. Fine("lm75", Lm75Rows)'
    BY <1>1, <1>3, <1>5, <1>7, <1>8, FinePut DEF Fit
<1> QED
    BY <1>4, <1>9

-----------------------------------------------------------------------------
(* mxc6225xu, tca6408a, pca9571: a byte, or a note in another row.         *)

\* A call that puts nothing, or one note, or one byte.
LEMMA PlainPut ==
    ASSUME count \in Nat, count' = count + 1, NEW name, NEW rows, NEW q, NEW note, NEW byte,
           \/ put' = <<>>
           \/ note \in rows /\ put' = <<Note(note, q)>>
           \/ byte \in rows /\ IsData(q) /\ put' = <<Byte(byte, q)>>
    PROVE  Fine(name, rows)'
<1>1. note \in rows => Note(note, q) \in Fits(name, rows, count + 1)
    BY FitNote
<1>2. byte \in rows /\ IsData(q) => Byte(byte, q) \in Fits(name, rows, count + 1)
    BY FitByte, PacketEnds
<1> QED
    BY <1>1, <1>2, FinePut, Zenon

\* decode() of mxc6225xu puts at most the register byte at hand.
LEMMA Mxc6225xuKept ==
    ASSUME count \in Nat, NEW q, Mxc6225xu(q)
    PROVE  Fine("mxc6225xu", Mxc6225xuRows)'
<1>1. count' = count + 1
    BY I2CHanded DEF Mxc6225xu
<1>2. Accesses(q) => IsData(q)
    BY DEF Accesses, IsData
<1>3. \/ put' = <<>>
      \/ IsData(q) /\ put' = <<Byte("mxc6225xu", q)>>
    BY <1>2, Zenon DEF Mxc6225xu, Return, Become, Goto, Ignore, Fail, Show
<1>4. "mxc6225xu" \in Mxc6225xuRows
    BY DEF Mxc6225xuRows
<1> QED
    BY <1>1, <1>3, <1>4, PlainPut, Zenon

\* decode() of tca6408a puts at most the byte or the warning at hand.
LEMMA Tca6408aKept ==
    ASSUME count \in Nat, NEW q, Tca6408a(q)
    PROVE  Fine("tca6408a", Tca6408aRows)'
<1>1. count' = count + 1
    BY I2CHanded DEF Tca6408a
<1>2. Accesses(q) \/ Selects(q) => IsData(q)
    BY DEF Accesses, Selects, IsData
<1>3. \/ put' = <<>>
      \/ put' = <<Note("warnings", q)>>
      \/ IsData(q) /\ put' = <<Byte("regs", q)>>
    BY <1>2, Zenon DEF Tca6408a, Return, Become, Goto, Ignore, Fail, Show
<1>4. {"warnings", "regs"} \subseteq Tca6408aRows /\ "warnings" # "regs"
    BY DEF Tca6408aRows
<1> QED
    BY <1>1, <1>3, <1>4, PlainPut

\* Whatever broke the last transfer off, pca9571 is idle when the bus is.
PcaStates == {"IDLE", "GET SLAVE ADDR", "READ DATA", "WRITE DATA"}
Pca9571Pd ==
    /\ DOMAIN pd = {"state", "last_write"}
    /\ line = "idle" => pd.state = "IDLE"

\* decode() of pca9571: a STOP leads back to IDLE from every state.
LEMMA Pca9571Kept ==
    ASSUME count \in Nat, Pca9571Pd, NEW q, Pca9571(q)
    PROVE  Pca9571Pd' /\ Fine("pca9571", Pca9571Rows)'
<1>1. count' = count + 1 /\ q.cmd \in I2CFollows[line] /\ line' = I2CLeads(line, q.cmd)
    BY I2CHanded DEF Pca9571
<1> DEFINE Fit == Fits("pca9571", Pca9571Rows, count + 1)
           n == Note("warnings", q)
           b == Byte("regs", q)
<1>2. \/ put' = <<>>
      \/ put' = <<n>>
      \/ IsData(q) /\ put' \in {<<n>> \o <<b>>, <<>> \o <<b>>, <<b>>}
    BY Zenon DEF Pca9571, Return, Become, Goto, Ignore, Show
<1>3. n \in Fit
    BY FitNote DEF Pca9571Rows
<1>4. IsData(q) => b \in Fit
    BY FitByte, PacketEnds DEF Pca9571Rows
<1>5. Fine("pca9571", Pca9571Rows)'
  <2>1. n.row # b.row
      BY DEF Note, Byte, P
  <2> HIDE DEF n, b, Fit
  <2>2. ASSUME IsData(q), NEW s \in {<<n>>, <<>>}
        PROVE  s \o <<b>> \in Seq(Fit) /\ Disjoint("pca9571", s \o <<b>>)
    <3>1. /\ s \in Seq(Fit) /\ Disjoint("pca9571", s)
          /\ <<b>> \in Seq(Fit) /\ Disjoint("pca9571", <<b>>)
        BY <1>3, <1>4, <2>2, FineNone, FineOne, Zenon
    <3>2. \A i \in DOMAIN s, j \in DOMAIN <<b>> : s[i].row # <<b>>[j].row
        BY <2>1, <2>2
    <3> QED
        BY <3>1, <3>2, FineJoin
  <2> QED
      BY <1>1, <1>2, <1>3, <1>4, <2>2, FinePut DEF Fit
<1>6. Pca9571Pd'
  <2>1. \/ pd' = pd /\ q.cmd # "STOP"
        \/ \E s \in PcaStates : pd' = [pd EXCEPT !.state = s] /\ (q.cmd = "STOP" => s = "IDLE")
        \/ pd' = [pd EXCEPT !.last_write = q.v] /\ q.cmd # "STOP"
      BY Zenon DEF Pca9571, Return, Become, Goto, Ignore, PcaStates, IsData, IsAddress
  <2>2. q.cmd # "STOP" => line' # "idle"
      BY <1>1 DEF I2CLeads
  <2> QED
      BY <2>1, <2>2 DEF Pca9571Pd
<1> QED
    BY <1>5, <1>6
-----------------------------------------------------------------------------
(* ltc26x7: the first byte of a voltage is of the past.                    *)

Ltc26x7States == {"IDLE", "GET SLAVE ADDR", "GET CMD ADDR", "WRITE DATA"}
Ltc26x7Pd ==
    /\ pd \in [state : Ltc26x7States, ss : Int, dac_val : LtcDacs]
    /\ pd.ss # Unknown => pd.ss \in Nat /\ pd.ss + Width <= Ss

\* decode() of ltc26x7: self.ss is the first byte of the value that is being written.
LEMMA Ltc26x7Kept ==
    ASSUME count \in Nat, Ltc26x7Pd, NEW q, Ltc26x7(q)
    PROVE  Ltc26x7Pd' /\ Fine("ltc26x7", Ltc26x7Rows)'
<1> DEFINE Fit == Fits("ltc26x7", Ltc26x7Rows, count + 1)
           v(row) == P(row, pd.ss, Ss + Width, {pd.ss, Ss})
           a == v("dac_a_voltages")
           b == v("dac_b_voltages")
           c == Byte("addr_cmd", q)
           hi == Bits("addr_cmd", Ss, 7, 4)
           lo == Bits("addr_cmd", Ss, 3, 0)
<1>0. Ss + Width = Width * (count + 1)
    BY I2CHanded DEF Ltc26x7
<1>1. /\ count' = count + 1 /\ Ss \in Nat /\ Ss' = Ss + Width /\ Width = 8
    BY I2CHanded DEF Ltc26x7
<1>2. \/ pd' = pd
      \/ \E s \in Ltc26x7States : pd' = [pd EXCEPT !.state = s]
      \/ \E s \in Ltc26x7States : pd' = [pd EXCEPT !.state = s, !.ss = Unknown]
      \/ \E s \in Ltc26x7States, d \in LtcDacs : pd' = [pd EXCEPT !.state = s, !.dac_val = d]
      \/ pd' = [pd EXCEPT !.ss = Ss]
      \/ pd' = [pd EXCEPT !.ss = Unknown]
    BY Zenon DEF Ltc26x7, Return, Become, Goto, Ignore, Fail, Hang, Ltc26x7States
<1>3. \/ put' = <<>>
      \/ put' = <<hi>>
      \/ put' = <<hi>> \o <<lo>>
      \/ q.cmd = "ADDRESS WRITE" /\ put' = <<c>>
      \/ pd.ss # Unknown /\ put' \in {<<a>>, <<b>>, <<a, b>>}
    BY Zenon DEF Ltc26x7, Return, Become, Goto, Ignore, Fail, Hang, Show, LtcVoltage
<1>4. Ltc26x7Pd'
  <2> HIDE DEF Ss, Width
  <2>1. CASE pd' = pd
      BY <1>1, <2>1 DEF Ltc26x7Pd, Unknown
  <2>2. ASSUME NEW s \in Ltc26x7States, pd' = [pd EXCEPT !.state = s]
        PROVE  Ltc26x7Pd'
      BY <1>1, <2>2 DEF Ltc26x7Pd, Unknown
  <2>3. ASSUME NEW s \in Ltc26x7States, pd' = [pd EXCEPT !.state = s, !.ss = Unknown]
        PROVE  Ltc26x7Pd'
    <3> DEFINE f == [pd EXCEPT !.state = s]
    <3>1. f \in [state : Ltc26x7States, ss : Int, dac_val : LtcDacs]
        BY DEF Ltc26x7Pd
    <3>2. pd' = [f EXCEPT !.ss = Unknown]
        BY <2>3, Zenon
    <3> HIDE DEF f
    <3> QED
        BY <1>1, <3>1, <3>2 DEF Ltc26x7Pd, Unknown
  <2>4. ASSUME NEW s \in Ltc26x7States, NEW d \in LtcDacs,
               pd' = [pd EXCEPT !.state = s, !.dac_val = d]
        PROVE  Ltc26x7Pd'
    <3> DEFINE f == [pd EXCEPT !.state = s]
    <3>1. f \in [state : Ltc26x7States, ss : Int, dac_val : LtcDacs] /\ f.ss = pd.ss
        BY DEF Ltc26x7Pd
    <3>2. pd' = [f EXCEPT !.dac_val = d]
        BY <2>4, Zenon
    <3> HIDE DEF f
    <3> QED
        BY <1>1, <3>1, <3>2 DEF Ltc26x7Pd, Unknown
  <2>5. CASE pd' = [pd EXCEPT !.ss = Ss] \/ pd' = [pd EXCEPT !.ss = Unknown]
      BY <1>1, <2>5 DEF Ltc26x7Pd, Unknown
  <2> QED
      BY <1>2, <2>1, <2>2, <2>3, <2>4, <2>5, Zenon
<1>5. hi \in Fit /\ lo \in Fit
  <2> HIDE DEF Ss, Width
  <2>1. Ss + Width <= Width * (count + 1)
      BY <1>0, <1>1
  <2>2. "addr_cmd" \in Ltc26x7Rows /\ 7 \in 0..7 /\ 4 \in 0..7 /\ 3 \in 0..7 /\ 0 \in 0..7
      BY DEF Ltc26x7Rows
  <2> QED
      BY <1>1, <2>1, <2>2, FitBits
<1>6. q.cmd = "ADDRESS WRITE" => c \in Fit
  <2>1. q.cmd = "ADDRESS WRITE" => q.cmd \notin Instants
      BY DEF Instants
  <2>2. "addr_cmd" \in Ltc26x7Rows
      BY DEF Ltc26x7Rows
  <2> QED
      BY <2>1, <2>2, FitByte
<1>7. ASSUME pd.ss # Unknown
      PROVE  a \in Fit /\ b \in Fit
  <2> HIDE DEF Ss, Width
  <2>1. pd.ss \in Nat /\ pd.ss + Width <= Ss
      BY <1>7 DEF Ltc26x7Pd
  <2>2. /\ Ss + Width \in Nat /\ pd.ss <= Ss + Width /\ {pd.ss, Ss} \in SUBSET Int
        /\ \A x \in {pd.ss, Ss} : x < Ss + Width /\ pd.ss < x + Width
      BY <1>1, <2>1
  <2>3. Ss + Width <= Width * (count + 1)
      BY <1>0, <1>1
  <2>4. {"dac_a_voltages", "dac_b_voltages"} \subseteq Ltc26x7Rows
      BY DEF Ltc26x7Rows
  <2> QED
      BY <2>1, <2>2, <2>3, <2>4, FitP
<1>8. a.row # b.row /\ hi.es <= lo.ss
    BY <1>1 DEF P, Bits, BitSs
<1> HIDE DEF a, b, c, hi, lo, Fit
<1>9. <<hi>> \o <<lo>> \in Seq(Fit) /\ Disjoint("ltc26x7", <<hi>> \o <<lo>>)
  <2>1. /\ <<hi>> \in Seq(Fit) /\ Disjoint("ltc26x7", <<hi>>)
        /\ <<lo>> \in Seq(Fit) /\ Disjoint("ltc26x7", <<lo>>)
      BY <1>5, FineOne
  <2>2. \A i \in DOMAIN <<hi>>, j \in DOMAIN <<lo>> : <<hi>>[i].es <= <<lo>>[j].ss
      BY <1>8
  <2> QED
      BY <2>1, <2>2, FineJoin
<1>10. Fine("ltc26x7", Ltc26x7Rows)'
    BY <1>1, <1>3, <1>5, <1>6, <1>7, <1>8, <1>9, FinePut, Zenon DEF Fit
<1> QED
    BY <1>4, <1>10

-----------------------------------------------------------------------------
(* mlx90614: the bytes kept are of the past, in order.                     *)

Mlx90614States == {"IGNORE START REPEAT", "IGNORE ADDRESS WRITE", "GET TEMPERATURE"}
Mlx90614Pd ==
    /\ pd \in [state : Mlx90614States, data : Seq(Nat)]
    /\ Len(pd.data) <= 2
    /\ \A i \in DOMAIN pd.data : pd.data[i] + Width <= Ss
    /\ Len(pd.data) = 2 => pd.data[1] <= pd.data[2]

\* decode() of mlx90614: at most two bytes are kept, in the order they were read.
LEMMA Mlx90614Kept ==
    ASSUME count \in Nat, Mlx90614Pd, NEW q, Mlx90614(q)
    PROVE  Mlx90614Pd' /\ Fine("mlx90614", Mlx90614Rows)'
<1> DEFINE Fit == Fits("mlx90614", Mlx90614Rows, count + 1)
           rows == <<"temps-celsius", "temps-kelvin">>
           t(row) == Span(row, pd.data[1], pd.data[2], ToSet(pd.data))
           ts == [i \in 1..2 |-> t(rows[i])]
<1>0. Ss + Width = Width * (count + 1)
    BY I2CHanded DEF Mlx90614
<1>1. /\ count' = count + 1 /\ Ss \in Nat /\ Ss' = Ss + Width /\ Width = 8
    BY I2CHanded DEF Mlx90614
<1>2. \/ pd' = pd
      \/ \E s \in Mlx90614States : pd' = [pd EXCEPT !.state = s]
      \/ Len(pd.data) < 2 /\ pd' = [pd EXCEPT !.data = Append(pd.data, Ss)]
      \/ pd' = Mlx0
    BY Zenon DEF Mlx90614, Return, Become, Goto, Ignore, Mlx90614States
<1>3. \/ put' = <<>>
      \/ Len(pd.data) = 2 /\ put' = ts
    BY Zenon DEF Mlx90614, Return, Become, Goto, Ignore, Show
<1> HIDE DEF Ss, Width
<1>4. Mlx90614Pd'
  <2>1. CASE pd' = pd
      BY <1>1, <2>1 DEF Mlx90614Pd
  <2>2. ASSUME NEW s \in Mlx90614States, pd' = [pd EXCEPT !.state = s]
        PROVE  Mlx90614Pd'
      BY <1>1, <2>2 DEF Mlx90614Pd
  <2>3. CASE Len(pd.data) < 2 /\ pd' = [pd EXCEPT !.data = Append(pd.data, Ss)]
    <3> DEFINE d == Append(pd.data, Ss)
    <3>1. /\ pd.data \in Seq(Nat) /\ Len(pd.data) < 2
          /\ \A i \in DOMAIN pd.data : pd.data[i] \in Nat /\ pd.data[i] + Width <= Ss
        BY <2>3 DEF Mlx90614Pd
    <3>2. /\ d \in Seq(Nat) /\ Len(d) <= 2
          /\ \A i \in DOMAIN d : d[i] + Width <= Ss + Width
          /\ Len(d) = 2 => d[1] <= d[2]
        BY <1>1, <3>1
    <3> HIDE DEF d
    <3>3. pd' = [pd EXCEPT !.data = d]
        BY <2>3, Zenon DEF d
    <3> QED
        BY <1>1, <3>2, <3>3 DEF Mlx90614Pd
  <2>4. CASE pd' = Mlx0
    <3> DEFINE d == <<>>
    <3>1. d \in Seq(Nat) /\ Len(d) = 0 /\ DOMAIN d = {}
        OBVIOUS
    <3>2. pd' = [state |-> "IGNORE START REPEAT", data |-> d]
        BY <2>4 DEF Mlx0
    <3> HIDE DEF d
    <3>3. pd' \in [state : Mlx90614States, data : Seq(Nat)] /\ pd'.data = d
        BY <3>1, <3>2 DEF Mlx90614States
    <3> QED
        BY <3>1, <3>3 DEF Mlx90614Pd
  <2> QED
      BY <1>2, <2>1, <2>2, <2>3, <2>4, Zenon
<1>5. ASSUME Len(pd.data) = 2, NEW row \in Mlx90614Rows
      PROVE  t(row) \in Fit
  <2> DEFINE x == pd.data[1]
             y == pd.data[2]
  <2>1. x \in Nat /\ y \in Nat /\ x <= y /\ y + Width <= Ss /\ ToSet(pd.data) = {x, y}
      BY <1>5 DEF Mlx90614Pd, ToSet
  <2> HIDE DEF x, y
  <2>2. /\ y + Width \in Nat /\ x <= y + Width /\ {x, y} \in SUBSET Int
        /\ \A m \in {x, y} : m < y + Width /\ x < m + Width
      BY <1>1, <2>1
  <2>3. y + Width <= Width * (count + 1)
      BY <1>0, <1>1, <2>1
  <2>4. P(row, x, y + Width, {x, y}) \in Fit
      BY <1>1, <2>1, <2>2, <2>3, FitP
  <2> QED
      BY <2>1, <2>4, Zenon DEF x, y, Span
<1>6. /\ rows[1] \in Mlx90614Rows /\ rows[2] \in Mlx90614Rows
      /\ t(rows[1]).row # t(rows[2]).row
    BY DEF Mlx90614Rows, Span, P
<1> HIDE DEF t, rows, Fit
<1>7. Len(pd.data) = 2 => ts \in Seq(Fit) /\ Disjoint("mlx90614", ts)
    BY <1>5, <1>6 DEF Disjoint
<1> HIDE DEF ts
<1>8. Fine("mlx90614", Mlx90614Rows)'
    BY <1>1, <1>3, <1>7, FinePut DEF Fit
<1> QED
    BY <1>4, <1>8

-----------------------------------------------------------------------------
(* nunchuk: the registers of a block that have been seen lie in it.        *)

NunchukBytes == Bytes["nunchuk"]
NunchukStates == {"IDLE", "GET SLAVE ADDR", "READ REGS", "WRITE REGS"}
NunchukType == [state : NunchukStates, reg : 0..5, ss_block : Nat,
                init_seq : Seq(NunchukBytes), seen : [NunFields -> Int]]
\* A register seen lies between the start of the block and the packet at hand.
NunSeen(seen, reads, block, now) ==
    \A f \in NunFields :
       seen[f] = Unknown \/ (reads /\ block <= seen[f] /\ seen[f] + Width <= now)
NunchukPd ==
    /\ pd \in NunchukType
    /\ pd.ss_block <= Ss
    /\ NunSeen(pd.seen, pd.state = "READ REGS" /\ pd.reg # 0, pd.ss_block, Ss)

\* What was seen stays seen as packets go by.
LEMMA NunSeenLater ==
    ASSUME NEW seen \in [NunFields -> Int], NEW block \in Nat, NEW now \in Nat,
           NEW later \in BOOLEAN, NEW reads \in BOOLEAN, Width = 8,
           NunSeen(seen, reads, block, now), reads => later
    PROVE  NunSeen(seen, later, block, now + Width)
    BY DEF NunSeen

\* Where nothing was seen the block may start anywhere.
LEMMA NunSeenNone ==
    ASSUME NEW seen, NEW block, NEW now, NEW to, NEW later, NEW reads,
           NunSeen(seen, FALSE, block, now)
    PROVE  NunSeen(seen, reads, to, later)
    BY DEF NunSeen

\* The register at hand is seen in its place.
LEMMA NunSeenNext ==
    ASSUME NEW seen \in [NunFields -> Int], NEW block \in Nat, NEW now \in Nat, Width = 8,
           NEW name, NunSeen(seen, TRUE, block, now), block <= now
    PROVE  NunSeen([seen EXCEPT ![name] = now], TRUE, block, now + Width)
    BY DEF NunSeen

\* decode() of nunchuk: a register seen was read in the current block.
LEMMA NunchukAttributes ==
    ASSUME count \in Nat, NunchukPd, NEW q \in I2CInputs("nunchuk"), Nunchuk(q)
    PROVE  NunchukPd'
<1>1. Ss \in Nat /\ Ss' = Ss + Width /\ Width = 8
    BY I2CHanded DEF Nunchuk
<1> DEFINE blank == [f \in NunFields |-> Unknown]
           at == IF pd.reg = 0 THEN Ss ELSE pd.ss_block
           name == NunReg[pd.reg + 1]
           to == IF pd.reg = 5 THEN 1 ELSE pd.reg + 1
           none == <<>>
           seq == IF Len(pd.init_seq) < 2 THEN Append(pd.init_seq, q.v) ELSE pd.init_seq
           reads == pd.state = "READ REGS" /\ pd.reg # 0
<1>2. \/ pd' = pd
      \/ pd.state = "IDLE" /\ pd' = [pd EXCEPT !.state = "GET SLAVE ADDR", !.ss_block = Ss]
      \/ pd.state = "GET SLAVE ADDR" /\ \E s \in {"READ REGS", "WRITE REGS"} : pd' = [pd EXCEPT !.state = s]
      \/ pd.state = "READ REGS" /\ pd' = [pd EXCEPT !.ss_block = at, !.seen[name] = Ss, !.reg = to]
      \/ IsData(q) /\ pd' = [pd EXCEPT !.init_seq = seq]
      \/ pd' = [pd EXCEPT !.state = "IDLE", !.seen = blank]
      \/ pd.state = "WRITE REGS" /\ pd' = [pd EXCEPT !.state = "IDLE", !.init_seq = none]
    BY Zenon DEF Nunchuk, NunRegister, NunStop, Nun0, Return, Become, Goto, Ignore, Fail, IsData
<1> HIDE DEF Ss, Width, at, name, to, none, seq, blank
<1>3. /\ pd \in NunchukType /\ pd.ss_block \in Nat /\ pd.reg \in 0..5 /\ pd.ss_block <= Ss
      /\ pd.seen \in [NunFields -> Int] 
    BY DEF NunchukPd, NunchukType
<1>13. pd.init_seq \in Seq(NunchukBytes)
    BY DEF NunchukPd, NunchukType
<1>0. NunSeen(pd.seen, reads, pd.ss_block, Ss)
    BY Zenon DEF NunchukPd
<1>4. /\ {"IDLE", "GET SLAVE ADDR", "READ REGS", "WRITE REGS"} \subseteq NunchukStates
    BY DEF NunchukStates
\* Nothing about the block has changed.
<1>5. ASSUME pd' \in NunchukType, pd'.ss_block = pd.ss_block, pd'.seen = pd.seen,
             (pd'.state = pd.state /\ pd'.reg = pd.reg) \/ ~reads
      PROVE  NunchukPd'
  <2> DEFINE later == pd'.state = "READ REGS" /\ pd'.reg # 0
  <2>1. NunSeen(pd.seen, later, pd.ss_block, Ss + Width)
    <3>1. later \in BOOLEAN /\ reads \in BOOLEAN /\ (reads => later)
        BY <1>5
    <3> HIDE DEF later, reads
    <3> QED
        BY <1>0, <1>1, <1>3, <3>1, NunSeenLater
  <2>2. pd'.ss_block <= Ss'
    <3>1. pd'.ss_block = pd.ss_block
        BY <1>5
    <3> QED
        BY <1>1, <1>3, <3>1
  <2>3. NunSeen(pd'.seen, later, pd'.ss_block, Ss')
      BY <1>1, <1>5, <2>1, Zenon
  <2> QED
      BY <1>5, <2>2, <2>3 DEF NunchukPd
<1>6. CASE pd' = pd
    BY <1>3, <1>5, <1>6, Zenon
<1>7. CASE pd.state = "IDLE" /\ pd' = [pd EXCEPT !.state = "GET SLAVE ADDR", !.ss_block = Ss]
  <2> DEFINE f == [pd EXCEPT !.state = "GET SLAVE ADDR"]
  <2>1. f \in NunchukType /\ f.seen = pd.seen
      BY <1>3, <1>4 DEF NunchukType
  <2>2. pd' = [f EXCEPT !.ss_block = Ss]
      BY <1>7, Zenon
  <2> HIDE DEF f
  <2>3. pd' \in NunchukType /\ pd'.ss_block = Ss /\ pd'.seen = pd.seen
      BY <1>1, <2>1, <2>2 DEF NunchukType
  <2>4. ~reads
      BY <1>7
  <2>5. NunSeen(pd.seen, pd'.state = "READ REGS" /\ pd'.reg # 0, Ss, Ss')
      BY <1>0, <2>4, NunSeenNone, Zenon
  <2>6. pd'.ss_block <= Ss'
      BY <1>1, <2>3
  <2> QED
      BY <2>3, <2>5, <2>6, Zenon DEF NunchukPd
<1>8. ASSUME pd.state = "GET SLAVE ADDR", NEW s \in {"READ REGS", "WRITE REGS"},
             pd' = [pd EXCEPT !.state = s]
      PROVE  NunchukPd'
  <2>1. pd' \in NunchukType /\ pd'.ss_block = pd.ss_block /\ pd'.seen = pd.seen
      BY <1>3, <1>4, <1>8 DEF NunchukType
  <2>2. ~reads
      BY <1>8
  <2> QED
      BY <1>5, <2>1, <2>2
<1>9. CASE pd.state = "READ REGS" /\ pd' = [pd EXCEPT !.ss_block = at, !.seen[name] = Ss, !.reg = to]
  <2> DEFINE f == [pd EXCEPT !.ss_block = at]
             g == [f EXCEPT !.seen[name] = Ss]
             seen == [pd.seen EXCEPT ![name] = Ss]
  <2>1. at \in Nat /\ at <= Ss /\ (pd.reg # 0 => at = pd.ss_block) /\ to \in 1..5
      BY <1>1, <1>3 DEF at, to
  <2>2. pd' = [g EXCEPT !.reg = to]
      BY <1>9, Zenon
  <2>3. f \in NunchukType /\ f.seen = pd.seen /\ f.ss_block = at /\ f.state = pd.state
      BY <1>3, <2>1 DEF NunchukType
  <2> HIDE DEF f
  <2>4. seen \in [NunFields -> Int]
    <3>1. pd.seen \in [NunFields -> Int] /\ Ss \in Int
        BY <1>1, <1>3
    <3> QED
        BY <3>1
  <2>5. g = [f EXCEPT !.seen = seen]
      BY <2>3, Zenon
  <2> HIDE DEF g, seen
  <2>6. g \in NunchukType /\ g.seen = seen /\ g.ss_block = at /\ g.state = pd.state
      BY <2>3, <2>4, <2>5 DEF NunchukType
  <2>7. pd' \in NunchukType /\ pd'.seen = seen /\ pd'.ss_block = at /\ pd'.reg = to /\ pd'.state = pd.state
      BY <2>1, <2>2, <2>6 DEF NunchukType
  <2>8. NunSeen(pd.seen, TRUE, at, Ss)
    <3>1. CASE pd.reg = 0
        BY <1>0, <3>1, NunSeenNone, Zenon
    <3>2. CASE pd.reg # 0
        BY <1>0, <1>9, <2>1, <3>2
    <3> QED
        BY <3>1, <3>2
  <2>9. NunSeen(seen, TRUE, at, Ss + Width)
      BY <1>1, <1>3, <2>1, <2>8, NunSeenNext DEF seen
  <2>10. pd'.state = "READ REGS" /\ pd'.reg # 0
    <3>1. pd.state = "READ REGS"
        BY <1>9, Zenon
    <3>2. pd'.reg # 0
        BY <2>1, <2>7
    <3> QED
        BY <2>7, <3>1, <3>2, Zenon
  <2>11. pd'.ss_block <= Ss'
      BY <1>1, <2>1, <2>7
  <2>12. NunSeen(pd'.seen, pd'.state = "READ REGS" /\ pd'.reg # 0, pd'.ss_block, Ss')
      BY <1>1, <2>7, <2>9, <2>10 DEF NunSeen
  <2> QED
      BY <2>7, <2>11, <2>12, Zenon DEF NunchukPd
<1>10. CASE IsData(q) /\ pd' = [pd EXCEPT !.init_seq = seq]
  <2>1. q.v \in NunchukBytes
      BY <1>10, I2CInput, Zenon DEF NunchukBytes
  <2>2. seq \in Seq(NunchukBytes)
      BY <1>13, <2>1 DEF seq
  <2>3. /\ pd' \in NunchukType /\ pd'.ss_block = pd.ss_block /\ pd'.seen = pd.seen
        /\ pd'.state = pd.state /\ pd'.reg = pd.reg
      BY <1>3, <1>10, <2>2 DEF NunchukType
  <2> QED
      BY <1>5, <2>3
<1>11. CASE pd' = [pd EXCEPT !.state = "IDLE", !.seen = blank]
  <2> DEFINE f == [pd EXCEPT !.state = "IDLE"]
  <2>1. f \in NunchukType /\ f.ss_block = pd.ss_block
      BY <1>3, <1>4 DEF NunchukType
  <2>2. blank \in [NunFields -> Int] /\ NunSeen(blank, FALSE, pd.ss_block, Ss)
      BY DEF Unknown, blank, NunSeen
  <2>3. pd' = [f EXCEPT !.seen = blank]
      BY <1>11, Zenon
  <2> HIDE DEF f
  <2>4. pd' \in NunchukType /\ pd'.ss_block = pd.ss_block /\ pd'.seen = blank
      BY <2>1, <2>2, <2>3 DEF NunchukType
  <2>5. NunSeen(blank, pd'.state = "READ REGS" /\ pd'.reg # 0, pd.ss_block, Ss')
      BY <2>2, NunSeenNone, Zenon
  <2>6. pd'.ss_block <= Ss'
      BY <1>1, <1>3, <2>4
  <2> QED
      BY <2>4, <2>5, <2>6, Zenon DEF NunchukPd
<1>12. CASE pd.state = "WRITE REGS" /\ pd' = [pd EXCEPT !.state = "IDLE", !.init_seq = none]
  <2> DEFINE f == [pd EXCEPT !.state = "IDLE"]
  <2>1. f \in NunchukType /\ f.ss_block = pd.ss_block /\ f.seen = pd.seen
      BY <1>3, <1>4 DEF NunchukType
  <2>2. none \in Seq(NunchukBytes)
      BY DEF none
  <2>3. pd' = [f EXCEPT !.init_seq = none]
      BY <1>12, Zenon
  <2> HIDE DEF f
  <2>4. pd' \in NunchukType /\ pd'.ss_block = pd.ss_block /\ pd'.seen = pd.seen
      BY <2>1, <2>2, <2>3 DEF NunchukType
  <2>5. ~reads
      BY <1>12
  <2> QED
      BY <1>5, <2>4, <2>5
<1> QED
    BY <1>2, <1>6, <1>7, <1>8, <1>9, <1>10, <1>11, <1>12, Zenon

\* decode() of nunchuk: a summary lies over the registers it shows.
LEMMA NunchukPuts ==
    ASSUME count \in Nat, NunchukPd, NEW q \in I2CInputs("nunchuk"), Nunchuk(q)
    PROVE  Fine("nunchuk", NunchukRows)'
<1> DEFINE Fit == Fits("nunchuk", NunchukRows, count + 1)
           c == Byte("regs", q)
           b0 == Bits("regs", Ss, 0, 0)
           b1 == Bits("regs", Ss, 1, 1)
           b2 == Bits("regs", Ss, 3, 2)
           b3 == Bits("regs", Ss, 5, 4)
           b4 == Bits("regs", Ss, 7, 6)
           bits == <<b0, b1, b2, b3, b4>>
           seen == {pd.seen[f] : f \in NunFields}
           whole(row, shown) == P(row, pd.ss_block, Es(q), shown)
<1>0. Ss + Width = Width * (count + 1)
    BY I2CHanded DEF Nunchuk
<1>1. count' = count + 1 /\ Ss \in Nat /\ Width = 8
    BY I2CHanded DEF Nunchuk
<1>2. \/ put' = <<>>
      \/ IsData(q) /\ put' = <<c>>
      \/ put' = bits
      \/ Unknown \notin seen /\ put' = <<whole("summary", seen)>>
      \/ \E row \in {"regs", "warnings"} : put' = <<whole(row, {})>>
    BY Zenon DEF Nunchuk, NunRegister, NunStop, NunPuts, Return, Become, Goto, Ignore, Fail, Show, IsData
<1>3. {"regs", "summary", "warnings"} \subseteq NunchukRows
    BY DEF NunchukRows
<1>4. IsData(q) => c \in Fit
    BY <1>3, FitByte, PacketEnds
<1>5. b0 \in Fit /\ b1 \in Fit /\ b2 \in Fit /\ b3 \in Fit /\ b4 \in Fit
  <2>1. Ss + Width <= Width * (count + 1) /\ count + 1 \in Nat
      BY <1>0, <1>1
  <2> HIDE DEF Ss, Width
  <2> QED
      BY <1>1, <1>3, <2>1, FitBits
<1>6. /\ b0.ss = Ss + 7 /\ b0.es = Ss + 8 /\ b1.ss = Ss + 6 /\ b1.es = Ss + 7
      /\ b2.ss = Ss + 4 /\ b2.es = Ss + 6 /\ b3.ss = Ss + 2 /\ b3.es = Ss + 4
      /\ b4.ss = Ss /\ b4.es = Ss + 2
    BY <1>1 DEF Bits, BitSs, P
<1> HIDE DEF Ss, Width
<1>7. ASSUME NEW row \in NunchukRows, NEW shown \in SUBSET Int,
             \A b \in shown : pd.ss_block <= b /\ b + Width <= Ss
      PROVE  whole(row, shown) \in Fit
  <2>1. pd.ss_block \in Nat /\ pd.ss_block <= Ss
      BY DEF NunchukPd, NunchukType
  <2> QED
      BY <1>7, <2>1, FitBlock
<1>8. Unknown \notin seen => whole("summary", seen) \in Fit
  <2>1. seen \in SUBSET Int
      BY DEF NunchukPd, NunchukType
  <2>2. Unknown \notin seen => \A b \in seen : pd.ss_block <= b /\ b + Width <= Ss
      BY Zenon DEF NunchukPd, NunSeen
  <2> HIDE DEF seen, whole
  <2> QED
      BY <1>3, <1>7, <2>1, <2>2
<1>9. \A row \in {"regs", "warnings"} : whole(row, {}) \in Fit
    BY <1>3, <1>7
<1> HIDE DEF b0, b1, b2, b3, b4, c, seen, whole, Fit
<1>10. bits \in Seq(Fit) /\ Disjoint("nunchuk", bits)
  <2>1. bits \in Seq(Fit)
      BY <1>5
  <2>2. Disjoint("nunchuk", bits)
      BY <1>1, <1>6 DEF Disjoint
  <2> QED
      BY <2>1, <2>2
<1> HIDE DEF bits
<1> QED
    BY <1>1, <1>2, <1>4, <1>8, <1>9, <1>10, FinePut, Zenon DEF Fit

-----------------------------------------------------------------------------
(* hdcp: the bytes stacked up lie in the transfer.                         *)

HdcpStates == {"IDLE", "GET SLAVE ADDR", "WRITE OFFSET", "BUFFER DATA"}
HdcpTypes == {"", "1.4", "1.4 Bstatus", "HDCP2Version", "Write_Message", "RxStatus", "Read_Message"}
HdcpBytes == Bytes["hdcp"]
HdcpByte == [at : Nat, v : HdcpBytes]
HdcpAttributes == [state : HdcpStates, stack : Seq(HdcpByte), ss_block : Nat, type : HdcpTypes]
Stacked(stack, block, now) ==
    \A i \in DOMAIN stack : block <= stack[i].at /\ stack[i].at + Width <= now
HdcpPd == pd \in HdcpAttributes /\ pd.ss_block <= Ss /\ Stacked(pd.stack, pd.ss_block, Ss)

\* What is popped off the stack leaves bytes of the transfer.
LEMMA StackedKept ==
    ASSUME NEW stack \in Seq(HdcpByte), NEW block \in Nat, NEW now \in Nat, Width = 8,
           Stacked(stack, block, now)
    PROVE  /\ Stacked(stack, block, now + Width)
           /\ stack # <<>> => Tail(stack) \in Seq(HdcpByte) /\ Stacked(Tail(stack), block, now + Width)
           /\ Len(stack) >= 2 => LET rest == SubSeq(stack, 1, Len(stack) - 2)
                                 IN rest \in Seq(HdcpByte) /\ Stacked(rest, block, now + Width)
<1>1. \A i \in DOMAIN stack :
          stack[i].at \in Nat /\ block <= stack[i].at /\ stack[i].at + Width <= now + Width
  <2>1. \A i \in DOMAIN stack : stack[i] \in HdcpByte
      OBVIOUS
  <2>2. \A b \in HdcpByte : b.at \in Nat
      BY DEF HdcpByte
  <2> QED
      BY <2>1, <2>2 DEF Stacked
<1>2. Stacked(stack, block, now + Width)
    BY <1>1 DEF Stacked
<1>3. ASSUME stack # <<>>
      PROVE  Tail(stack) \in Seq(HdcpByte) /\ Stacked(Tail(stack), block, now + Width)
  <2>1. Tail(stack) \in Seq(HdcpByte)
      BY <1>3
  <2>2. \A i \in DOMAIN Tail(stack) : i + 1 \in DOMAIN stack /\ Tail(stack)[i] = stack[i + 1]
      BY <1>3
  <2> QED
      BY <1>1, <2>1, <2>2 DEF Stacked
<1>4. ASSUME Len(stack) >= 2
      PROVE  LET rest == SubSeq(stack, 1, Len(stack) - 2)
             IN rest \in Seq(HdcpByte) /\ Stacked(rest, block, now + Width)
  <2> DEFINE rest == SubSeq(stack, 1, Len(stack) - 2)
  <2>1. rest \in Seq(HdcpByte)
      BY <1>4
  <2>2. \A i \in DOMAIN rest : i \in DOMAIN stack /\ rest[i] = stack[i]
      BY <1>4
  <2> QED
      BY <1>1, <2>1, <2>2 DEF Stacked
<1> QED
    BY <1>2, <1>3, <1>4

\* The byte at hand is pushed on the stack.
LEMMA StackedNext ==
    ASSUME NEW stack \in Seq(HdcpByte), NEW block \in Nat, NEW now \in Nat, Width = 8,
           Stacked(stack, block, now), block <= now, NEW v \in HdcpBytes
    PROVE  LET more == Append(stack, [at |-> now, v |-> v])
           IN more \in Seq(HdcpByte) /\ Stacked(more, block, now + Width)
<1> DEFINE b == [at |-> now, v |-> v]
           more == Append(stack, b)
<1>1. b \in HdcpByte /\ b.at = now
    BY DEF HdcpByte
<1> HIDE DEF b
<1>2. /\ more \in Seq(HdcpByte)
      /\ \A i \in DOMAIN more : more[i] = b \/ (i \in DOMAIN stack /\ more[i] = stack[i])
    BY <1>1
<1>3. Stacked(stack, block, now + Width)
    BY StackedKept
<1> HIDE DEF more
<1>4. Stacked(more, block, now + Width)
    BY <1>1, <1>2, <1>3 DEF Stacked
<1> QED
    BY <1>2, <1>4 DEF more, b

\* decode() of hdcp: the stack holds bytes from the start of the transfer on.
LEMMA HdcpKept ==
    ASSUME count \in Nat, HdcpPd, NEW q \in I2CInputs("hdcp"), Hdcp(q)
    PROVE  HdcpPd'
<1>1. Ss \in Nat /\ Ss' = Ss + Width /\ Width = 8
    BY I2CHanded DEF Hdcp
<1> DEFINE type == HdcpType(q.v)
           n == Len(pd.stack)
           rest == SubSeq(pd.stack, 1, n - 2)
           more == Append(pd.stack, [at |-> Ss, v |-> q.v])
<1>2. \/ pd' = pd
      \/ \E s \in HdcpStates : pd' = [pd EXCEPT !.state = s]
      \/ pd' = [Hdcp0 EXCEPT !.state = "GET SLAVE ADDR", !.ss_block = Ss]
      \/ \E s \in {"BUFFER DATA", "IDLE", pd.state} : pd' = [pd EXCEPT !.type = type, !.state = s]
      \/ n >= 2 /\ pd' = [pd EXCEPT !.state = "IDLE", !.stack = rest]
      \/ n > 0 /\ pd' = [pd EXCEPT !.state = "IDLE", !.stack = Tail(pd.stack)]
      \/ IsData(q) /\ pd' = [pd EXCEPT !.stack = more]
    BY ZenonT(60) DEF Hdcp, HdcpEnd, Return, Become, Goto, Ignore, Fail, HdcpStates
<1>3. pd.ss_block \in Nat /\ pd.ss_block <= Ss
    BY DEF HdcpPd, HdcpAttributes
<1>4. pd.stack \in Seq(HdcpByte) /\ Stacked(pd.stack, pd.ss_block, Ss)
    BY DEF HdcpPd, HdcpAttributes
<1>5. pd \in HdcpAttributes /\ pd.state \in HdcpStates
    BY DEF HdcpPd, HdcpAttributes
<1>6. type \in HdcpTypes
  <2>1. pd.type \in HdcpTypes
      BY DEF HdcpPd, HdcpAttributes
  <2> QED
      BY <2>1, ZenonT(60) DEF HdcpType, HdcpTypes
<1> HIDE DEF Ss, Width, type, n, rest, more
\* What is on the stack still lies between the start of the block and this packet.
<1>7. ASSUME NEW stack \in Seq(HdcpByte), Stacked(stack, pd.ss_block, Ss + Width), NEW f \in HdcpAttributes,
             f.ss_block = pd.ss_block, pd' = [f EXCEPT !.stack = stack]
      PROVE  HdcpPd'
  <2>1. pd' \in HdcpAttributes /\ pd'.ss_block = pd.ss_block /\ pd'.stack = stack
      BY <1>7 DEF HdcpAttributes
  <2>2. pd'.ss_block <= Ss'
      BY <1>1, <1>3, <2>1
  <2> QED
      BY <1>1, <1>7, <2>1, <2>2, Zenon DEF HdcpPd
<1>8. /\ Stacked(pd.stack, pd.ss_block, Ss + Width)
      /\ n > 0 => Tail(pd.stack) \in Seq(HdcpByte) /\ Stacked(Tail(pd.stack), pd.ss_block, Ss + Width)
      /\ n >= 2 => rest \in Seq(HdcpByte) /\ Stacked(rest, pd.ss_block, Ss + Width)
  <2>1. n > 0 => pd.stack # <<>>
      BY <1>4 DEF n
  <2> QED
      BY <1>1, <1>3, <1>4, <2>1, StackedKept DEF n, rest
<1>9. ASSUME pd' \in HdcpAttributes, pd'.ss_block = pd.ss_block, pd'.stack = pd.stack
      PROVE  HdcpPd'
  <2>1. pd'.ss_block <= Ss'
      BY <1>1, <1>3, <1>9
  <2> QED
      BY <1>1, <1>8, <1>9, <2>1, Zenon DEF HdcpPd
<1>10. CASE pd' = pd
    BY <1>5, <1>9, <1>10, Zenon
<1>11. ASSUME NEW s \in HdcpStates, pd' = [pd EXCEPT !.state = s]
       PROVE  HdcpPd'
  <2>1. pd' \in HdcpAttributes /\ pd'.ss_block = pd.ss_block /\ pd'.stack = pd.stack
      BY <1>5, <1>11 DEF HdcpAttributes
  <2> QED
      BY <1>9, <2>1
<1>12. CASE pd' = [Hdcp0 EXCEPT !.state = "GET SLAVE ADDR", !.ss_block = Ss]
  <2> DEFINE none == <<>>
  <2>1. none \in Seq(HdcpByte) /\ DOMAIN none = {}
      OBVIOUS
  <2>2. pd' = [state |-> "GET SLAVE ADDR", stack |-> none, ss_block |-> Ss, type |-> ""]
      BY <1>12 DEF Hdcp0
  <2> HIDE DEF none
  <2>3. pd' \in HdcpAttributes /\ pd'.ss_block = Ss /\ pd'.stack = none
      BY <1>1, <2>1, <2>2 DEF HdcpAttributes, HdcpStates, HdcpTypes
  <2>4. pd'.ss_block <= Ss'
      BY <1>1, <2>3
  <2>5. Stacked(pd'.stack, pd'.ss_block, Ss')
      BY <2>1, <2>3 DEF Stacked
  <2> QED
      BY <2>3, <2>4, <2>5, Zenon DEF HdcpPd
<1>13. ASSUME NEW s \in {"BUFFER DATA", "IDLE", pd.state}, pd' = [pd EXCEPT !.type = type, !.state = s]
       PROVE  HdcpPd'
  <2> DEFINE f == [pd EXCEPT !.type = type]
  <2>1. f \in HdcpAttributes /\ f.ss_block = pd.ss_block /\ f.stack = pd.stack
      BY <1>5, <1>6 DEF HdcpAttributes
  <2>2. pd' = [f EXCEPT !.state = s] /\ s \in HdcpStates
      BY <1>5, <1>13, Zenon DEF HdcpStates
  <2> HIDE DEF f
  <2>3. pd' \in HdcpAttributes /\ pd'.ss_block = pd.ss_block /\ pd'.stack = pd.stack
      BY <2>1, <2>2 DEF HdcpAttributes
  <2> QED
      BY <1>9, <2>3
<1>14. ASSUME NEW stack \in Seq(HdcpByte), Stacked(stack, pd.ss_block, Ss + Width),
              pd' = [pd EXCEPT !.state = "IDLE", !.stack = stack]
       PROVE  HdcpPd'
  <2> DEFINE f == [pd EXCEPT !.state = "IDLE"]
  <2>1. f \in HdcpAttributes /\ f.ss_block = pd.ss_block
      BY <1>5 DEF HdcpAttributes, HdcpStates
  <2>2. pd' = [f EXCEPT !.stack = stack]
      BY <1>14, Zenon
  <2> HIDE DEF f
  <2> QED
      BY <1>7, <1>14, <2>1, <2>2
<1>15. CASE IsData(q) /\ pd' = [pd EXCEPT !.stack = more]
  <2>1. q.v \in HdcpBytes
      BY <1>15, I2CInput, Zenon DEF HdcpBytes
  <2>2. more \in Seq(HdcpByte) /\ Stacked(more, pd.ss_block, Ss + Width)
      BY <1>1, <1>3, <1>4, <2>1, StackedNext DEF more
  <2> QED
      BY <1>5, <1>7, <1>15, <2>2, Zenon
<1> QED
    BY <1>2, <1>8, <1>10, <1>11, <1>12, <1>13, <1>14, <1>15, Zenon

\* decode() of hdcp: a message lies over the bytes on the stack that it shows.
LEMMA HdcpPuts ==
    ASSUME count \in Nat, HdcpPd, NEW q \in I2CInputs("hdcp"), Hdcp(q)
    PROVE  Fine("hdcp", HdcpRows)'
<1>1. count' = count + 1 /\ Ss \in Nat /\ Width = 8
    BY I2CHanded DEF Hdcp
<1> DEFINE Fit == Fits("hdcp", HdcpRows, count + 1)
           n == Len(pd.stack)
           two == {pd.stack[n].at, pd.stack[n - 1].at}
           one == {Head(pd.stack).at}
           whole(row, shown) == P(row, pd.ss_block, Es(q), shown)
<1>2. \/ put' = <<>>
      \/ put' = <<whole("summaries", {})>>
      \/ n >= 2 /\ put' = <<whole("summaries", two)>>
      \/ n > 0 /\ \E row \in {"messages", "summaries", "warnings"} : put' = <<whole(row, one)>>
    BY ZenonT(60) DEF Hdcp, HdcpEnd, HdcpRow, Return, Become, Goto, Ignore, Fail, Show
<1>3. pd.stack \in Seq(HdcpByte) /\ Stacked(pd.stack, pd.ss_block, Ss)
    BY DEF HdcpPd, HdcpAttributes
<1>4. pd.ss_block \in Nat /\ pd.ss_block <= Ss
    BY DEF HdcpPd, HdcpAttributes
<1> HIDE DEF Ss, Width
<1>5. \A i \in DOMAIN pd.stack : /\ pd.stack[i].at \in Int
                                 /\ pd.ss_block <= pd.stack[i].at /\ pd.stack[i].at + Width <= Ss
  <2>1. \A i \in DOMAIN pd.stack : pd.stack[i] \in HdcpByte
      BY <1>3
  <2>2. \A b \in HdcpByte : b.at \in Int
      BY DEF HdcpByte
  <2> QED
      BY <1>3, <2>1, <2>2 DEF Stacked
<1>6. /\ n \in Nat /\ (n >= 2 => n \in DOMAIN pd.stack /\ n - 1 \in DOMAIN pd.stack)
      /\ (n > 0 => 1 \in DOMAIN pd.stack /\ Head(pd.stack) = pd.stack[1])
    BY <1>3
<1> HIDE DEF n
<1>7. n >= 2 => two \in SUBSET Int /\ \A b \in two : pd.ss_block <= b /\ b + Width <= Ss
    BY <1>5, <1>6
<1>8. n > 0 => one \in SUBSET Int /\ \A b \in one : pd.ss_block <= b /\ b + Width <= Ss
    BY <1>5, <1>6
<1>9. "summaries" \in HdcpRows /\ {"messages", "summaries", "warnings"} \subseteq HdcpRows
    BY DEF HdcpRows
<1> HIDE DEF two, one
<1>10. ASSUME NEW row \in HdcpRows, NEW shown \in SUBSET Int,
              \A b \in shown : pd.ss_block <= b /\ b + Width <= Ss
       PROVE  whole(row, shown) \in Fit
    BY <1>4, <1>10, FitBlock
<1> HIDE DEF whole, Fit
<1>11. whole("summaries", {}) \in Fit
    BY <1>9, <1>10
<1>12. n >= 2 => whole("summaries", two) \in Fit
    BY <1>7, <1>9, <1>10
<1>13. n > 0 => \A row \in {"messages", "summaries", "warnings"} : whole(row, one) \in Fit
    BY <1>8, <1>9, <1>10
<1> QED
    BY <1>1, <1>2, <1>11, <1>12, <1>13, FinePut, Zenon DEF Fit

-----------------------------------------------------------------------------
(* rtc8564, ds1307: the transfer that a date is put over began before it.  *)

RegStates == {"IDLE", "GET SLAVE ADDR", "GET REG ADDR", "WRITE REGS", "READ REGS", "READ REGS2"}
RegAttributes(items) == [state : RegStates, ss_block : Nat, reg : Int, time : [items -> Int]]
RegPd(items) == pd \in RegAttributes(items) /\ pd.ss_block <= Ss

\* What a packet does to the attributes.
RegChange(items) ==
    \/ pd' = pd
    \/ \E s \in RegStates : pd' = [pd EXCEPT !.state = s]
    \/ \E s \in RegStates : pd' = [pd EXCEPT !.state = s, !.ss_block = Ss]
    \/ \E s \in RegStates, v \in Int : pd' = [pd EXCEPT !.state = s, !.reg = v]
    \/ \E v \in Int, t \in [items -> Int] : pd' = [pd EXCEPT !.reg = v, !.time = t]

\* The moves through a register transfer change the state, and the block at its START.
LEMMA MovedTo ==
    ASSUME NEW q, Moves(q) # {}
    PROVE  \E s \in RegStates :
              Moved(q) \in {[pd EXCEPT !.state = s, !.ss_block = Ss], [pd EXCEPT !.state = s]}
<1> DEFINE m == CHOOSE m \in Moves(q) : TRUE
<1>1. m \in RegMoves
    BY Zenon DEF Moves
<1>2. \A x \in RegMoves : x[3] \in RegStates
  <2>1. \A a, b, c : <<a, b, c>>[3] = c
      OBVIOUS
  <2> SUFFICES ASSUME NEW x \in RegMoves
               PROVE  x[3] \in RegStates
      OBVIOUS
  <2>2. \E a, b, c : c \in RegStates /\ x = <<a, b, c>>
      BY Zenon DEF RegMoves, RegStates
  <2>3. PICK a, b, c : c \in RegStates /\ x = <<a, b, c>>
      BY <2>2
  <2>4. <<a, b, c>>[3] = c
      BY <2>1
  <2> QED
      BY <2>3, <2>4
<1>3. m[3] \in RegStates
    BY <1>1, <1>2, Zenon
<1> QED
    BY <1>3, Zenon DEF Moved

RegLater == pd.ss_block \in Nat /\ pd'.ss_block \in Nat /\ pd.ss_block <= pd'.ss_block

\* A change of a clock script keeps its attributes in their types, the block in the past;
\* a block starts no earlier than the one before.
LEMMA RegKept ==
    ASSUME NEW items, RegPd(items), Ss \in Nat, Ss' = Ss + Width, Width = 8,
           RegChange(items)
    PROVE  RegPd(items)' /\ RegLater
<1> DEFINE A == RegAttributes(items)
<1>0. Ss \in Nat
    OBVIOUS
<1>1. pd \in A /\ pd.ss_block \in Nat /\ pd.ss_block <= Ss
    BY DEF RegPd, RegAttributes
<1> HIDE DEF Ss, Width
<1>2. ASSUME pd' \in A, pd'.ss_block \in {pd.ss_block, Ss}
      PROVE  RegPd(items)' /\ RegLater
  <2>1. pd'.ss_block <= Ss'
    <3>1. CASE pd'.ss_block = pd.ss_block
        BY <1>1, <3>1
    <3>2. CASE pd'.ss_block = Ss
        BY <1>1, <3>2
    <3> QED
        BY <1>2, <3>1, <3>2, Zenon
  <2>2. RegLater
    <3>1. pd.ss_block <= pd.ss_block
        BY <1>1
    <3> QED
        BY <1>1, <1>2, <3>1, <1>0, Zenon DEF RegLater
  <2> QED
      BY <1>2, <2>1, <2>2, Zenon DEF RegPd
<1>3. CASE pd' = pd
    BY <1>1, <1>2, <1>3, Zenon
<1>4. ASSUME NEW s \in RegStates, pd' = [pd EXCEPT !.state = s]
      PROVE  RegPd(items)' /\ RegLater
  <2>1. pd' \in A /\ pd'.ss_block = pd.ss_block
      BY <1>1, <1>4 DEF RegAttributes
  <2> QED
      BY <1>2, <2>1, Zenon
<1>5. ASSUME NEW s \in RegStates, pd' = [pd EXCEPT !.state = s, !.ss_block = Ss]
      PROVE  RegPd(items)' /\ RegLater
  <2> DEFINE f == [pd EXCEPT !.state = s]
  <2>1. f \in A
      BY <1>1 DEF RegAttributes
  <2>2. pd' = [f EXCEPT !.ss_block = Ss]
      BY <1>5, Zenon
  <2> HIDE DEF f
  <2>3. pd' \in A /\ pd'.ss_block = Ss
      BY <2>1, <2>2 DEF RegAttributes
  <2> QED
      BY <1>2, <2>3, Zenon
<1>6. ASSUME NEW s \in RegStates, NEW v \in Int, pd' = [pd EXCEPT !.state = s, !.reg = v]
      PROVE  RegPd(items)' /\ RegLater
  <2> DEFINE f == [pd EXCEPT !.state = s]
  <2>1. f \in A /\ f.ss_block = pd.ss_block
      BY <1>1 DEF RegAttributes
  <2>2. pd' = [f EXCEPT !.reg = v]
      BY <1>6, Zenon
  <2> HIDE DEF f
  <2>3. pd' \in A /\ pd'.ss_block = pd.ss_block
      BY <2>1, <2>2 DEF RegAttributes
  <2> QED
      BY <1>2, <2>3, Zenon
<1>7. ASSUME NEW v \in Int, NEW t \in [items -> Int], pd' = [pd EXCEPT !.reg = v, !.time = t]
      PROVE  RegPd(items)' /\ RegLater
  <2> DEFINE f == [pd EXCEPT !.reg = v]
  <2>1. f \in A /\ f.ss_block = pd.ss_block
      BY <1>1 DEF RegAttributes
  <2>2. pd' = [f EXCEPT !.time = t]
      BY <1>7, Zenon
  <2> HIDE DEF f
  <2>3. pd' \in A /\ pd'.ss_block = pd.ss_block
      BY <2>1, <2>2 DEF RegAttributes
  <2> QED
      BY <1>2, <2>3, Zenon
<1> QED
    BY <1>3, <1>4, <1>5, <1>6, <1>7, Zenon DEF RegChange

\* decode() of rtc8564 changes no more than state, block, register and times.
LEMMA Rtc8564Kept ==
    ASSUME count \in Nat, RegPd(RtcTime), NEW q \in I2CInputs("rtc8564"), Rtc8564(q)
    PROVE  RegPd(RtcTime)' /\ RegLater
<1>1. Ss \in Nat /\ Ss' = Ss + Width /\ Width = 8
    BY I2CHanded DEF Rtc8564
<1> DEFINE t == [r \in RtcTime |-> IF r = pd.reg THEN Ss ELSE pd.time[r]]
           bytes == Bytes["rtc8564"]
<1>2. \/ pd' = pd
      \/ pd' = [pd EXCEPT !.state = "IDLE"]
      \/ Moves(q) # {} /\ pd' = Moved(q)
      \/ Selects(q) /\ pd' = [pd EXCEPT !.state = "WRITE REGS", !.reg = q.v]
      \/ pd' = [pd EXCEPT !.reg = pd.reg + 1, !.time = t]
    BY Zenon DEF Rtc8564, Return, Become, Goto, Ignore, Fail
<1>3. Selects(q) => q.v \in bytes
    BY I2CInput, Zenon DEF Selects, IsData
<1>4. \A b \in bytes : b \in Int
  <2>1. bytes \subseteq 0..255
      BY I2CBytes, Zenon
  <2> HIDE DEF bytes
  <2> QED
      BY <2>1
<1> HIDE DEF Ss, Width, bytes
<1>5. Selects(q) => q.v \in Int
    BY <1>3, <1>4, Zenon
<1>6. pd.reg + 1 \in Int
    BY DEF RegPd, RegAttributes
<1>7. t \in [RtcTime -> Int]
  <2>1. pd.time \in [RtcTime -> Int] /\ Ss \in Int
      BY <1>1 DEF RegPd, RegAttributes
  <2> QED
      BY <2>1
<1>8. "IDLE" \in RegStates /\ "WRITE REGS" \in RegStates
    BY DEF RegStates
<1> HIDE DEF t
<1>9. RegChange(RtcTime)
    BY <1>2, <1>5, <1>6, <1>7, <1>8, MovedTo, Zenon DEF RegChange
<1> QED
    BY <1>1, <1>9, RegKept, Zenon

\* decode() of ds1307 changes no more than state, block, register and times.
LEMMA Ds1307Kept ==
    ASSUME count \in Nat, RegPd(DsTime), NEW q \in I2CInputs("ds1307"), Ds1307(q)
    PROVE  RegPd(DsTime)' /\ RegLater
<1>1. Ss \in Nat /\ Ss' = Ss + Width /\ Width = 8
    BY I2CHanded DEF Ds1307
<1> DEFINE t == [r \in DsTime |-> IF r = pd.reg THEN Ss ELSE pd.time[r]]
           next == IF pd.reg + 1 > \h3f THEN 0 ELSE pd.reg + 1
           bytes == Bytes["ds1307"]
<1>2. \/ pd' = pd
      \/ pd' = [pd EXCEPT !.state = "IDLE"]
      \/ Moves(q) # {} /\ pd' = Moved(q)
      \/ Selects(q) /\ pd' = [pd EXCEPT !.state = "WRITE REGS", !.reg = q.v]
      \/ pd' = [pd EXCEPT !.reg = next, !.time = t]
    BY Zenon DEF Ds1307, Return, Become, Goto, Ignore
<1>3. Selects(q) => q.v \in bytes
    BY I2CInput, Zenon DEF Selects, IsData
<1>4. \A b \in bytes : b \in Int
  <2>1. bytes \subseteq 0..255
      BY I2CBytes, Zenon
  <2> HIDE DEF bytes
  <2> QED
      BY <2>1
<1> HIDE DEF Ss, Width, bytes
<1>5. Selects(q) => q.v \in Int
    BY <1>3, <1>4, Zenon
<1>6. next \in Int
    BY DEF RegPd, RegAttributes
<1>7. t \in [DsTime -> Int]
  <2>1. pd.time \in [DsTime -> Int] /\ Ss \in Int
      BY <1>1 DEF RegPd, RegAttributes
  <2> QED
      BY <2>1
<1>8. "IDLE" \in RegStates /\ "WRITE REGS" \in RegStates
    BY DEF RegStates
<1> HIDE DEF t, next
<1>9. RegChange(DsTime)
    BY <1>2, <1>5, <1>6, <1>7, <1>8, MovedTo, Zenon DEF RegChange
<1> QED
    BY <1>1, <1>9, RegKept, Zenon

\* decode() of rtc8564: the bits of a register are put in fields that lie apart.
LEMMA Rtc8564Puts ==
    ASSUME count \in Nat, RegPd(RtcTime), NEW q \in I2CInputs("rtc8564"), Rtc8564(q)
    PROVE  Fine("rtc8564", Rtc8564Rows)'
<1>1. count' = count + 1
    BY I2CHanded DEF Rtc8564
<1> DEFINE Fit == Fits("rtc8564", Rtc8564Rows, count + 1)
           c == Byte("regs", q)
           bits == RtcPuts(pd.reg)
<1>2. \/ put' = <<>>
      \/ put' = <<RtcBlock(q)>>
      \/ Accesses(q) /\ put' = <<c>>
      \/ Accesses(q) /\ put' = <<c>> \o bits
    BY Zenon DEF Rtc8564, Return, Become, Goto, Ignore, Fail, Show
<1>3. {"bits", "regs", "date-time"} \subseteq Rtc8564Rows
    BY DEF Rtc8564Rows
<1>4. RtcBlock(q) \in Fit
  <2>1. <<"rtc8564", "date-time">> \in OutOfPlace
      BY Zenon DEF OutOfPlace
  <2>2. pd.ss_block \in Nat /\ pd.ss_block <= Ss /\ {pd.time[r] : r \in RtcTime \ {6}} \in SUBSET Int
      BY DEF RegPd, RegAttributes
  <2> HIDE DEF Ss
  <2> QED
      BY <1>3, <2>1, <2>2, FitBlock DEF RtcBlock
<1>5. Accesses(q) => c \in Fit /\ c.row = "regs"
  <2>1. Accesses(q) => q.cmd \notin Instants
      BY PacketEnds, Zenon DEF Accesses, IsData
  <2> QED
      BY <1>3, <2>1, FitByte DEF Byte, P
<1>6. /\ bits \in Seq(Fit) /\ Disjoint("rtc8564", bits)
      /\ \A i \in DOMAIN bits : bits[i].row = "bits"
  <2>1. CASE pd.reg \in {1, 8}
    <3> DEFINE b == P("bits", Ss, Ss + Width, {Ss})
    <3>1. Ss \in Nat /\ Ss + Width \in Nat /\ Width = 8 /\ count + 1 \in Nat
        BY DEF Ss, Width
    <3>2. Ss + Width <= Width * (count + 1)
        BY DEF Ss, Width
    <3> HIDE DEF Ss, Width
    <3>3. b \in Fit
        BY <1>3, <3>1, <3>2, FitP
    <3>4. b.row = "bits"
        BY DEF P
    <3>5. bits = <<b>>
      <4>1. pd.reg \notin 2..7
          BY <2>1
      <4> QED
          BY <2>1, <4>1, Zenon DEF RtcPuts
    <3> HIDE DEF b, bits, Fit
    <3> QED
        BY <3>3, <3>4, <3>5, FineOne
  <2>2. CASE pd.reg \in 2..7
    <3> DEFINE top == RtcTop[pd.reg]
               n == 7 - top
               hi == [i \in 1..n |-> 8 - i]
               s == [i \in 1..n |-> Bits("bits", Ss, 8 - i, 8 - i)]
               b == Bits("bits", Ss, top, 0)
    <3>1. top \in 2..7
        BY <2>2 DEF RtcTop
    <3>2. bits = s \o <<b>>
      <4>1. pd.reg \notin {1, 8}
          BY <2>2
      <4> QED
          BY <2>2, <4>1, Zenon DEF RtcPuts
    <3> HIDE DEF top
    <3>3. n \in Nat /\ hi \in [1..n -> 0..7] /\ \A i, j \in 1..n : i < j => hi[j] < hi[i]
        BY <3>1
    <3>4. s \in Seq(Fit) /\ Disjoint("rtc8564", s)
      <4> DEFINE r == [i \in 1..n |-> Bits("bits", Ss, hi[i], hi[i])]
      <4>1. \A i \in 1..n : hi[i] \in 0..7 /\ hi[i] <= hi[i]
          BY <3>3
      <4>2. r = s
          OBVIOUS
      <4> HIDE DEF n, hi
      <4>3. r \in Seq(Fit) /\ Disjoint("rtc8564", r)
          BY <1>3, <3>3, <4>1, BitRun
      <4> QED
          BY <4>2, <4>3, Zenon
    <3>5. Ss \in Nat /\ Ss + Width <= Width * (count + 1) /\ count + 1 \in Nat
        BY DEF Ss, Width
    <3>6. b \in Fit
        BY <1>3, <3>1, <3>5, FitBits
    <3>7. \A i \in 1..n : s[i].es <= b.ss /\ s[i].row = "bits"
        BY <3>1, <3>5 DEF Bits, BitSs, P
    <3>8. b.row = "bits"
        BY DEF Bits, P
    <3>9. DOMAIN s = 1..n
        OBVIOUS
    <3> HIDE DEF s, b, n, Fit, bits
    <3>10. <<b>> \in Seq(Fit) /\ Disjoint("rtc8564", <<b>>)
        BY <3>6, FineOne
    <3>11. bits \in Seq(Fit) /\ Disjoint("rtc8564", bits)
      <4>1. \A i \in DOMAIN s, j \in DOMAIN <<b>> : s[i].es <= <<b>>[j].ss
          BY <3>7, <3>9
      <4> QED
          BY <3>2, <3>4, <3>10, <4>1, FineJoin
    <3>12. \A i \in DOMAIN bits : bits[i] = b \/ (i \in DOMAIN s /\ bits[i] = s[i])
        BY <3>2, <3>4, <3>10
    <3> QED
        BY <3>7, <3>8, <3>9, <3>11, <3>12
  <2>3. CASE pd.reg \notin {1, 8} /\ pd.reg \notin 2..7
    <3>1. bits = <<>>
        BY <2>3, Zenon DEF RtcPuts
    <3> QED
        BY <3>1, FineNone
  <2> QED
      BY <2>1, <2>2, <2>3
<1> HIDE DEF c, bits, Fit
<1>7. Accesses(q) => <<c>> \o bits \in Seq(Fit) /\ Disjoint("rtc8564", <<c>> \o bits)
  <2>1. ASSUME Accesses(q)
        PROVE  <<c>> \in Seq(Fit) /\ Disjoint("rtc8564", <<c>>)
      BY <1>5, <2>1, FineOne
  <2>2. ASSUME Accesses(q)
        PROVE  \A i \in DOMAIN <<c>>, j \in DOMAIN bits : <<c>>[i].row # bits[j].row
      BY <1>5, <1>6, <2>2
  <2> QED
      BY <1>6, <2>1, <2>2, FineJoin
<1> QED
    BY <1>1, <1>2, <1>4, <1>5, <1>7, FinePut, Zenon DEF Fit

\* The fields of a byte are apart.
Table(fields, n) ==
    /\ DOMAIN fields = 1..n
    /\ \A i \in 1..n : fields[i][1] \in 0..7 /\ fields[i][2] \in 0..7 /\ fields[i][2] <= fields[i][1]
    /\ \A i, j \in 1..n : i < j => fields[i][1] < fields[j][2] \/ fields[j][1] < fields[i][2]

\* The fields ds1307 puts of a register are apart.
LEMMA DsTables ==
    ASSUME NEW r, NEW b
    PROVE  \E n \in Nat : Table(DsFields(r, b), n)
<1> DEFINE t1 == <<<<7, 7>>, <<6, 0>>>>
           t2 == <<<<7, 7>>, <<6, 6>>, <<5, 5>>, <<4, 0>>>>
           t3 == <<<<7, 7>>, <<6, 6>>, <<5, 0>>>>
           t4 == <<<<7, 7>>, <<6, 6>>, <<5, 5>>, <<4, 4>>, <<3, 3>>, <<2, 0>>>>
           t5 == <<<<6, 6>>, <<5, 5>>, <<3, 3>>, <<2, 2>>, <<7, 7>>, <<4, 4>>, <<1, 0>>>>
           t6 == <<<<7, 0>>>>
<1>1. /\ 0 # 2 /\ 1 # 2 /\ 3 \notin {0, 1, 2} /\ 4 \notin {0, 1, 2, 3} /\ 5 \notin {0, 1, 2, 3, 4}
      /\ 7 \notin {0, 1, 2, 3, 4, 5}
    OBVIOUS
<1>2. DsFields(r, b) \in {t1, t2, t3, t4, t5, t6}
    BY <1>1, ZenonT(60) DEF DsFields
<1>3. Table(t1, 2)
    BY DEF Table
<1>4. Table(t2, 4)
    BY DEF Table
<1>5. Table(t3, 3)
    BY DEF Table
<1>6. Table(t4, 6)
    BY DEF Table
<1>7. Table(t5, 7)
    BY DEF Table
<1>8. Table(t6, 1)
    BY DEF Table
<1>9. 1 \in Nat /\ 2 \in Nat /\ 3 \in Nat /\ 4 \in Nat /\ 6 \in Nat /\ 7 \in Nat
    OBVIOUS
<1> HIDE DEF t1, t2, t3, t4, t5, t6
<1> QED
    BY <1>2, <1>3, <1>4, <1>5, <1>6, <1>7, <1>8, <1>9, Zenon

\* decode() of ds1307: the bits of a register are put in fields that lie apart.
LEMMA Ds1307Puts ==
    ASSUME count \in Nat, RegPd(DsTime), NEW q \in I2CInputs("ds1307"), Ds1307(q)
    PROVE  Fine("ds1307", Ds1307Rows)'
<1>1. count' = count + 1
    BY I2CHanded DEF Ds1307
<1> DEFINE Fit == Fits("ds1307", Ds1307Rows, count + 1)
           F == DsFields(pd.reg, q.v)
           c == Bits("regs", Ss, 7, 0)
           bits == [i \in DOMAIN F |-> Bits("bits", Ss, F[i][1], F[i][2])]
<1>2. \/ put' = <<>>
      \/ put' = DsWarning(q)
      \/ put' = <<DsBlock(q)>>
      \/ put' = <<c>> \o bits
    BY Zenon DEF Ds1307, Return, Become, Goto, Ignore, Show, DsPuts
<1>3. {"bits", "regs", "date_time", "warnings"} \subseteq Ds1307Rows
    BY DEF Ds1307Rows
<1>4. pd.ss_block \in Nat /\ pd.ss_block <= Ss /\ {pd.time[r] : r \in DsTime} \in SUBSET Int
  <2> HIDE DEF Ss
  <2> QED
      BY DEF RegPd, RegAttributes
<1>5. DsBlock(q) \in Fit
  <2>1. <<"ds1307", "date_time">> \in OutOfPlace
      BY Zenon DEF OutOfPlace
  <2> HIDE DEF Ss
  <2> QED
      BY <1>3, <1>4, <2>1, FitBlock DEF DsBlock
<1>6. P("warnings", pd.ss_block, Es(q), {}) \in Fit
  <2> HIDE DEF Ss
  <2> QED
      BY <1>3, <1>4, FitBlock
<1>7. Ss \in Nat /\ Ss + Width <= Width * (count + 1) /\ count + 1 \in Nat
    BY DEF Ss, Width
<1> HIDE DEF Ss, Width
<1>8. c \in Fit /\ c.row = "regs"
  <2>1. c \in Fit
      BY <1>3, <1>7, FitBits
  <2>2. c.row = "regs"
      BY Zenon DEF Bits, P
  <2> QED
      BY <2>1, <2>2
<1>9. /\ bits \in Seq(Fit) /\ Disjoint("ds1307", bits)
      /\ \A i \in DOMAIN bits : bits[i].row = "bits"
  <2>1. PICK n \in Nat : Table(F, n)
      BY DsTables
  <2> DEFINE hi == [i \in 1..n |-> F[i][1]]
             lo == [i \in 1..n |-> F[i][2]]
             r == [i \in 1..n |-> Bits("bits", Ss, hi[i], lo[i])]
  <2> HIDE DEF F
  <2>2. bits = r
      BY <2>1 DEF Table
  <2>3. /\ hi \in [1..n -> 0..7] /\ lo \in [1..n -> 0..7]
        /\ \A i \in 1..n : lo[i] <= hi[i]
        /\ \A i, j \in 1..n : i < j => hi[i] < lo[j] \/ hi[j] < lo[i]
      BY <2>1 DEF Table
  <2>4. \A i \in DOMAIN r : r[i].row = "bits"
      BY DEF Bits, P
  <2> HIDE DEF hi, lo, bits
  <2>5. r \in Seq(Fit) /\ Disjoint("ds1307", r)
      BY <1>3, <2>3, BitRun
  <2> HIDE DEF r
  <2> QED
      BY <2>2, <2>4, <2>5, Zenon
<1> HIDE DEF c, bits, Fit
<1>10. <<c>> \o bits \in Seq(Fit) /\ Disjoint("ds1307", <<c>> \o bits)
  <2>1. <<c>> \in Seq(Fit) /\ Disjoint("ds1307", <<c>>)
      BY <1>8, FineOne
  <2>2. \A i \in DOMAIN <<c>>, j \in DOMAIN bits : <<c>>[i].row # bits[j].row
      BY <1>8, <1>9
  <2> QED
      BY <1>9, <2>1, <2>2, FineJoin
<1>11. \/ put' = <<>>
       \/ \E a \in Fit : put' = <<a>>
       \/ put' \in Seq(Fit) /\ Disjoint("ds1307", put')
    BY <1>2, <1>5, <1>6, <1>10, Zenon DEF DsWarning
<1> QED
    BY <1>1, <1>11, FinePut, Zenon DEF Fit

-----------------------------------------------------------------------------
(* i2cfilter, i2cdemux: the packets of the current transfer, in order.     *)

Transfers == Seq(Nat \X Nat)
Ordered(packets, now) ==
    /\ \A i \in DOMAIN packets : packets[i][1] <= packets[i][2] /\ packets[i][2] <= now
    /\ \A i, j \in DOMAIN packets : i < j => packets[i][2] <= packets[j][1]

\* The next packet starts where the last one ended or later.
LEMMA OrderedNext ==
    ASSUME NEW packets \in Transfers, NEW now \in Nat, NEW e \in Nat,
           Ordered(packets, now), now <= e, e <= now + Width
    PROVE  LET more == Append(packets, <<now, e>>)
           IN more \in Transfers /\ Ordered(more, e) /\ Ordered(more, now + Width)
<1> DEFINE p == <<now, e>> more == Append(packets, p)
<1>1. Width = 8
    BY DEF Width
<1>2. p \in Nat \X Nat /\ p[1] = now /\ p[2] = e
    OBVIOUS
<1> HIDE DEF p, Width
<1>3. /\ more \in Transfers /\ DOMAIN packets = 1..Len(packets) /\ Len(packets) \in Nat
      /\ DOMAIN more = 1..(Len(packets) + 1)
      /\ \A i \in DOMAIN packets : more[i] = packets[i]
      /\ more[Len(packets) + 1] = p
    BY <1>2 DEF Transfers
<1>4. \A i \in DOMAIN packets : packets[i] \in Nat \X Nat
    BY DEF Transfers
<1>5. \A i \in DOMAIN packets : packets[i][1] \in Nat /\ packets[i][2] \in Nat
    BY <1>4
<1> HIDE DEF more
<1>6. ASSUME NEW i \in DOMAIN more
      PROVE  more[i][1] <= more[i][2] /\ more[i][2] <= e /\ more[i][1] \in Nat /\ more[i][2] \in Nat
  <2>1. CASE i \in DOMAIN packets
    <3>1. more[i] = packets[i]
        BY <1>3, <2>1
    <3> QED
        BY <1>5, <2>1, <3>1 DEF Ordered
  <2>2. CASE i = Len(packets) + 1
      BY <1>2, <1>3, <2>2
  <2> QED
      BY <1>3, <2>1, <2>2
<1>7. ASSUME NEW i \in DOMAIN more, NEW j \in DOMAIN more, i < j
      PROVE  more[i][2] <= more[j][1]
  <2>1. i \in DOMAIN packets /\ more[i] = packets[i]
      BY <1>3, <1>7
  <2>2. CASE j \in DOMAIN packets
    <3>1. more[j] = packets[j]
        BY <1>3, <2>2
    <3> QED
        BY <1>7, <2>1, <2>2, <3>1 DEF Ordered
  <2>3. CASE j = Len(packets) + 1
    <3>1. more[j][1] = now
        BY <1>2, <1>3, <2>3
    <3> QED
        BY <2>1, <3>1 DEF Ordered
  <2> QED
      BY <1>3, <2>2, <2>3
<1>8. Ordered(more, e)
    BY <1>6, <1>7 DEF Ordered
<1>9. Ordered(more, now + Width)
  <2>1. \A i \in DOMAIN more : more[i][2] <= now + Width
      BY <1>1, <1>6
  <2> QED
      BY <1>6, <1>7, <2>1 DEF Ordered
<1> QED
    BY <1>3, <1>8, <1>9 DEF more, p

\* What is passed on lies in the past, and apart.
LEMMA PassedFine ==
    ASSUME NEW name, NEW rows, NEW row \in rows, NEW n \in Nat, NEW packets \in Transfers,
           Ordered(packets, Width * n)
    PROVE  Passed(row, packets) \in Seq(Fits(name, rows, n)) /\ Disjoint(name, Passed(row, packets))
<1> DEFINE s == Passed(row, packets)
<1>1. \A i \in DOMAIN packets : packets[i] \in Nat \X Nat
    BY DEF Transfers
<1>2. \A i \in DOMAIN packets : packets[i][1] \in Nat /\ packets[i][2] \in Nat
    BY <1>1
<1>3. ASSUME NEW i \in DOMAIN packets
      PROVE  P(row, packets[i][1], packets[i][2], {}) \in Fits(name, rows, n)
  <2>1. packets[i][1] \in Nat /\ packets[i][2] \in Nat
      BY <1>2
  <2>2. packets[i][1] <= packets[i][2] /\ packets[i][2] <= Width * n
      BY DEF Ordered
  <2> QED
      BY <2>1, <2>2, FitP
<1>4. DOMAIN packets = 1..Len(packets) /\ Len(packets) \in Nat
    BY DEF Transfers
<1>5. s \in Seq(Fits(name, rows, n))
    BY <1>3, <1>4 DEF Passed
<1>6. \A i \in DOMAIN packets : /\ P(row, packets[i][1], packets[i][2], {}).ss = packets[i][1]
                               /\ P(row, packets[i][1], packets[i][2], {}).es = packets[i][2]
    BY DEF P
<1>7. /\ DOMAIN s = DOMAIN packets
      /\ \A i \in DOMAIN packets : s[i].ss = packets[i][1] /\ s[i].es = packets[i][2]
    BY <1>6, Zenon DEF Passed
<1> HIDE DEF s
<1>8. ASSUME NEW i \in DOMAIN s, NEW j \in DOMAIN s, i < j
      PROVE  s[i].es <= s[j].ss
    BY <1>7, <1>8 DEF Ordered
<1>9. Disjoint(name, s)
    BY <1>8 DEF Disjoint
<1> QED
    BY <1>5, <1>9 DEF s

\* Between two transfers there are no packets to pass on.
I2cFilterPd ==
    /\ DOMAIN pd = {"curslave", "curdirection", "packets"}
    /\ pd.packets \in Transfers /\ Ordered(pd.packets, Ss)
    /\ line = "idle" => pd.packets = <<>>

LEMMA I2cFilterKept ==
    ASSUME count \in Nat, I2cFilterPd, NEW q, I2cFilter(q)
    PROVE  I2cFilterPd' /\ Fine("i2cfilter", {"i2c"})'
<1> DEFINE more == Append(pd.packets, <<Ss, Es(q)>>)
<1>1. /\ count' = count + 1 /\ line' = I2CLeads(line, q.cmd) /\ q.cmd \in I2CFollows[line]
      /\ Ss \in Nat /\ Ss' = Ss + Width /\ Width = 8
    BY I2CHanded DEF I2cFilter
<1>2. Ss + Width = Width * (count + 1)
    BY I2CHanded DEF I2cFilter
<1>3. Es(q) = Ss \/ Es(q) = Ss + Width
    BY PacketEnds, Zenon
<1>4. \/ /\ \E v, d : pd' = [pd EXCEPT !.packets = more, !.curslave = v, !.curdirection = d]
         /\ put' = <<>> /\ q.cmd \notin {"STOP"}
      \/ pd' = [pd EXCEPT !.packets = <<>>] /\ put' \in {<<>>, Passed("i2c", more)}
      \/ pd' = [pd EXCEPT !.packets = more] /\ put' = <<>> /\ q.cmd \notin {"STOP"}
    BY Zenon DEF I2cFilter, Return, Become, Show, IsAddress
<1> HIDE DEF Ss, Es, Width
<1>5. more \in Transfers /\ Ordered(more, Ss + Width)
    BY <1>1, <1>3, OrderedNext DEF I2cFilterPd
<1>6. q.cmd \notin {"STOP"} => line' # "idle"
  <2>1. \/ line' = "idle" /\ q.cmd = "STOP"
        \/ line' \in {"address", "rack", "wack", "read", "write"}
      BY <1>1, Zenon DEF I2CLeads
  <2> QED
      BY <2>1
<1> HIDE DEF more
<1>7. I2cFilterPd'
  <2>1. ASSUME NEW v, NEW d,
               pd' = [pd EXCEPT !.packets = more, !.curslave = v, !.curdirection = d],
               q.cmd \notin {"STOP"}
        PROVE  I2cFilterPd'
    <3>1. DOMAIN pd' = DOMAIN pd /\ pd'.packets = more
        BY <2>1 DEF I2cFilterPd
    <3> QED
        BY <1>1, <1>5, <1>6, <2>1, <3>1 DEF I2cFilterPd
  <2>2. CASE pd' = [pd EXCEPT !.packets = <<>>]
    <3> DEFINE none == <<>>
    <3>1. none \in Transfers /\ \A n : Ordered(none, n)
        BY DEF Transfers, Ordered
    <3>2. pd' = [pd EXCEPT !.packets = none] /\ none = <<>>
        BY <2>2
    <3> HIDE DEF none
    <3>3. DOMAIN pd' = DOMAIN pd /\ pd'.packets = none
        BY <3>2 DEF I2cFilterPd
    <3> QED
        BY <3>1, <3>2, <3>3, Zenon DEF I2cFilterPd
  <2>3. CASE pd' = [pd EXCEPT !.packets = more] /\ q.cmd \notin {"STOP"}
    <3>1. DOMAIN pd' = DOMAIN pd /\ pd'.packets = more
        BY <2>3 DEF I2cFilterPd
    <3> QED
        BY <1>1, <1>5, <1>6, <2>3, <3>1 DEF I2cFilterPd
  <2> QED
      BY <1>4, <2>1, <2>2, <2>3, Zenon
<1>8. Fine("i2cfilter", {"i2c"})'
  <2>1. count + 1 \in Nat
      OBVIOUS
  <2>2. /\ Passed("i2c", more) \in Seq(Fits("i2cfilter", {"i2c"}, count + 1))
        /\ Disjoint("i2cfilter", Passed("i2c", more))
      BY <1>2, <1>5, <2>1, PassedFine, "i2c" \in {"i2c"}, Zenon
  <2> QED
      BY <1>1, <1>4, <2>2, FinePut, Zenon
<1> QED
    BY <1>7, <1>8

\* The slave addressed last has a stream; between two transfers none is chosen.
DemuxSlaves == Slaves["i2cdemux"]
I2cDemuxRows == {ToString(a) : a \in DemuxSlaves}
I2cDemuxPd ==
    /\ pd \in [packets : Transfers, slaves : Seq(DemuxSlaves), stream : Int]
    /\ pd.stream = -1 \/ pd.stream + 1 \in DOMAIN pd.slaves
    /\ Ordered(pd.packets, Ss)
    /\ line = "idle" /\ outcome = "returned" => pd.packets = <<>> /\ pd.stream = -1

LEMMA I2cDemuxKept ==
    ASSUME count \in Nat, I2cDemuxPd, NEW q \in I2CInputs("i2cdemux"), I2cDemux(q)
    PROVE  I2cDemuxPd' /\ Fine("i2cdemux", I2cDemuxRows)'
<1> DEFINE more == Append(pd.packets, <<Ss, Es(q)>>)
           slaves == IF q.v \in ToSet(pd.slaves) THEN pd.slaves ELSE Append(pd.slaves, q.v)
           stream == (CHOOSE i \in DOMAIN slaves : slaves[i] = q.v) - 1
           of == ToString(pd.slaves[pd.stream + 1])
<1>1. /\ count' = count + 1 /\ line' = I2CLeads(line, q.cmd) /\ q.cmd \in I2CFollows[line]
      /\ Ss \in Nat /\ Ss' = Ss + Width /\ Width = 8
    BY I2CHanded DEF I2cDemux
<1>2. Ss + Width = Width * (count + 1)
    BY I2CHanded DEF I2cDemux
<1>3. Es(q) = Ss \/ Es(q) = Ss + Width
    BY PacketEnds, Zenon
<1>4. \/ /\ IsAddress(q) /\ q.cmd # "STOP"
         /\ pd' = [packets |-> more, slaves |-> slaves, stream |-> stream] /\ put' = <<>>
      \/ pd' = pd /\ outcome' = "raised" /\ put' = <<>>
      \/ /\ pd.stream # -1 /\ put' = Passed(of, more)
         /\ pd' = [pd EXCEPT !.packets = <<>>, !.stream = -1]
      \/ /\ q.cmd # "STOP" /\ pd' = [pd EXCEPT !.packets = more] /\ put' = <<>>
    BY Zenon DEF I2cDemux, Return, Become, Fail, Show, IsAddress
<1>5. IsAddress(q) => q.v \in DemuxSlaves
    BY I2CInput, Zenon DEF DemuxSlaves
<1>6. q.cmd # "STOP" => line' # "idle"
  <2>1. \/ line' = "idle" /\ q.cmd = "STOP"
        \/ line' \in {"address", "rack", "wack", "read", "write"}
      BY <1>1, Zenon DEF I2CLeads
  <2> QED
      BY <2>1
<1> HIDE DEF Ss, Es, Width
<1>7. more \in Transfers /\ Ordered(more, Ss + Width)
    BY <1>1, <1>3, OrderedNext DEF I2cDemuxPd
<1>8. ASSUME q.v \in DemuxSlaves
      PROVE  slaves \in Seq(DemuxSlaves) /\ stream \in Int /\ stream + 1 \in DOMAIN slaves
  <2>1. pd.slaves \in Seq(DemuxSlaves)
      BY DEF I2cDemuxPd
  <2>2. slaves \in Seq(DemuxSlaves) /\ \E i \in DOMAIN slaves : slaves[i] = q.v
    <3>1. CASE q.v \in ToSet(pd.slaves)
        BY <2>1, <3>1 DEF ToSet
    <3>2. CASE q.v \notin ToSet(pd.slaves)
      <4>1. slaves = Append(pd.slaves, q.v)
          BY <3>2
      <4>2. /\ Append(pd.slaves, q.v) \in Seq(DemuxSlaves)
            /\ Len(pd.slaves) + 1 \in DOMAIN Append(pd.slaves, q.v)
            /\ Append(pd.slaves, q.v)[Len(pd.slaves) + 1] = q.v
          BY <1>8, <2>1
      <4> QED
          BY <4>1, <4>2
    <3> QED
        BY <3>1, <3>2
  <2> HIDE DEF slaves
  <2>3. stream + 1 \in DOMAIN slaves /\ stream \in Int
    <3> DEFINE i == CHOOSE i \in DOMAIN slaves : slaves[i] = q.v
    <3>1. i \in DOMAIN slaves
        BY <2>2
    <3> HIDE DEF i
    <3>2. i \in Int /\ (i - 1) + 1 = i
        BY <2>2, <3>1
    <3> QED
        BY <3>1, <3>2 DEF i
  <2> QED
      BY <2>2, <2>3
<1> HIDE DEF more, slaves, stream
<1>9. I2cDemuxPd'
  <2>1. CASE /\ IsAddress(q) /\ q.cmd # "STOP"
             /\ pd' = [packets |-> more, slaves |-> slaves, stream |-> stream]
    <3>1. slaves \in Seq(DemuxSlaves) /\ stream \in Int /\ stream + 1 \in DOMAIN slaves
        BY <1>5, <1>8, <2>1
    <3> QED
        BY <1>1, <1>6, <1>7, <2>1, <3>1 DEF I2cDemuxPd
  <2>2. CASE pd' = pd /\ outcome' = "raised"
    <3>1. Ordered(pd.packets, Ss + Width)
      <4>1. pd.packets \in Transfers /\ Ordered(pd.packets, Ss)
          BY DEF I2cDemuxPd
      <4>2. \A i \in DOMAIN pd.packets : pd.packets[i] \in Nat \X Nat
          BY <4>1 DEF Transfers
      <4> QED
          BY <1>1, <4>1, <4>2 DEF Ordered
    <3> QED
        BY <1>1, <2>2, <3>1 DEF I2cDemuxPd
  <2>3. CASE pd' = [pd EXCEPT !.packets = <<>>, !.stream = -1]
    <3> DEFINE none == <<>>
    <3>1. none \in Transfers /\ \A n : Ordered(none, n)
        BY DEF Transfers, Ordered
    <3>2. pd' = [pd EXCEPT !.packets = none, !.stream = -1] /\ none = <<>>
        BY <2>3
    <3> HIDE DEF none
    <3> DEFINE f == [pd EXCEPT !.packets = none]
               A == [packets : Transfers, slaves : Seq(DemuxSlaves), stream : Int]
    <3>4. f \in A /\ f.packets = none
        BY <3>1 DEF I2cDemuxPd
    <3>5. pd' = [f EXCEPT !.stream = -1]
        BY <3>2, Zenon
    <3> HIDE DEF f
    <3>3. pd' \in A /\ pd'.packets = none /\ pd'.stream = -1
        BY <3>4, <3>5
    <3> QED
        BY <3>1, <3>2, <3>3, Zenon DEF I2cDemuxPd
  <2>4. CASE q.cmd # "STOP" /\ pd' = [pd EXCEPT !.packets = more]
      BY <1>1, <1>6, <1>7, <2>4 DEF I2cDemuxPd
  <2> QED
      BY <1>4, <2>1, <2>2, <2>3, <2>4, Zenon
<1>10. Fine("i2cdemux", I2cDemuxRows)'
  <2>1. count + 1 \in Nat
      OBVIOUS
  <2>2. ASSUME pd.stream # -1
        PROVE  /\ Passed(of, more) \in Seq(Fits("i2cdemux", I2cDemuxRows, count + 1))
               /\ Disjoint("i2cdemux", Passed(of, more))
    <3>1. pd.slaves[pd.stream + 1] \in DemuxSlaves
        BY <2>2 DEF I2cDemuxPd
    <3>2. of \in I2cDemuxRows
        BY <3>1, Zenon DEF I2cDemuxRows
    <3> QED
        BY <1>2, <1>7, <2>1, <3>2, PassedFine, Zenon
  <2> QED
      BY <1>1, <1>4, <2>2, FinePut, Zenon
<1> QED
    BY <1>9, <1>10
=============================================================================
