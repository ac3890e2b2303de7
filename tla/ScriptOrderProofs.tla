--------------------------- MODULE ScriptOrderProofs ---------------------------
(***************************************************************************)
(* The order in which twelve scripts stacked on I2C put the annotations of *)
(* a row.  The rows that span a transfer, the blocks, start at a mark that *)
(* an earlier call has set; all others start in the packet at hand.        *)
(***************************************************************************)
EXTENDS DecoderScriptsProofs

\* Nothing that was put before the sample now starts later, in a block row not after the mark.
Since(name, blocks, mark, now, started) ==
    \A r \in DOMAIN started : \A s \in started[r] :
        <<name, r>> \in OutOfOrder \/ s <= (IF r \in blocks THEN mark ELSE now)
TailType == \A r \in DOMAIN tail : \A s \in tail[r] : s \in Int

\* A block starts between the old mark and the new one.
Turn(name, blocks, mark, later, a) ==
    \/ <<name, a.row>> \in OutOfOrder
    \/ a.row \in blocks /\ mark <= a.ss /\ a.ss <= later
    \/ a.row \notin blocks /\ Ss <= a.ss /\ a.ss <= Ss + Width

\* The starts rise, where the row of the script promises it.
Rising(name, anns) ==
    \A i, j \in DOMAIN anns :
        i < j /\ anns[i].row = anns[j].row
        => <<name, anns[i].row>> \in OutOfOrder \/ anns[i].ss <= anns[j].ss
InTurn(name, blocks, mark, later, anns) ==
    /\ \A i \in DOMAIN anns : Turn(name, blocks, mark, later, anns[i])
    /\ Rising(name, anns)

-----------------------------------------------------------------------------
(* One call.                                                               *)

\* What put() has kept of the starts.
LEMMA TailOf ==
    ASSUME NEW anns, Show(anns), NEW r \in DOMAIN tail', NEW s \in tail'[r]
    PROVE  \/ \E i \in DOMAIN anns : anns[i].row = r /\ s = anns[i].ss
           \/ r \in DOMAIN tail /\ s \in tail[r]
<1> DEFINE rows == {anns[i].row : i \in DOMAIN anns}
           Starts(row) == {anns[i].ss : i \in {j \in DOMAIN anns : anns[j].row = row}}
<1>1. tail' = [x \in rows \cup DOMAIN tail |-> IF x \in rows THEN Starts(x) ELSE tail[x]]
    BY Zenon DEF Show
<1>2. CASE r \in rows
    BY <1>1, <1>2
<1>3. CASE r \notin rows
    BY <1>1, <1>3
<1> QED
    BY <1>2, <1>3

\* Annotations that are put in turn keep the order of their rows.
LEMMA OrderStep ==
    ASSUME count \in Nat, count' = count + 1, NEW name, script' = name, NEW rows, Fine(name, rows)',
           NEW blocks, NEW mark \in Int, NEW later \in Int, mark <= later,
           TailType, Since(name, blocks, mark, Ss, tail),
           Show(put'), InTurn(name, blocks, mark, later, put')
    PROVE  InOrder /\ TailType' /\ Since(name, blocks, later, Ss', tail')
<1> DEFINE S == Fits(name, rows, count')
<1>0. /\ Ss' = Ss + Width /\ put' \in Seq(S)
      /\ \A a \in S : a.ss \in Int
    BY DEF Ss, Width, Fine, Fits
<1> HIDE DEF S
<1>1. Ss \in Nat /\ Width = 8
    BY DEF Ss, Width
<1> HIDE DEF Ss, Width
<1>2. \A i \in DOMAIN put' : put'[i].ss \in Int
    BY <1>0
<1>3. DOMAIN put' = 1..Len(put') /\ Len(put') \in Nat
    BY <1>0
<1>4. InOrder
  <2> SUFFICES ASSUME NEW i \in DOMAIN put', <<name, put'[i].row>> \notin OutOfOrder
               PROVE  /\ \A j \in 1..(i - 1) : put'[j].row = put'[i].row => put'[j].ss <= put'[i].ss
                      /\ put'[i].row \in DOMAIN tail => \A s \in tail[put'[i].row] : s <= put'[i].ss
      BY Zenon DEF InOrder, Promised
  <2>1. ASSUME NEW j \in 1..(i - 1), put'[j].row = put'[i].row
        PROVE  put'[j].ss <= put'[i].ss
    <3>1. j \in DOMAIN put' /\ j < i
        BY <1>3
    <3> QED
        BY <2>1, <3>1, Zenon DEF InTurn, Rising
  <2>2. ASSUME put'[i].row \in DOMAIN tail, NEW s \in tail[put'[i].row]
        PROVE  s <= put'[i].ss
      BY <1>1, <1>2, <2>2 DEF InTurn, Turn, Since, TailType
  <2> QED
      BY <2>1, <2>2
<1>5. ASSUME NEW r \in DOMAIN tail', NEW s \in tail'[r]
      PROVE  s \in Int /\ (<<name, r>> \in OutOfOrder \/ s <= (IF r \in blocks THEN later ELSE Ss + Width))
  <2>1. CASE \E i \in DOMAIN put' : put'[i].row = r /\ s = put'[i].ss
      BY <1>2, <2>1 DEF InTurn, Turn
  <2>2. CASE r \in DOMAIN tail /\ s \in tail[r]
      BY <1>1, <2>2 DEF Since, TailType
  <2> QED
      BY <2>1, <2>2, TailOf
<1> QED
    BY <1>0, <1>4, <1>5 DEF Since, TailType

\* No annotation, one, and two in different rows or in order.
LEMMA TurnFew ==
    ASSUME NEW name, NEW blocks, NEW mark, NEW later
    PROVE  /\ InTurn(name, blocks, mark, later, <<>>)
           /\ \A a : Turn(name, blocks, mark, later, a) => InTurn(name, blocks, mark, later, <<a>>)
<1>1. InTurn(name, blocks, mark, later, <<>>)
    BY DEF InTurn, Rising
<1>2. ASSUME NEW a, Turn(name, blocks, mark, later, a)
      PROVE  InTurn(name, blocks, mark, later, <<a>>)
    BY <1>2 DEF InTurn, Rising
<1> QED
    BY <1>1, <1>2

\* What is put after one another.
LEMMA TurnJoin ==
    ASSUME NEW name, NEW blocks, NEW mark, NEW later, NEW S, NEW s \in Seq(S), NEW t \in Seq(S),
           InTurn(name, blocks, mark, later, s), InTurn(name, blocks, mark, later, t),
           \A i \in DOMAIN s, j \in DOMAIN t :
               s[i].row = t[j].row => <<name, s[i].row>> \in OutOfOrder \/ s[i].ss <= t[j].ss
    PROVE  InTurn(name, blocks, mark, later, s \o t)
<1> DEFINE u == s \o t
<1>1. /\ DOMAIN u = 1..(Len(s) + Len(t)) /\ Len(s) \in Nat /\ Len(t) \in Nat
      /\ \A i \in DOMAIN u : u[i] = IF i <= Len(s) THEN s[i] ELSE t[i - Len(s)]
      /\ DOMAIN s = 1..Len(s) /\ DOMAIN t = 1..Len(t)
    OBVIOUS
<1> HIDE DEF u
<1>2. ASSUME NEW i \in DOMAIN u
      PROVE  Turn(name, blocks, mark, later, u[i])
  <2>1. CASE i <= Len(s)
    <3>1. i \in DOMAIN s /\ u[i] = s[i]
        BY <1>1, <2>1
    <3> QED
        BY <3>1, Zenon DEF InTurn
  <2>2. CASE ~(i <= Len(s))
    <3>1. i - Len(s) \in DOMAIN t /\ u[i] = t[i - Len(s)]
        BY <1>1, <2>2
    <3> QED
        BY <3>1, Zenon DEF InTurn
  <2> QED
      BY <2>1, <2>2
<1>3. ASSUME NEW i \in DOMAIN u, NEW j \in DOMAIN u, i < j, u[i].row = u[j].row
      PROVE  <<name, u[i].row>> \in OutOfOrder \/ u[i].ss <= u[j].ss
  <2>1. CASE j <= Len(s)
    <3>1. i \in DOMAIN s /\ j \in DOMAIN s /\ u[i] = s[i] /\ u[j] = s[j]
        BY <1>1, <1>3, <2>1
    <3> QED
        BY <1>3, <3>1, Zenon DEF InTurn, Rising
  <2>2. CASE i <= Len(s) /\ ~(j <= Len(s))
    <3>1. i \in DOMAIN s /\ j - Len(s) \in DOMAIN t /\ u[i] = s[i] /\ u[j] = t[j - Len(s)]
        BY <1>1, <1>3, <2>2
    <3> QED
        BY <1>3, <3>1, Zenon
  <2>3. CASE ~(i <= Len(s))
    <3>1. /\ i - Len(s) \in DOMAIN t /\ j - Len(s) \in DOMAIN t /\ i - Len(s) < j - Len(s)
          /\ u[i] = t[i - Len(s)] /\ u[j] = t[j - Len(s)]
        BY <1>1, <1>3, <2>3
    <3> QED
        BY <1>3, <3>1, Zenon DEF InTurn, Rising
  <2> QED
      BY <2>1, <2>2, <2>3
<1> QED
    BY <1>2, <1>3, Zenon DEF InTurn, Rising, u

\* Every decode() shows what it puts.
LEMMA Shown ==
    ASSUME NEW q
    PROVE  /\ Rtc8564(q) => Show(put')
           /\ Ds1307(q) => Show(put')
           /\ Mxc6225xu(q) => Show(put')
           /\ Tca6408a(q) => Show(put')
           /\ Pca9571(q) => Show(put')
           /\ Nunchuk(q) => Show(put')
           /\ Lm75(q) => Show(put')
           /\ Mlx90614(q) => Show(put')
           /\ Hdcp(q) => Show(put')
           /\ Ltc26x7(q) => Show(put')
           /\ I2cFilter(q) => Show(put')
           /\ I2cDemux(q) => Show(put')
<1>0. ASSUME NEW anns, Show(anns)
      PROVE  Show(put')
  <2>1. put' = anns
      BY <1>0, Zenon DEF Show
  <2> QED
      BY <1>0, <2>1
<1>1. ASSUME Rtc8564(q)
      PROVE  \E anns : Show(anns)
    BY <1>1, Zenon DEF Rtc8564, Return, Become, Goto, Ignore, Fail, Hang
<1>2. ASSUME Ds1307(q)
      PROVE  \E anns : Show(anns)
    BY <1>2, Zenon DEF Ds1307, Return, Become, Goto, Ignore, Fail, Hang
<1>3. ASSUME Mxc6225xu(q)
      PROVE  \E anns : Show(anns)
    BY <1>3, Zenon DEF Mxc6225xu, Return, Become, Goto, Ignore, Fail, Hang
<1>4. ASSUME Tca6408a(q)
      PROVE  \E anns : Show(anns)
    BY <1>4, Zenon DEF Tca6408a, Return, Become, Goto, Ignore, Fail, Hang
<1>5. ASSUME Pca9571(q)
      PROVE  \E anns : Show(anns)
    BY <1>5, Zenon DEF Pca9571, Return, Become, Goto, Ignore, Fail, Hang
<1>6. ASSUME Nunchuk(q)
      PROVE  \E anns : Show(anns)
    BY <1>6, Zenon DEF Nunchuk, NunRegister, NunStop, Return, Become, Goto, Ignore, Fail, Hang
<1>7. ASSUME Lm75(q)
      PROVE  \E anns : Show(anns)
    BY <1>7, Zenon DEF Lm75, Return, Become, Goto, Ignore, Fail, Hang
<1>8. ASSUME Mlx90614(q)
      PROVE  \E anns : Show(anns)
    BY <1>8, Zenon DEF Mlx90614, Return, Become, Goto, Ignore, Fail, Hang
<1>9. ASSUME Hdcp(q)
      PROVE  \E anns : Show(anns)
    BY <1>9, Zenon DEF Hdcp, HdcpEnd, Return, Become, Goto, Ignore, Fail, Hang
<1>10. ASSUME Ltc26x7(q)
      PROVE  \E anns : Show(anns)
    BY <1>10, Zenon DEF Ltc26x7, Return, Become, Goto, Ignore, Fail, Hang
<1>11. ASSUME I2cFilter(q)
      PROVE  \E anns : Show(anns)
    BY <1>11, Zenon DEF I2cFilter, Return, Become, Goto, Ignore, Fail, Hang
<1>12. ASSUME I2cDemux(q)
      PROVE  \E anns : Show(anns)
    BY <1>12, Zenon DEF I2cDemux, Return, Become, Goto, Ignore, Fail, Hang
<1> QED
    BY <1>0, <1>1, <1>2, <1>3, <1>4, <1>5, <1>6, <1>7, <1>8, <1>9, <1>10, <1>11, <1>12, Zenon

\* Where annotations of the packet at hand start.
LEMMA StartsHere ==
    ASSUME count \in Nat, NEW q, NEW row
    PROVE  /\ Note(row, q).ss = Ss /\ Note(row, q).row = row
           /\ Byte(row, q).ss = Ss /\ Byte(row, q).row = row
           /\ \A hi \in 0..7 : \A lo : /\ Bits(row, Ss, hi, lo).row = row
                                       /\ Bits(row, Ss, hi, lo).ss = Ss + 7 - hi
<1>1. Note(row, q).ss = Ss /\ Note(row, q).row = row /\ Byte(row, q).ss = Ss /\ Byte(row, q).row = row
    BY DEF Note, Byte, P
<1>2. \A hi \in 0..7 : \A lo : Bits(row, Ss, hi, lo).row = row /\ Bits(row, Ss, hi, lo).ss = Ss + 7 - hi
    BY DEF Bits, BitSs, P
<1> QED
    BY <1>1, <1>2

LEMMA TurnHere ==
    ASSUME count \in Nat, NEW name, NEW blocks, NEW row, row \notin blocks, NEW q, NEW mark, NEW later
    PROVE  /\ Turn(name, blocks, mark, later, Note(row, q))
           /\ Turn(name, blocks, mark, later, Byte(row, q))
           /\ \A hi \in 0..7 : \A lo : Turn(name, blocks, mark, later, Bits(row, Ss, hi, lo))
<1>1. Ss \in Nat /\ Width = 8
    BY DEF Ss, Width
<1>2. /\ Note(row, q).ss = Ss /\ Note(row, q).row = row
      /\ Byte(row, q).ss = Ss /\ Byte(row, q).row = row
      /\ \A hi \in 0..7 : \A lo : Bits(row, Ss, hi, lo).row = row /\ Bits(row, Ss, hi, lo).ss = Ss + 7 - hi
    BY StartsHere
<1> HIDE DEF Ss, Width
<1>3. \A a : a.row = row /\ Ss <= a.ss /\ a.ss <= Ss + Width => Turn(name, blocks, mark, later, a)
    BY DEF Turn
<1>4. Turn(name, blocks, mark, later, Note(row, q)) /\ Turn(name, blocks, mark, later, Byte(row, q))
    BY <1>1, <1>2, <1>3
<1>5. ASSUME NEW hi \in 0..7, NEW lo
      PROVE  Turn(name, blocks, mark, later, Bits(row, Ss, hi, lo))
  <2>1. Ss <= Ss + 7 - hi /\ Ss + 7 - hi <= Ss + Width
      BY <1>1
  <2> QED
      BY <1>2, <1>3, <2>1
<1> QED
    BY <1>4, <1>5

-----------------------------------------------------------------------------
(* The scripts.                                                            *)

\* mxc6225xu and tca6408a put one annotation, at the packet at hand.
LEMMA OneOrder ==
    ASSUME count \in Nat, count' = count + 1, NEW name, script' = name, NEW rows, Fine(name, rows)', NEW q,
           TailType, Since(name, {}, Ss, Ss, tail), Show(put'),
           \/ put' = <<>>
           \/ \E row : put' \in {<<Note(row, q)>>, <<Byte(row, q)>>}
    PROVE  InOrder /\ TailType' /\ Since(name, {}, Ss', Ss', tail')
<1>1. Ss \in Int /\ Ss' \in Int /\ Ss <= Ss'
    BY DEF Ss, Width
<1>2. InTurn(name, {}, Ss, Ss', put')
    BY TurnHere, TurnFew, Zenon
<1> QED
    BY <1>1, <1>2, OrderStep, Zenon

LEMMA Mxc6225xuOrder ==
    ASSUME count \in Nat, NEW q, Mxc6225xu(q), TailType, Since("mxc6225xu", {}, Ss, Ss, tail)
    PROVE  InOrder /\ TailType' /\ Since("mxc6225xu", {}, Ss', Ss', tail')
<1>1. count' = count + 1 /\ script' = "mxc6225xu"
    BY I2CHanded DEF Mxc6225xu
<1>2. put' = <<>> \/ put' = <<Byte("mxc6225xu", q)>>
    BY Zenon DEF Mxc6225xu, Return, Become, Goto, Ignore, Fail, Show
<1>3. Show(put') /\ Fine("mxc6225xu", Mxc6225xuRows)'
    BY Shown, Mxc6225xuKept, Zenon
<1> QED
    BY <1>1, <1>2, <1>3, OneOrder, Zenon

LEMMA Tca6408aOrder ==
    ASSUME count \in Nat, NEW q, Tca6408a(q), TailType, Since("tca6408a", {}, Ss, Ss, tail)
    PROVE  InOrder /\ TailType' /\ Since("tca6408a", {}, Ss', Ss', tail')
<1>1. count' = count + 1 /\ script' = "tca6408a"
    BY I2CHanded DEF Tca6408a
<1>2. \/ put' = <<>>
      \/ put' = <<Note("warnings", q)>>
      \/ put' = <<Byte("regs", q)>>
    BY Zenon DEF Tca6408a, Return, Become, Goto, Ignore, Fail, Show
<1>3. Show(put') /\ Fine("tca6408a", Tca6408aRows)'
    BY Shown, Tca6408aKept, Zenon
<1> QED
    BY <1>1, <1>2, <1>3, OneOrder, Zenon

LEMMA Pca9571Order ==
    ASSUME count \in Nat, Pca9571Pd, NEW q, Pca9571(q), TailType, Since("pca9571", {}, Ss, Ss, tail)
    PROVE  InOrder /\ TailType' /\ Since("pca9571", {}, Ss', Ss', tail')
<1>1. count' = count + 1 /\ script' = "pca9571"
    BY I2CHanded DEF Pca9571
<1> DEFINE n == Note("warnings", q)
           b == Byte("regs", q)
<1>2. \/ put' = <<>>
      \/ put' = <<n>>
      \/ put' \in {<<n>> \o <<b>>, <<>> \o <<b>>, <<b>>}
    BY Zenon DEF Pca9571, Return, Become, Goto, Ignore, Show
<1>3. Show(put') /\ Fine("pca9571", Pca9571Rows)'
    BY Shown, Pca9571Kept, Zenon
<1>4. InTurn("pca9571", {}, Ss, Ss', put')
  <2>1. Turn("pca9571", {}, Ss, Ss', n) /\ Turn("pca9571", {}, Ss, Ss', b)
      BY TurnHere, Zenon
  <2>2. n.row # b.row
    <3>1. n.row = "warnings" /\ b.row = "regs"
        BY StartsHere, Zenon
    <3> QED
        BY <3>1
  <2> HIDE DEF n, b
  <2>3. /\ InTurn("pca9571", {}, Ss, Ss', <<>>) /\ InTurn("pca9571", {}, Ss, Ss', <<n>>)
        /\ InTurn("pca9571", {}, Ss, Ss', <<b>>)
      BY <2>1, TurnFew, Zenon
  <2>4. InTurn("pca9571", {}, Ss, Ss', <<n>> \o <<b>>)
    <3>1. <<n>> \in Seq({n, b}) /\ <<b>> \in Seq({n, b})
        OBVIOUS
    <3>2. \A i \in DOMAIN <<n>>, j \in DOMAIN <<b>> : <<n>>[i].row # <<b>>[j].row
        BY <2>2
    <3> QED
        BY <2>3, <3>1, <3>2, TurnJoin
  <2>5. <<>> \o <<b>> = <<b>>
      OBVIOUS
  <2> QED
      BY <1>2, <2>3, <2>4, <2>5, Zenon
<1>5. Ss \in Int /\ Ss' \in Int /\ Ss <= Ss'
    BY <1>1 DEF Ss, Width
<1> QED
    BY <1>1, <1>3, <1>4, <1>5, OrderStep, Zenon

\* lm75 does not promise the order of its only row.
LEMMA Lm75Order ==
    ASSUME count \in Nat, Lm75Pd, NEW q, Lm75(q), TailType, Since("lm75", {}, Ss, Ss, tail)
    PROVE  InOrder /\ TailType' /\ Since("lm75", {}, Ss', Ss', tail')
<1>1. count' = count + 1 /\ script' = "lm75"
    BY I2CHanded DEF Lm75
<1>2. Show(put') /\ Fine("lm75", Lm75Rows)'
    BY Shown, Lm75Kept, Zenon
<1>3. InTurn("lm75", {}, Ss, Ss', put')
  <2>1. <<"lm75", "lm75">> \in OutOfOrder
      BY Zenon DEF OutOfOrder
  <2>2. \A i \in DOMAIN put' : put'[i].row \in {"lm75"}
    <3> DEFINE S == Fits("lm75", Lm75Rows, count')
    <3>1. put' \in Seq(S) /\ \A a \in S : a.row \in {"lm75"}
        BY <1>2 DEF Fine, Fits, Lm75Rows
    <3> HIDE DEF S
    <3> QED
        BY <3>1
  <2> QED
      BY <2>1, <2>2 DEF InTurn, Rising, Turn
<1>4. Ss \in Int /\ Ss' \in Int /\ Ss <= Ss'
    BY <1>1 DEF Ss, Width
<1> QED
    BY <1>1, <1>2, <1>3, <1>4, OrderStep, Zenon

\* rtc8564: the date starts at the block, the bits of a register from the left to the right.
LEMMA RtcBits ==
    ASSUME count \in Nat, NEW r
    PROVE  LET bits == RtcPuts(r)
           IN /\ \E S : bits \in Seq(S)
              /\ \A i \in DOMAIN bits : bits[i].row = "bits" /\ Ss <= bits[i].ss /\ bits[i].ss <= Ss + Width
              /\ \A i, j \in DOMAIN bits : i < j => bits[i].ss <= bits[j].ss
<1> DEFINE bits == RtcPuts(r)
<1>1. Ss \in Nat /\ Width = 8
    BY DEF Ss, Width
<1> HIDE DEF Ss, Width
<1>2. CASE r \in {1, 8}
  <2> DEFINE b == P("bits", Ss, Ss + Width, {Ss})
  <2>1. r \notin 2..7
      BY <1>2
  <2>2. bits = <<b>>
      BY <1>2, <2>1, Zenon DEF RtcPuts
  <2>3. b.row = "bits" /\ b.ss = Ss
      BY DEF P
  <2> HIDE DEF b, bits
  <2>4. <<b>> \in Seq({b}) /\ DOMAIN <<b>> = {1} /\ <<b>>[1] = b
      OBVIOUS
  <2>5. Ss <= Ss /\ Ss <= Ss + Width
      BY <1>1
  <2>6. \A i \in DOMAIN <<b>> : <<b>>[i] = b
      BY <2>4
  <2>7. ASSUME NEW i \in DOMAIN <<b>>
        PROVE  <<b>>[i].row = "bits" /\ Ss <= <<b>>[i].ss /\ <<b>>[i].ss <= Ss + Width
      BY <2>3, <2>5, <2>6, Zenon
  <2>8. ASSUME NEW i \in DOMAIN <<b>>, NEW j \in DOMAIN <<b>>
        PROVE  <<b>>[i].ss <= <<b>>[j].ss
      BY <2>3, <2>5, <2>6, Zenon
  <2> QED
      BY <2>2, <2>4, <2>7, <2>8, Zenon DEF bits
<1>3. CASE r \in 2..7
  <2> DEFINE top == RtcTop[r]
             n == 7 - top
             s == [i \in 1..n |-> Bits("bits", Ss, 8 - i, 8 - i)]
             b == Bits("bits", Ss, top, 0)
             S == {s[i] : i \in 1..n} \cup {b}
  <2>1. top \in 2..7
      BY <1>3 DEF RtcTop
  <2>2. bits = s \o <<b>>
    <3>1. r \notin {1, 8}
        BY <1>3
    <3> QED
        BY <1>3, <3>1, Zenon DEF RtcPuts
  <2> HIDE DEF top, bits
  <2>3. n \in Nat /\ DOMAIN s = 1..n
      BY <2>1
  <2>4. \A i \in 1..n : s[i].row = "bits" /\ s[i].ss = Ss + i - 1
      BY <1>1, <2>1 DEF Bits, BitSs, P
  <2>5. b.row = "bits" /\ b.ss = Ss + n
      BY <1>1, <2>1 DEF Bits, BitSs, P
  <2>6. n <= 5
      BY <2>1
  <2>7. s \in Seq(S) /\ b \in S
      BY <2>3
  <2> HIDE DEF s, b, n, S
  <2>8. /\ bits \in Seq(S) /\ DOMAIN bits = 1..(n + 1) /\ bits[n + 1] = b
        /\ \A i \in 1..n : bits[i] = s[i]
      BY <2>2, <2>3, <2>7
  <2>9. \A i \in DOMAIN bits : bits[i].row = "bits" /\ bits[i].ss = Ss + i - 1
      BY <1>1, <2>3, <2>4, <2>5, <2>8
  <2> QED
      BY <1>1, <2>3, <2>6, <2>8, <2>9 DEF bits
<1>4. CASE r \notin {1, 8} /\ r \notin 2..7
  <2>1. bits = <<>>
      BY <1>4, Zenon DEF RtcPuts
  <2>2. <<>> \in Seq({}) /\ DOMAIN <<>> = {}
      OBVIOUS
  <2> HIDE DEF bits
  <2> QED
      BY <2>1, <2>2, Zenon DEF bits
<1> QED
    BY <1>2, <1>3, <1>4, Zenon

\* A block starts at its mark.
LEMMA TurnBlock ==
    ASSUME NEW name, NEW blocks, NEW row \in blocks, NEW mark \in Int, NEW later \in Int, mark <= later,
           NEW es, NEW shown
    PROVE  Turn(name, blocks, mark, later, P(row, mark, es, shown))
    BY DEF Turn, P

LEMMA Rtc8564Order ==
    ASSUME count \in Nat, RegPd(RtcTime), NEW q \in I2CInputs("rtc8564"), Rtc8564(q),
           TailType, Since("rtc8564", {"date-time"}, pd.ss_block, Ss, tail)
    PROVE  InOrder /\ TailType' /\ Since("rtc8564", {"date-time"}, pd'.ss_block, Ss', tail')
<1> DEFINE c == Byte("regs", q)
           bits == RtcPuts(pd.reg)
           later == pd'.ss_block
           T(anns) == InTurn("rtc8564", {"date-time"}, pd.ss_block, later, anns)
<1>1. count' = count + 1 /\ script' = "rtc8564"
    BY I2CHanded DEF Rtc8564
<1>2. \/ put' = <<>>
      \/ put' = <<RtcBlock(q)>>
      \/ put' = <<c>>
      \/ put' = <<c>> \o bits
    BY Zenon DEF Rtc8564, Return, Become, Goto, Ignore, Fail, Show
<1>3. Show(put') /\ Fine("rtc8564", Rtc8564Rows)'
    BY Shown, Rtc8564Puts, Zenon
<1>4. pd.ss_block \in Int /\ later \in Int /\ pd.ss_block <= later
    BY Rtc8564Kept DEF RegLater
<1>5. T(<<RtcBlock(q)>>)
  <2>1. Turn("rtc8564", {"date-time"}, pd.ss_block, later, RtcBlock(q))
      BY <1>4, TurnBlock DEF RtcBlock
  <2> QED
      BY <2>1, TurnFew, Zenon
<1>6. T(<<c>>) /\ c.row = "regs"
  <2>1. Turn("rtc8564", {"date-time"}, pd.ss_block, later, c)
    <3>1. "regs" \notin {"date-time"}
        OBVIOUS
    <3> QED
        BY <3>1, TurnHere, Zenon
  <2>2. c.row = "regs"
      BY StartsHere, Zenon
  <2> QED
      BY <2>1, <2>2, TurnFew, Zenon
<1>7. T(<<c>> \o bits)
  <2>1. /\ \E S : bits \in Seq(S)
        /\ \A i \in DOMAIN bits : bits[i].row = "bits" /\ Ss <= bits[i].ss /\ bits[i].ss <= Ss + Width
        /\ \A i, j \in DOMAIN bits : i < j => bits[i].ss <= bits[j].ss
      BY RtcBits, Zenon
  <2> HIDE DEF bits, c, later
  <2>2. T(bits)
      BY <2>1 DEF InTurn, Rising, Turn
  <2>3. PICK S : bits \in Seq(S)
      BY <2>1
  <2>4. bits \in Seq(S \cup {c}) /\ <<c>> \in Seq(S \cup {c})
      BY <2>3
  <2>5. \A i \in DOMAIN <<c>>, j \in DOMAIN bits : <<c>>[i].row # bits[j].row
      BY <1>6, <2>1
  <2> QED
      BY <1>6, <2>2, <2>4, <2>5, TurnJoin
<1>8. T(put')
  <2>1. T(<<>>)
      BY TurnFew, Zenon
  <2> QED
      BY <1>2, <1>5, <1>6, <1>7, <2>1, Zenon
<1> QED
    BY <1>1, <1>3, <1>4, <1>8, OrderStep, Zenon

\* ds1307: the date and the warning start at the block; the order of the bits is not promised.
LEMMA Ds1307Order ==
    ASSUME count \in Nat, RegPd(DsTime), NEW q \in I2CInputs("ds1307"), Ds1307(q),
           TailType, Since("ds1307", {"date_time", "warnings"}, pd.ss_block, Ss, tail)
    PROVE  InOrder /\ TailType' /\ Since("ds1307", {"date_time", "warnings"}, pd'.ss_block, Ss', tail')
<1> DEFINE F == DsFields(pd.reg, q.v)
           c == Bits("regs", Ss, 7, 0)
           bits == [i \in DOMAIN F |-> Bits("bits", Ss, F[i][1], F[i][2])]
           later == pd'.ss_block
           B == {"date_time", "warnings"}
           T(anns) == InTurn("ds1307", B, pd.ss_block, later, anns)
<1>1. count' = count + 1 /\ script' = "ds1307"
    BY I2CHanded DEF Ds1307
<1>2. \/ put' = <<>>
      \/ put' = DsWarning(q)
      \/ put' = <<DsBlock(q)>>
      \/ put' = <<c>> \o bits
    BY Zenon DEF Ds1307, Return, Become, Goto, Ignore, Show, DsPuts
<1>3. Show(put') /\ Fine("ds1307", Ds1307Rows)'
    BY Shown, Ds1307Puts, Zenon
<1>4. pd.ss_block \in Int /\ later \in Int /\ pd.ss_block <= later
    BY Ds1307Kept DEF RegLater
<1>5. T(<<DsBlock(q)>>)
  <2>1. Turn("ds1307", B, pd.ss_block, later, DsBlock(q))
      BY <1>4, TurnBlock DEF DsBlock
  <2> QED
      BY <2>1, TurnFew, Zenon
<1>6. T(DsWarning(q))
  <2>1. Turn("ds1307", B, pd.ss_block, later, P("warnings", pd.ss_block, Es(q), {}))
      BY <1>4, TurnBlock
  <2> QED
      BY <2>1, TurnFew, Zenon DEF DsWarning
<1>7. T(<<c>>) /\ c.row = "regs"
  <2>1. "regs" \notin B /\ 7 \in 0..7
      OBVIOUS
  <2>2. Turn("ds1307", B, pd.ss_block, later, c) /\ c.row = "regs"
      BY <2>1, TurnHere, StartsHere, Zenon
  <2> QED
      BY <2>2, TurnFew, Zenon
<1>8. T(<<c>> \o bits)
  <2>1. \A i \in DOMAIN bits : bits[i].row = "bits"
      BY DEF Bits, P
  <2>2. <<"ds1307", "bits">> \in OutOfOrder
      BY Zenon DEF OutOfOrder
  <2>3. PICK n \in Nat : Table(F, n)
      BY DsTables
  <2> DEFINE S == {bits[i] : i \in DOMAIN F} \cup {c}
  <2>4. bits \in Seq(S)
    <3>1. DOMAIN F = 1..n
        BY <2>3 DEF Table
    <3> HIDE DEF F
    <3> QED
        BY <3>1
  <2>5. <<c>> \in Seq(S)
      OBVIOUS
  <2> HIDE DEF bits, c, later, S, B, F
  <2>6. T(bits)
      BY <2>1, <2>2 DEF InTurn, Rising, Turn
  <2>7. \A i \in DOMAIN <<c>>, j \in DOMAIN bits : <<c>>[i].row # bits[j].row
      BY <1>7, <2>1
  <2> QED
      BY <1>7, <2>4, <2>5, <2>6, <2>7, TurnJoin
<1>9. T(put')
  <2>1. T(<<>>)
      BY TurnFew, Zenon
  <2> QED
      BY <1>2, <1>5, <1>6, <1>8, <2>1, Zenon
<1> QED
    BY <1>1, <1>3, <1>4, <1>9, OrderStep, Zenon

\* A row that does not promise its order is in turn.
LEMMA TurnLoose ==
    ASSUME NEW name, NEW blocks, NEW mark, NEW later, NEW anns,
           \A i \in DOMAIN anns : <<name, anns[i].row>> \in OutOfOrder
    PROVE  InTurn(name, blocks, mark, later, anns)
    BY DEF InTurn, Turn, Rising

\* nunchuk: summaries and warnings start at the block; the order of the bits is not promised.
LEMMA NunchukOrder ==
    ASSUME count \in Nat, NunchukPd, NEW q \in I2CInputs("nunchuk"), Nunchuk(q),
           TailType, Since("nunchuk", {"summary", "warnings"}, pd.ss_block, Ss, tail)
    PROVE  InOrder /\ TailType' /\ Since("nunchuk", {"summary", "warnings"}, pd'.ss_block, Ss', tail')
<1> DEFINE c == Byte("regs", q)
           b0 == Bits("regs", Ss, 0, 0)
           b1 == Bits("regs", Ss, 1, 1)
           b2 == Bits("regs", Ss, 3, 2)
           b3 == Bits("regs", Ss, 5, 4)
           b4 == Bits("regs", Ss, 7, 6)
           bits == <<b0, b1, b2, b3, b4>>
           seen == {pd.seen[f] : f \in NunFields}
           whole(row, shown) == P(row, pd.ss_block, Es(q), shown)
           blank == [f \in NunFields |-> Unknown]
           at == IF pd.reg = 0 THEN Ss ELSE pd.ss_block
           name == NunReg[pd.reg + 1]
           to == IF pd.reg = 5 THEN 1 ELSE pd.reg + 1
           seq == IF Len(pd.init_seq) < 2 THEN Append(pd.init_seq, q.v) ELSE pd.init_seq
           B == {"summary", "warnings"}
           T(anns) == InTurn("nunchuk", B, pd.ss_block, pd'.ss_block, anns)
<1>1. count' = count + 1 /\ script' = "nunchuk" /\ Ss \in Nat
    BY I2CHanded DEF Nunchuk
<1>2. \/ put' = <<>>
      \/ put' = <<c>>
      \/ put' = bits
      \/ put' = <<whole("summary", seen)>>
      \/ \E row \in {"regs", "warnings"} : put' = <<whole(row, {})>>
    BY Zenon DEF Nunchuk, NunRegister, NunStop, NunPuts, Return, Become, Goto, Ignore, Fail, Show, IsData
<1>3. \/ pd' = pd
      \/ pd' = [pd EXCEPT !.state = "GET SLAVE ADDR", !.ss_block = Ss]
      \/ \E s : pd' = [pd EXCEPT !.state = s]
      \/ pd' = [pd EXCEPT !.ss_block = at, !.seen[name] = Ss, !.reg = to]
      \/ pd' = [pd EXCEPT !.init_seq = seq]
      \/ pd' = [pd EXCEPT !.state = "IDLE", !.seen = blank]
      \/ pd' = [pd EXCEPT !.state = "IDLE", !.init_seq = <<>>]
    BY Zenon DEF Nunchuk, NunRegister, NunStop, Nun0, Return, Become, Goto, Ignore, Fail, IsData
<1>4. pd \in NunchukType /\ pd.ss_block \in Nat /\ pd.ss_block <= Ss
    BY DEF NunchukPd, NunchukType
<1>5. Show(put') /\ Fine("nunchuk", NunchukRows)'
    BY Shown, NunchukPuts, Zenon
<1>6. pd.ss_block \in Int /\ pd'.ss_block \in Int /\ pd.ss_block <= pd'.ss_block
  <2> HIDE DEF Ss, seq, name, to, blank
  <2>1. DOMAIN pd = {"state", "reg", "ss_block", "init_seq", "seen"}
      BY <1>4 DEF NunchukType
  <2>2. pd'.ss_block \in {pd.ss_block, Ss}
    <3> HIDE DEF at
    <3>1. pd'.ss_block \in {pd.ss_block, Ss, at}
        BY <1>3, <2>1
    <3> QED
        BY <3>1 DEF at
  <2> QED
      BY <1>1, <1>4, <2>2
<1>7. <<"nunchuk", "regs">> \in OutOfOrder
    BY Zenon DEF OutOfOrder
<1>8. \A row, shown : whole(row, shown).row = row
    BY DEF P
<1>9. ASSUME NEW row \in B, NEW shown
      PROVE  T(<<whole(row, shown)>>)
  <2>1. Turn("nunchuk", B, pd.ss_block, pd'.ss_block, whole(row, shown))
      BY <1>6, TurnBlock, Zenon
  <2> QED
      BY <2>1, TurnFew, Zenon
<1>10. T(<<whole("regs", {})>>) /\ T(<<c>>) /\ T(bits)
  <2>1. whole("regs", {}).row = "regs" /\ c.row = "regs"
      BY StartsHere, <1>8, Zenon
  <2>2. /\ b0.row = "regs" /\ b1.row = "regs" /\ b2.row = "regs" /\ b3.row = "regs" /\ b4.row = "regs"
      BY DEF Bits, P
  <2> DEFINE w == whole("regs", {})
  <2> HIDE DEF w, c, b0, b1, b2, b3, b4
  <2>3. \A i \in DOMAIN <<w>> : <<w>>[i].row = "regs"
      BY <2>1 DEF w
  <2>4. \A i \in DOMAIN <<c>> : <<c>>[i].row = "regs"
      BY <2>1
  <2>5. \A i \in DOMAIN bits : bits[i].row = "regs"
      BY <2>2
  <2> HIDE DEF bits
  <2> QED
      BY <1>7, <2>3, <2>4, <2>5, TurnLoose, Zenon DEF w
<1>11. T(put')
  <2>1. T(<<>>)
      BY TurnFew, Zenon
  <2>2. "summary" \in B /\ "warnings" \in B
      OBVIOUS
  <2> HIDE DEF c, bits, whole, seen, B
  <2>3. \A row \in {"regs", "warnings"} : T(<<whole(row, {})>>)
      BY <1>9, <1>10, <2>2, Zenon
  <2> QED
      BY <1>2, <1>9, <1>10, <2>1, <2>2, <2>3, Zenon
<1> QED
    BY <1>1, <1>5, <1>6, <1>11, OrderStep, Zenon

\* hdcp: every message starts at the block.
LEMMA HdcpOrder ==
    ASSUME count \in Nat, HdcpPd, NEW q \in I2CInputs("hdcp"), Hdcp(q),
           TailType, Since("hdcp", HdcpRows, pd.ss_block, Ss, tail)
    PROVE  InOrder /\ TailType' /\ Since("hdcp", HdcpRows, pd'.ss_block, Ss', tail')
<1> DEFINE whole(row, shown) == P(row, pd.ss_block, Es(q), shown)
           T(anns) == InTurn("hdcp", HdcpRows, pd.ss_block, pd'.ss_block, anns)
           rest == SubSeq(pd.stack, 1, Len(pd.stack) - 2)
           more == Append(pd.stack, [at |-> Ss, v |-> q.v])
<1>1. count' = count + 1 /\ script' = "hdcp" /\ Ss \in Nat
    BY I2CHanded DEF Hdcp
<1>2. \/ put' = <<>>
      \/ \E row \in {"messages", "summaries", "warnings"} : \E shown : put' = <<whole(row, shown)>>
    BY ZenonT(60) DEF Hdcp, HdcpEnd, HdcpRow, Return, Become, Goto, Ignore, Fail, Show
<1>3. \/ pd' = pd
      \/ \E s : pd' = [pd EXCEPT !.state = s]
      \/ pd' = [Hdcp0 EXCEPT !.state = "GET SLAVE ADDR", !.ss_block = Ss]
      \/ \E t, s : pd' = [pd EXCEPT !.type = t, !.state = s]
      \/ \E st : pd' = [pd EXCEPT !.state = "IDLE", !.stack = st]
      \/ pd' = [pd EXCEPT !.stack = more]
    BY ZenonT(60) DEF Hdcp, HdcpEnd, Return, Become, Goto, Ignore, Fail
<1>4. pd \in HdcpAttributes /\ pd.ss_block \in Nat /\ pd.ss_block <= Ss
    BY DEF HdcpPd, HdcpAttributes
<1>5. Show(put') /\ Fine("hdcp", HdcpRows)'
    BY Shown, HdcpPuts, Zenon
<1>6. pd.ss_block \in Int /\ pd'.ss_block \in Int /\ pd.ss_block <= pd'.ss_block
  <2> HIDE DEF Ss, more
  <2>1. DOMAIN pd = {"state", "stack", "ss_block", "type"}
      BY <1>4 DEF HdcpAttributes
  <2>2. pd'.ss_block \in {pd.ss_block, Ss}
      BY <1>3, <2>1 DEF Hdcp0
  <2> QED
      BY <1>1, <1>4, <2>2
<1>7. ASSUME NEW row \in HdcpRows, NEW shown
      PROVE  T(<<whole(row, shown)>>)
  <2>1. Turn("hdcp", HdcpRows, pd.ss_block, pd'.ss_block, whole(row, shown))
      BY <1>6, TurnBlock, Zenon
  <2> QED
      BY <2>1, TurnFew, Zenon
<1>8. T(put')
  <2>1. T(<<>>)
      BY TurnFew, Zenon
  <2>2. {"messages", "summaries", "warnings"} \subseteq HdcpRows
      BY DEF HdcpRows
  <2> QED
      BY <1>2, <1>7, <2>1, <2>2, Zenon
<1> QED
    BY <1>1, <1>5, <1>6, <1>8, OrderStep, Zenon

\* mlx90614: a temperature starts at the first byte kept.
MlxMark == IF pd.data = <<>> THEN Ss ELSE pd.data[1]
LEMMA Mlx90614Order ==
    ASSUME count \in Nat, Mlx90614Pd, NEW q, Mlx90614(q),
           TailType, Since("mlx90614", Mlx90614Rows, MlxMark, Ss, tail)
    PROVE  InOrder /\ TailType' /\ Since("mlx90614", Mlx90614Rows, MlxMark', Ss', tail')
<1> DEFINE rows == <<"temps-celsius", "temps-kelvin">>
           t(row) == Span(row, pd.data[1], pd.data[2], ToSet(pd.data))
           ts == [i \in 1..2 |-> t(rows[i])]
           more == Append(pd.data, Ss)
           T(anns) == InTurn("mlx90614", Mlx90614Rows, MlxMark, MlxMark', anns)
<1>1. count' = count + 1 /\ script' = "mlx90614" /\ Ss \in Nat /\ Ss' = Ss + Width /\ Width = 8
    BY I2CHanded DEF Mlx90614
<1>2. \/ pd' = pd
      \/ \E s \in Mlx90614States : pd' = [pd EXCEPT !.state = s]
      \/ pd' = [pd EXCEPT !.data = more]
      \/ pd' = Mlx0
    BY Zenon DEF Mlx90614, Return, Become, Goto, Ignore, Mlx90614States
<1>3. \/ put' = <<>>
      \/ Len(pd.data) = 2 /\ put' = ts
    BY Zenon DEF Mlx90614, Return, Become, Goto, Ignore, Show
<1>4. Show(put') /\ Fine("mlx90614", Mlx90614Rows)'
    BY Shown, Mlx90614Kept, Zenon
<1> HIDE DEF Ss, Width
<1>5. /\ pd.data \in Seq(Nat) /\ DOMAIN pd = {"state", "data"}
      /\ pd.data # <<>> => pd.data[1] \in Nat /\ pd.data[1] <= Ss
    BY <1>1 DEF Mlx90614Pd
<1>6. MlxMark \in Int /\ MlxMark' \in Int /\ MlxMark <= MlxMark'
  <2>1. pd'.data \in {pd.data, more} \/ pd'.data = <<>>
    <3> DEFINE none == <<>>
    <3>1. Mlx0.data = none
        BY DEF Mlx0
    <3> HIDE DEF more, none
    <3>2. pd'.data \in {pd.data, more, none}
        BY <1>2, <1>5, <3>1
    <3> QED
        BY <3>2 DEF none
  <2>2. more[1] = (IF pd.data = <<>> THEN Ss ELSE pd.data[1]) /\ more # <<>>
      BY <1>1, <1>5
  <2> HIDE DEF more
  <2> QED
      BY <1>1, <1>5, <2>1, <2>2 DEF MlxMark
<1>7. ASSUME Len(pd.data) = 2
      PROVE  T(ts)
  <2>1. pd.data[1] = MlxMark
      BY <1>5, <1>7 DEF MlxMark
  <2>2. ASSUME NEW i \in 1..2
        PROVE  Turn("mlx90614", Mlx90614Rows, MlxMark, MlxMark', ts[i])
    <3>1. rows[i] \in Mlx90614Rows
        BY DEF Mlx90614Rows
    <3>2. ts[i] = P(rows[i], MlxMark, pd.data[2] + Width, ToSet(pd.data))
        BY <2>1 DEF Span
    <3> HIDE DEF rows, ts
    <3> QED
        BY <1>6, <3>1, <3>2, TurnBlock, Zenon
  <2>3. ts[1].row # ts[2].row
      BY DEF Span, P
  <2>4. DOMAIN ts = 1..2
      OBVIOUS
  <2> HIDE DEF ts
  <2>5. Rising("mlx90614", ts)
      BY <2>3, <2>4 DEF Rising
  <2> QED
      BY <2>2, <2>4, <2>5, Zenon DEF InTurn
<1>8. T(put')
  <2>1. T(<<>>)
      BY TurnFew, Zenon
  <2> HIDE DEF ts
  <2> QED
      BY <1>3, <1>7, <2>1, Zenon
<1> QED
    BY <1>1, <1>4, <1>6, <1>8, OrderStep, Zenon

\* ltc26x7: a voltage starts at its first byte, the two halves of the command in their order.
LtcMark == IF pd.ss = Unknown THEN Ss ELSE pd.ss
LtcBlocks == {"dac_a_voltages", "dac_b_voltages"}
LEMMA Ltc26x7Order ==
    ASSUME count \in Nat, Ltc26x7Pd, NEW q, Ltc26x7(q),
           TailType, Since("ltc26x7", LtcBlocks, LtcMark, Ss, tail)
    PROVE  InOrder /\ TailType' /\ Since("ltc26x7", LtcBlocks, LtcMark', Ss', tail')
<1> DEFINE v(row) == P(row, pd.ss, Ss + Width, {pd.ss, Ss})
           a == v("dac_a_voltages")
           b == v("dac_b_voltages")
           c == Byte("addr_cmd", q)
           hi == Bits("addr_cmd", Ss, 7, 4)
           lo == Bits("addr_cmd", Ss, 3, 0)
           T(anns) == InTurn("ltc26x7", LtcBlocks, LtcMark, LtcMark', anns)
<1>1. count' = count + 1 /\ script' = "ltc26x7" /\ Ss \in Nat /\ Ss' = Ss + Width /\ Width = 8
    BY I2CHanded DEF Ltc26x7
<1>2. \/ pd' = pd
      \/ \E s : pd' = [pd EXCEPT !.state = s]
      \/ \E s : pd' = [pd EXCEPT !.state = s, !.ss = Unknown]
      \/ \E s, d : pd' = [pd EXCEPT !.state = s, !.dac_val = d]
      \/ pd.ss = Unknown /\ pd' = [pd EXCEPT !.ss = Ss]
      \/ pd' = [pd EXCEPT !.ss = Unknown]
    BY ZenonT(60) DEF Ltc26x7, Return, Become, Goto, Ignore, Fail, Hang
<1>3. \/ put' = <<>>
      \/ put' = <<hi>>
      \/ put' = <<hi>> \o <<lo>>
      \/ put' = <<c>>
      \/ pd.ss # Unknown /\ put' \in {<<a>>, <<b>>, <<a, b>>}
    BY Zenon DEF Ltc26x7, Return, Become, Goto, Ignore, Fail, Hang, Show, LtcVoltage
<1>4. Show(put') /\ Fine("ltc26x7", Ltc26x7Rows)'
    BY Shown, Ltc26x7Kept, Zenon
<1>5. /\ hi.row = "addr_cmd" /\ lo.row = "addr_cmd" /\ c.row = "addr_cmd"
      /\ hi.ss = Ss /\ lo.ss = Ss + 4
    BY <1>1, StartsHere DEF Bits, BitSs, P
<1>6. /\ "addr_cmd" \notin LtcBlocks /\ "dac_a_voltages" \in LtcBlocks /\ "dac_b_voltages" \in LtcBlocks
      /\ 7 \in 0..7 /\ 3 \in 0..7
    BY DEF LtcBlocks
<1>7. /\ Turn("ltc26x7", LtcBlocks, LtcMark, LtcMark', hi)
      /\ Turn("ltc26x7", LtcBlocks, LtcMark, LtcMark', lo)
      /\ Turn("ltc26x7", LtcBlocks, LtcMark, LtcMark', c)
    BY <1>6, TurnHere, Zenon
<1> HIDE DEF Ss, Width
<1>8. LtcMark \in Int /\ LtcMark' \in Int /\ LtcMark <= LtcMark'
  <2>1. /\ DOMAIN pd = {"state", "ss", "dac_val"} /\ pd.ss \in Int
        /\ pd.ss # Unknown => pd.ss + Width <= Ss
      BY DEF Ltc26x7Pd
  <2>2. pd'.ss \in {pd.ss, Unknown} \/ (pd.ss = Unknown /\ pd'.ss = Ss)
      BY <1>2, <2>1
  <2> QED
      BY <1>1, <2>1, <2>2 DEF LtcMark, Unknown
<1>9. ASSUME pd.ss # Unknown
      PROVE  T(<<a>>) /\ T(<<b>>) /\ T(<<a, b>>)
  <2>1. pd.ss = LtcMark
      BY <1>9 DEF LtcMark
  <2>2. /\ Turn("ltc26x7", LtcBlocks, LtcMark, LtcMark', a)
        /\ Turn("ltc26x7", LtcBlocks, LtcMark, LtcMark', b)
      BY <1>6, <1>8, <2>1, TurnBlock
  <2>3. a.row # b.row
      BY DEF P
  <2> HIDE DEF a, b
  <2>4. T(<<a, b>>)
    <3>1. Rising("ltc26x7", <<a, b>>)
        BY <2>3 DEF Rising
    <3>2. \A i \in DOMAIN <<a, b>> : Turn("ltc26x7", LtcBlocks, LtcMark, LtcMark', <<a, b>>[i])
        BY <2>2
    <3> QED
        BY <3>1, <3>2, Zenon DEF InTurn
  <2> QED
      BY <2>2, <2>4, TurnFew, Zenon
<1> HIDE DEF a, b, c, hi, lo
<1>10. T(<<hi>>) /\ T(<<lo>>) /\ T(<<c>>) /\ T(<<>>)
    BY <1>7, TurnFew, Zenon
<1>11. T(<<hi>> \o <<lo>>)
  <2>1. <<hi>> \in Seq({hi, lo}) /\ <<lo>> \in Seq({hi, lo})
      OBVIOUS
  <2>2. \A i \in DOMAIN <<hi>>, j \in DOMAIN <<lo>> : <<hi>>[i].ss <= <<lo>>[j].ss
      BY <1>1, <1>5
  <2> QED
      BY <1>10, <2>1, <2>2, TurnJoin
<1>12. T(put')
    BY <1>3, <1>9, <1>10, <1>11, Zenon
<1> QED
    BY <1>1, <1>4, <1>8, <1>12, OrderStep, Zenon

\* i2cfilter and i2cdemux pass the packets of a transfer on from its first one.
TransferMark == IF pd.packets = <<>> THEN Ss ELSE pd.packets[1][1]

LEMMA AppendStarts ==
    ASSUME NEW S, NEW s \in Seq(S), NEW x \in S
    PROVE  Append(s, x) # <<>> /\ Append(s, x)[1] = IF s = <<>> THEN x ELSE s[1]
<1> DEFINE more == Append(s, x)
<1>1. /\ more \in Seq(S) /\ Len(more) = Len(s) + 1 /\ Len(s) \in Nat
      /\ more[Len(s) + 1] = x /\ \A i \in 1..Len(s) : more[i] = s[i]
    OBVIOUS
<1>2. \A t \in Seq(S) : t = <<>> <=> Len(t) = 0
    OBVIOUS
<1> HIDE DEF more
<1>3. more # <<>>
    BY <1>1, <1>2
<1>4. CASE s = <<>>
  <2>1. Len(s) = 0
      BY <1>2, <1>4, Zenon
  <2>2. more[1] = x
      BY <1>1, <2>1
  <2> QED
      BY <1>3, <1>4, <2>2, Zenon DEF more
<1>5. CASE s # <<>>
  <2>1. 1 \in 1..Len(s)
      BY <1>1, <1>2, <1>5
  <2> QED
      BY <1>1, <1>3, <1>5, <2>1, Zenon DEF more
<1> QED
    BY <1>4, <1>5

LEMMA TransferStarts ==
    ASSUME NEW packets \in Transfers, NEW now \in Nat, NEW e \in Nat
    PROVE  LET more == Append(packets, <<now, e>>)
           IN /\ more # <<>>
              /\ more[1][1] = IF packets = <<>> THEN now ELSE packets[1][1]
<1> DEFINE p == <<now, e>>
<1>1. p \in Nat \X Nat /\ p[1] = now
    OBVIOUS
<1> HIDE DEF p
<1>2. Append(packets, p) # <<>> /\ Append(packets, p)[1] = IF packets = <<>> THEN p ELSE packets[1]
    BY <1>1, AppendStarts, Zenon DEF Transfers
<1>3. Append(packets, p)[1][1] = IF packets = <<>> THEN now ELSE packets[1][1]
  <2>1. CASE packets = <<>>
      BY <1>1, <1>2, <2>1, Zenon
  <2>2. CASE packets # <<>>
      BY <1>2, <2>2, Zenon
  <2> QED
      BY <2>1, <2>2
<1> QED
    BY <1>2, <1>3 DEF p

\* The packets of a transfer are passed on in turn.
LEMMA PassedOrder ==
    ASSUME NEW name, NEW blocks, NEW row \in blocks, NEW now \in Nat, NEW later \in Nat, now <= later,
           NEW packets \in Transfers, packets # <<>>, Ordered(packets, now)
    PROVE  LET mark == packets[1][1]
           IN mark \in Int /\ mark <= later /\ InTurn(name, blocks, mark, later, Passed(row, packets))
<1> DEFINE s == Passed(row, packets)
           mark == packets[1][1]
<1>1. \A i \in DOMAIN packets : packets[i] \in Nat \X Nat
    BY DEF Transfers
<1>2. \A i \in DOMAIN packets : packets[i][1] \in Nat /\ packets[i][2] \in Nat
    BY <1>1
<1>3. DOMAIN packets = 1..Len(packets) /\ Len(packets) \in Nat /\ 1 \in DOMAIN packets
    BY DEF Transfers
<1>4. \A i \in DOMAIN packets : P(row, packets[i][1], packets[i][2], {}).ss = packets[i][1]
                                /\ P(row, packets[i][1], packets[i][2], {}).row = row
    BY DEF P
<1>5. DOMAIN s = DOMAIN packets /\ \A i \in DOMAIN packets : s[i].ss = packets[i][1] /\ s[i].row = row
    BY <1>4, Zenon DEF Passed
<1>6. \A i, j \in DOMAIN packets : i < j => packets[i][1] <= packets[j][1]
    BY <1>2 DEF Ordered
<1>7. \A i \in DOMAIN packets : mark <= packets[i][1] /\ packets[i][1] <= later
    BY <1>2, <1>3, <1>6 DEF Ordered
<1>8. mark \in Int /\ mark <= later
    BY <1>2, <1>3, <1>7
<1> HIDE DEF s, mark
<1>9. \A i \in DOMAIN s : Turn(name, blocks, mark, later, s[i])
    BY <1>5, <1>7 DEF Turn
<1>10. Rising(name, s)
    BY <1>5, <1>6 DEF Rising
<1> QED
    BY <1>8, <1>9, <1>10, Zenon DEF InTurn, s, mark

\* What one call of the two does to the packets keeps the order.
LEMMA TransferOrder ==
    ASSUME count \in Nat, count' = count + 1, NEW name, script' = name, NEW rows, Fine(name, rows)',
           NEW q, pd.packets \in Transfers, Ordered(pd.packets, Ss),
           TailType, Since(name, rows, TransferMark, Ss, tail), Show(put'),
           LET more == Append(pd.packets, <<Ss, Es(q)>>)
           IN \/ pd'.packets = more /\ put' = <<>>
              \/ pd'.packets = pd.packets /\ put' = <<>>
              \/ pd'.packets = <<>> /\ (put' = <<>> \/ \E row \in rows : put' = Passed(row, more))
    PROVE  InOrder /\ TailType' /\ Since(name, rows, TransferMark', Ss', tail')
<1> DEFINE more == Append(pd.packets, <<Ss, Es(q)>>)
           T(anns) == InTurn(name, rows, TransferMark, TransferMark', anns)
<1>1. Ss \in Nat /\ Ss' = Ss + Width /\ Width = 8
    BY DEF Ss, Width
<1>2. Es(q) = Ss \/ Es(q) = Ss + Width
    BY PacketEnds, Zenon
<1> HIDE DEF Ss, Es, Width
<1>3. Es(q) \in Nat /\ Ss <= Es(q) /\ Es(q) <= Ss + Width
    BY <1>1, <1>2
<1>4. more \in Transfers /\ Ordered(more, Ss + Width)
    BY <1>1, <1>3, OrderedNext
<1>5. more # <<>> /\ more[1][1] = TransferMark
    BY <1>1, <1>3, TransferStarts DEF TransferMark
<1> HIDE DEF more
<1>6. \A row \in rows : InTurn(name, rows, TransferMark, Ss', Passed(row, more))
  <2>1. Ss + Width \in Nat /\ Ss + Width <= Ss'
      BY <1>1
  <2>2. Ss' \in Nat
      BY <1>1
  <2> QED
      BY <1>4, <1>5, <2>1, <2>2, PassedOrder, Zenon
<1>7. TransferMark \in Int /\ TransferMark <= Ss
  <2>1. ASSUME pd.packets # <<>>
        PROVE  pd.packets[1][1] \in Int /\ pd.packets[1][1] <= Ss
    <3>1. 1 \in DOMAIN pd.packets /\ pd.packets[1] \in Nat \X Nat
        BY <2>1 DEF Transfers
    <3> QED
        BY <1>1, <3>1 DEF Ordered
  <2> QED
      BY <1>1, <2>1 DEF TransferMark
<1>8. \/ TransferMark' = TransferMark
      \/ TransferMark' = Ss'
    BY <1>5 DEF TransferMark
<1>9. TransferMark' \in Int /\ TransferMark <= TransferMark'
    BY <1>1, <1>7, <1>8
<1>10. T(put')
  <2>1. T(<<>>)
      BY TurnFew, Zenon
  <2>2. pd'.packets = <<>> => TransferMark' = Ss'
      BY DEF TransferMark
  <2>3. put' = <<>> \/ (pd'.packets = <<>> /\ \E row \in rows : put' = Passed(row, more))
      BY Zenon DEF more
  <2> QED
      BY <1>6, <2>1, <2>2, <2>3, Zenon
<1> QED
    BY <1>7, <1>9, <1>10, OrderStep, Zenon

LEMMA I2cFilterOrder ==
    ASSUME count \in Nat, I2cFilterPd, NEW q, I2cFilter(q),
           TailType, Since("i2cfilter", {"i2c"}, TransferMark, Ss, tail)
    PROVE  InOrder /\ TailType' /\ Since("i2cfilter", {"i2c"}, TransferMark', Ss', tail')
<1> DEFINE more == Append(pd.packets, <<Ss, Es(q)>>)
           none == <<>>
<1>1. count' = count + 1 /\ script' = "i2cfilter"
    BY I2CHanded DEF I2cFilter
<1>2. \/ /\ \E v, d : pd' = [pd EXCEPT !.packets = more, !.curslave = v, !.curdirection = d]
         /\ put' = <<>>
      \/ pd' = [pd EXCEPT !.packets = none] /\ put' \in {<<>>, Passed("i2c", more)}
      \/ pd' = [pd EXCEPT !.packets = more] /\ put' = <<>>
    BY Zenon DEF I2cFilter, Return, Become, Show
<1>3. Show(put') /\ Fine("i2cfilter", {"i2c"})'
    BY Shown, I2cFilterKept, Zenon
<1>4. DOMAIN pd = {"curslave", "curdirection", "packets"} /\ pd.packets \in Transfers /\ Ordered(pd.packets, Ss)
    BY DEF I2cFilterPd
<1>5. \/ pd'.packets = more /\ put' = <<>>
      \/ pd'.packets = none /\ put' \in {<<>>, Passed("i2c", more)}
  <2> HIDE DEF more, none
  <2>1. ASSUME NEW v, NEW d, pd' = [pd EXCEPT !.packets = more, !.curslave = v, !.curdirection = d]
        PROVE  pd'.packets = more
      BY <1>4, <2>1
  <2>2. ASSUME NEW x, pd' = [pd EXCEPT !.packets = x]
        PROVE  pd'.packets = x
      BY <1>4, <2>2
  <2> QED
      BY <1>2, <2>1, <2>2, Zenon
<1>6. "i2c" \in {"i2c"}
    OBVIOUS
<1> QED
    BY <1>1, <1>3, <1>4, <1>5, <1>6, TransferOrder, Zenon

LEMMA I2cDemuxOrder ==
    ASSUME count \in Nat, I2cDemuxPd, NEW q \in I2CInputs("i2cdemux"), I2cDemux(q),
           TailType, Since("i2cdemux", I2cDemuxRows, TransferMark, Ss, tail)
    PROVE  InOrder /\ TailType' /\ Since("i2cdemux", I2cDemuxRows, TransferMark', Ss', tail')
<1> DEFINE more == Append(pd.packets, <<Ss, Es(q)>>)
           none == <<>>
           of == ToString(pd.slaves[pd.stream + 1])
<1>1. count' = count + 1 /\ script' = "i2cdemux"
    BY I2CHanded DEF I2cDemux
<1>2. \/ /\ \E slaves, stream : pd' = [packets |-> more, slaves |-> slaves, stream |-> stream]
         /\ put' = <<>>
      \/ pd' = pd /\ put' = <<>>
      \/ /\ pd.stream # -1 /\ put' = Passed(of, more)
         /\ pd' = [pd EXCEPT !.packets = none, !.stream = -1]
      \/ pd' = [pd EXCEPT !.packets = more] /\ put' = <<>>
    BY Zenon DEF I2cDemux, Return, Become, Fail, Show
<1>3. Show(put') /\ Fine("i2cdemux", I2cDemuxRows)'
    BY Shown, I2cDemuxKept, Zenon
<1>4. /\ DOMAIN pd = {"packets", "slaves", "stream"} /\ pd.packets \in Transfers /\ Ordered(pd.packets, Ss)
      /\ pd.stream # -1 => of \in I2cDemuxRows
  <2>1. pd.stream # -1 => pd.slaves[pd.stream + 1] \in DemuxSlaves
      BY DEF I2cDemuxPd
  <2>2. pd.stream # -1 => of \in I2cDemuxRows
      BY <2>1, Zenon DEF I2cDemuxRows
  <2> HIDE DEF of
  <2> QED
      BY <2>2 DEF I2cDemuxPd
<1>5. \/ pd'.packets = more /\ put' = <<>>
      \/ pd'.packets = pd.packets /\ put' = <<>>
      \/ pd'.packets = none /\ \E row \in I2cDemuxRows : put' = Passed(row, more)
  <2> HIDE DEF more, none
  <2>1. ASSUME NEW slaves, NEW stream, pd' = [packets |-> more, slaves |-> slaves, stream |-> stream]
        PROVE  pd'.packets = more
      BY <2>1
  <2>2. ASSUME pd' = [pd EXCEPT !.packets = none, !.stream = -1]
        PROVE  pd'.packets = none
    <3> DEFINE f == [pd EXCEPT !.packets = none]
    <3>1. f.packets = none
        BY <1>4
    <3>2. pd' = [f EXCEPT !.stream = -1]
        BY <2>2, Zenon
    <3> HIDE DEF f
    <3> QED
        BY <3>1, <3>2
  <2>3. ASSUME pd' = [pd EXCEPT !.packets = more]
        PROVE  pd'.packets = more
      BY <1>4, <2>3
  <2> HIDE DEF of
  <2> QED
      BY <1>2, <1>4, <2>1, <2>2, <2>3, Zenon
<1> QED
    BY <1>1, <1>3, <1>4, <1>5, TransferOrder, Zenon

-----------------------------------------------------------------------------
(* Every call.                                                             *)

\* Where the annotations of a script have started so far.
OrderInv ==
    /\ TailType
    /\ script = "rtc8564" => Since("rtc8564", {"date-time"}, pd.ss_block, Ss, tail)
    /\ script = "ds1307" => Since("ds1307", {"date_time", "warnings"}, pd.ss_block, Ss, tail)
    /\ script = "mxc6225xu" => Since("mxc6225xu", {}, Ss, Ss, tail)
    /\ script = "tca6408a" => Since("tca6408a", {}, Ss, Ss, tail)
    /\ script = "pca9571" => Since("pca9571", {}, Ss, Ss, tail)
    /\ script = "nunchuk" => Since("nunchuk", {"summary", "warnings"}, pd.ss_block, Ss, tail)
    /\ script = "lm75" => Since("lm75", {}, Ss, Ss, tail)
    /\ script = "mlx90614" => Since("mlx90614", Mlx90614Rows, MlxMark, Ss, tail)
    /\ script = "hdcp" => Since("hdcp", HdcpRows, pd.ss_block, Ss, tail)
    /\ script = "ltc26x7" => Since("ltc26x7", LtcBlocks, LtcMark, Ss, tail)
    /\ script = "i2cfilter" => Since("i2cfilter", {"i2c"}, TransferMark, Ss, tail)
    /\ script = "i2cdemux" => Since("i2cdemux", I2cDemuxRows, TransferMark, Ss, tail)

\* Every decode() of these scripts puts its annotations in order.
LEMMA OrderKept ==
    ASSUME ScriptInv, OrderInv, Next
    PROVE  InOrder /\ OrderInv'
<1>0. script \in ProvedI2C /\ count \in Nat /\ Known /\ TailType
    BY Zenon DEF ScriptInv, OrderInv
<1>1. CASE script = "rtc8564"
  <2>1. PICK q \in I2CInputs("rtc8564") : Rtc8564(q)
      BY <1>0, <1>1, Chosen, Zenon
  <2>2. RegPd(RtcTime) /\ Since("rtc8564", {"date-time"}, pd.ss_block, Ss, tail)
      BY <1>0, <1>1, Zenon DEF Known, OrderInv
  <2>3. InOrder /\ TailType' /\ Since("rtc8564", {"date-time"}, pd'.ss_block, Ss', tail')
      BY <1>0, <2>1, <2>2, Rtc8564Order, Zenon
  <2>4. script' = "rtc8564"
      BY <1>0, <2>1, I2CHanded, Zenon DEF Rtc8564
  <2> QED
      BY <2>3, <2>4 DEF OrderInv
<1>2. CASE script = "ds1307"
  <2>1. PICK q \in I2CInputs("ds1307") : Ds1307(q)
      BY <1>0, <1>2, Chosen, Zenon
  <2>2. RegPd(DsTime) /\ Since("ds1307", {"date_time", "warnings"}, pd.ss_block, Ss, tail)
      BY <1>0, <1>2, Zenon DEF Known, OrderInv
  <2>3. InOrder /\ TailType' /\ Since("ds1307", {"date_time", "warnings"}, pd'.ss_block, Ss', tail')
      BY <1>0, <2>1, <2>2, Ds1307Order, Zenon
  <2>4. script' = "ds1307"
      BY <1>0, <2>1, I2CHanded, Zenon DEF Ds1307
  <2> QED
      BY <2>3, <2>4 DEF OrderInv
<1>3. CASE script = "mxc6225xu"
  <2>1. PICK q \in I2CInputs("mxc6225xu") : Mxc6225xu(q)
      BY <1>0, <1>3, Chosen, Zenon
  <2>2. Since("mxc6225xu", {}, Ss, Ss, tail)
      BY <1>3, Zenon DEF OrderInv
  <2>3. InOrder /\ TailType' /\ Since("mxc6225xu", {}, Ss', Ss', tail')
      BY <1>0, <2>1, <2>2, Mxc6225xuOrder, Zenon
  <2>4. script' = "mxc6225xu"
      BY <1>0, <2>1, I2CHanded, Zenon DEF Mxc6225xu
  <2> QED
      BY <2>3, <2>4 DEF OrderInv
<1>4. CASE script = "tca6408a"
  <2>1. PICK q \in I2CInputs("tca6408a") : Tca6408a(q)
      BY <1>0, <1>4, Chosen, Zenon
  <2>2. Since("tca6408a", {}, Ss, Ss, tail)
      BY <1>4, Zenon DEF OrderInv
  <2>3. InOrder /\ TailType' /\ Since("tca6408a", {}, Ss', Ss', tail')
      BY <1>0, <2>1, <2>2, Tca6408aOrder, Zenon
  <2>4. script' = "tca6408a"
      BY <1>0, <2>1, I2CHanded, Zenon DEF Tca6408a
  <2> QED
      BY <2>3, <2>4 DEF OrderInv
<1>5. CASE script = "pca9571"
  <2>1. PICK q \in I2CInputs("pca9571") : Pca9571(q)
      BY <1>0, <1>5, Chosen, Zenon
  <2>2. Pca9571Pd /\ Since("pca9571", {}, Ss, Ss, tail)
      BY <1>0, <1>5, Zenon DEF Known, OrderInv
  <2>3. InOrder /\ TailType' /\ Since("pca9571", {}, Ss', Ss', tail')
      BY <1>0, <2>1, <2>2, Pca9571Order, Zenon
  <2>4. script' = "pca9571"
      BY <1>0, <2>1, I2CHanded, Zenon DEF Pca9571
  <2> QED
      BY <2>3, <2>4 DEF OrderInv
<1>6. CASE script = "nunchuk"
  <2>1. PICK q \in I2CInputs("nunchuk") : Nunchuk(q)
      BY <1>0, <1>6, Chosen, Zenon
  <2>2. NunchukPd /\ Since("nunchuk", {"summary", "warnings"}, pd.ss_block, Ss, tail)
      BY <1>0, <1>6, Zenon DEF Known, OrderInv
  <2>3. InOrder /\ TailType' /\ Since("nunchuk", {"summary", "warnings"}, pd'.ss_block, Ss', tail')
      BY <1>0, <2>1, <2>2, NunchukOrder, Zenon
  <2>4. script' = "nunchuk"
      BY <1>0, <2>1, I2CHanded, Zenon DEF Nunchuk
  <2> QED
      BY <2>3, <2>4 DEF OrderInv
<1>7. CASE script = "lm75"
  <2>1. PICK q \in I2CInputs("lm75") : Lm75(q)
      BY <1>0, <1>7, Chosen, Zenon
  <2>2. Lm75Pd /\ Since("lm75", {}, Ss, Ss, tail)
      BY <1>0, <1>7, Zenon DEF Known, OrderInv
  <2>3. InOrder /\ TailType' /\ Since("lm75", {}, Ss', Ss', tail')
      BY <1>0, <2>1, <2>2, Lm75Order, Zenon
  <2>4. script' = "lm75"
      BY <1>0, <2>1, I2CHanded, Zenon DEF Lm75
  <2> QED
      BY <2>3, <2>4 DEF OrderInv
<1>8. CASE script = "mlx90614"
  <2>1. PICK q \in I2CInputs("mlx90614") : Mlx90614(q)
      BY <1>0, <1>8, Chosen, Zenon
  <2>2. Mlx90614Pd /\ Since("mlx90614", Mlx90614Rows, MlxMark, Ss, tail)
      BY <1>0, <1>8, Zenon DEF Known, OrderInv
  <2>3. InOrder /\ TailType' /\ Since("mlx90614", Mlx90614Rows, MlxMark', Ss', tail')
      BY <1>0, <2>1, <2>2, Mlx90614Order, Zenon
  <2>4. script' = "mlx90614"
      BY <1>0, <2>1, I2CHanded, Zenon DEF Mlx90614
  <2> QED
      BY <2>3, <2>4 DEF OrderInv
<1>9. CASE script = "hdcp"
  <2>1. PICK q \in I2CInputs("hdcp") : Hdcp(q)
      BY <1>0, <1>9, Chosen, Zenon
  <2>2. HdcpPd /\ Since("hdcp", HdcpRows, pd.ss_block, Ss, tail)
      BY <1>0, <1>9, Zenon DEF Known, OrderInv
  <2>3. InOrder /\ TailType' /\ Since("hdcp", HdcpRows, pd'.ss_block, Ss', tail')
      BY <1>0, <2>1, <2>2, HdcpOrder, Zenon
  <2>4. script' = "hdcp"
      BY <1>0, <2>1, I2CHanded, Zenon DEF Hdcp
  <2> QED
      BY <2>3, <2>4 DEF OrderInv
<1>10. CASE script = "ltc26x7"
  <2>1. PICK q \in I2CInputs("ltc26x7") : Ltc26x7(q)
      BY <1>0, <1>10, Chosen, Zenon
  <2>2. Ltc26x7Pd /\ Since("ltc26x7", LtcBlocks, LtcMark, Ss, tail)
      BY <1>0, <1>10, Zenon DEF Known, OrderInv
  <2>3. InOrder /\ TailType' /\ Since("ltc26x7", LtcBlocks, LtcMark', Ss', tail')
      BY <1>0, <2>1, <2>2, Ltc26x7Order, Zenon
  <2>4. script' = "ltc26x7"
      BY <1>0, <2>1, I2CHanded, Zenon DEF Ltc26x7
  <2> QED
      BY <2>3, <2>4 DEF OrderInv
<1>11. CASE script = "i2cfilter"
  <2>1. PICK q \in I2CInputs("i2cfilter") : I2cFilter(q)
      BY <1>0, <1>11, Chosen, Zenon
  <2>2. I2cFilterPd /\ Since("i2cfilter", {"i2c"}, TransferMark, Ss, tail)
      BY <1>0, <1>11, Zenon DEF Known, OrderInv
  <2>3. InOrder /\ TailType' /\ Since("i2cfilter", {"i2c"}, TransferMark', Ss', tail')
      BY <1>0, <2>1, <2>2, I2cFilterOrder, Zenon
  <2>4. script' = "i2cfilter"
      BY <1>0, <2>1, I2CHanded, Zenon DEF I2cFilter
  <2> QED
      BY <2>3, <2>4 DEF OrderInv
<1>12. CASE script = "i2cdemux"
  <2>1. PICK q \in I2CInputs("i2cdemux") : I2cDemux(q)
      BY <1>0, <1>12, Chosen, Zenon
  <2>2. I2cDemuxPd /\ Since("i2cdemux", I2cDemuxRows, TransferMark, Ss, tail)
      BY <1>0, <1>12, Zenon DEF Known, OrderInv
  <2>3. InOrder /\ TailType' /\ Since("i2cdemux", I2cDemuxRows, TransferMark', Ss', tail')
      BY <1>0, <2>1, <2>2, I2cDemuxOrder, Zenon
  <2>4. script' = "i2cdemux"
      BY <1>0, <2>1, I2CHanded, Zenon DEF I2cDemux
  <2> QED
      BY <2>3, <2>4 DEF OrderInv
<1> QED
    BY <1>0, <1>1, <1>2, <1>3, <1>4, <1>5, <1>6, <1>7, <1>8, <1>9, <1>10, <1>11, <1>12 DEF ProvedI2C

\* A step that hands nothing over.
LEMMA OrderStutter ==
    ASSUME OrderInv, UNCHANGED vars
    PROVE  OrderInv'
<1>1. script' = script /\ pd' = pd /\ count' = count /\ tail' = tail
    BY DEF vars
<1>2. Ss' = Ss
    BY <1>1 DEF Ss
<1>3. TailType' <=> TailType
    BY <1>1 DEF TailType
<1>4. MlxMark' = MlxMark /\ LtcMark' = LtcMark /\ TransferMark' = TransferMark
    BY <1>1, <1>2 DEF MlxMark, LtcMark, TransferMark
<1>5. \A name, blocks, mark : Since(name, blocks, mark, Ss, tail') <=> Since(name, blocks, mark, Ss, tail)
    BY <1>1, Zenon
<1> QED
    BY <1>1, <1>2, <1>3, <1>4, <1>5, ZenonT(60) DEF OrderInv

\* The annotations that these scripts put in a row rise, in one decode() and from one to
\* the next, except in the rows OutOfOrder names: RowData finds those that are visible by
\* bisection.
THEOREM OrderCorrect == Spec /\ script \in ProvedI2C => StartsInOrder
<1>1. Init /\ script \in ProvedI2C => OrderInv
  <2>1. Init => tail = <<>>
      BY Zenon DEF Init, Begin
  <2>2. tail = <<>> => DOMAIN tail = {}
      OBVIOUS
  <2> QED
      BY <2>1, <2>2 DEF OrderInv, Since, TailType
<1>2. ScriptInv /\ OrderInv /\ [Next]_vars => OrderInv'
    BY OrderKept, OrderStutter
<1>3. ScriptInv /\ OrderInv /\ [Next]_vars => [InOrder]_vars
    BY OrderKept
<1> QED
    BY <1>1, <1>2, <1>3, ScriptInvariant, PTL DEF Spec, StartsInOrder
===============================================================================
