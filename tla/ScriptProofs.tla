----------------------------- MODULE ScriptProofs -----------------------------
(***************************************************************************)
(* What the proofs about the decoder scripts share: where an annotation    *)
(* lies, which script a step belongs to, and how a promise about the       *)
(* annotations of one call follows from what is known of the script.       *)
(***************************************************************************)
EXTENDS DecoderScripts, TLAPS

-----------------------------------------------------------------------------
(* Annotations.                                                            *)

\* The annotations in the given rows that a script may put after n packets: of the
\* past, and over what they show, but for the rows that promise neither.
Fits(name, rows, n) ==
    {a \in [row : rows, ss : Int, es : Int, shown : SUBSET Int] :
        /\ \/ <<name, a.row>> \in NotOfThePast
           \/ 0 <= a.ss /\ a.ss <= a.es /\ a.es <= Width * n
        /\ \/ <<name, a.row>> \in OutOfPlace
           \/ \A b \in a.shown : b < a.es /\ a.ss < b + Width}

\* No two annotations of a row overlap, but in the rows that do not promise it.
Disjoint(name, anns) ==
    \A i, j \in DOMAIN anns :
        i < j /\ anns[i].row = anns[j].row
        => \/ <<name, anns[i].row>> \in Overlaid
           \/ anns[i].es <= anns[j].ss \/ anns[j].es <= anns[i].ss

\* What a call of the script has put.
Fine(name, rows) == put \in Seq(Fits(name, rows, count)) /\ Disjoint(name, put)

\* An annotation over what it shows, of the past.
LEMMA FitP ==
    ASSUME NEW name, NEW rows, NEW n \in Nat, NEW row \in rows,
           NEW ss \in Nat, NEW es \in Nat, NEW shown \in SUBSET Int,
           ss <= es, es <= Width * n, \A b \in shown : b < es /\ ss < b + Width
    PROVE  P(row, ss, es, shown) \in Fits(name, rows, n)
    BY DEF P, Fits, Width

\* An annotation that need not lie over what it shows.
LEMMA FitLoose ==
    ASSUME NEW name, NEW rows, NEW n \in Nat, NEW row \in rows,
           NEW ss \in Nat, NEW es \in Nat, NEW shown \in SUBSET Int,
           ss <= es, es <= Width * n, <<name, row>> \in OutOfPlace
    PROVE  P(row, ss, es, shown) \in Fits(name, rows, n)
    BY DEF P, Fits, Width

\* A note without content over its packet.
LEMMA FitNote ==
    ASSUME count \in Nat, NEW name, NEW rows, NEW row \in rows, NEW q
    PROVE  Note(row, q) \in Fits(name, rows, count + 1)
<1>1. Ss \in Nat /\ Es(q) \in Nat /\ Ss <= Es(q) /\ Es(q) <= Width * (count + 1)
    BY DEF Ss, Es, Width
<1> QED
    BY <1>1, FitP DEF Note

\* A byte in its own place.
LEMMA FitByte ==
    ASSUME count \in Nat, NEW name, NEW rows, NEW row \in rows, NEW q, q.cmd \notin Instants
    PROVE  Byte(row, q) \in Fits(name, rows, count + 1)
<1>1. Ss \in Nat /\ Es(q) = Ss + Width /\ Es(q) = Width * (count + 1) /\ Width = 8
    BY DEF Ss, Es, Width
<1> QED
    BY <1>1, FitP DEF Byte

\* Bits of a byte of the past, the highest of them first in time.
LEMMA FitBits ==
    ASSUME NEW name, NEW rows, NEW row \in rows, NEW n \in Nat,
           NEW at \in Nat, at + Width <= Width * n,
           NEW hi \in 0..7, NEW lo \in 0..7, lo <= hi
    PROVE  Bits(row, at, hi, lo) \in Fits(name, rows, n)
<1>1. /\ BitSs(at, hi) \in Nat /\ BitSs(at, lo) + 1 \in Nat
      /\ BitSs(at, hi) <= BitSs(at, lo) + 1 /\ BitSs(at, lo) + 1 <= Width * n
      /\ at < BitSs(at, lo) + 1 /\ BitSs(at, hi) < at + Width
    BY DEF BitSs, Width
<1> HIDE DEF BitSs
<1> QED
    BY <1>1, FitP DEF Bits

\* An annotation from the start of a transfer on that shows bytes of it, or none.
LEMMA FitBlock ==
    ASSUME count \in Nat, NEW name, NEW rows, NEW row \in rows, NEW q,
           NEW block \in Nat, block <= Ss, NEW shown \in SUBSET Int,
           \/ <<name, row>> \in OutOfPlace
           \/ \A b \in shown : block <= b /\ b + Width <= Ss
    PROVE  P(row, block, Es(q), shown) \in Fits(name, rows, count + 1)
<1>0. Ss + Width = Width * (count + 1)
    BY DEF Ss, Width
<1>1. Ss \in Nat /\ Width = 8
    BY DEF Ss, Width
<1>2. Es(q) = Ss \/ Es(q) = Ss + Width
    BY Zenon DEF Es
<1> HIDE DEF Ss, Width, Es
<1>3. Es(q) \in Nat /\ Ss <= Es(q) /\ Es(q) <= Ss + Width
    BY <1>1, <1>2
<1>4. Es(q) <= Width * (count + 1) /\ block <= Es(q)
    BY <1>0, <1>1, <1>3
<1>5. CASE <<name, row>> \in OutOfPlace
    BY <1>3, <1>4, <1>5, FitLoose
<1>6. CASE \A b \in shown : block <= b /\ b + Width <= Ss
  <2>1. \A b \in shown : b < Es(q) /\ block < b + Width
      BY <1>1, <1>3, <1>6
  <2> QED
      BY <1>3, <1>4, <2>1, FitP
<1> QED
    BY <1>5, <1>6

\* Sequences of few annotations.
LEMMA FineNone ==
    ASSUME NEW name, NEW S
    PROVE  <<>> \in Seq(S) /\ Disjoint(name, <<>>)
    BY DEF Disjoint

\* One annotation overlaps no other one.
LEMMA FineOne ==
    ASSUME NEW name, NEW S, NEW a \in S
    PROVE  <<a>> \in Seq(S) /\ Disjoint(name, <<a>>)
    BY DEF Disjoint

\* Two annotations need to lie apart only in one row.
LEMMA FineTwo ==
    ASSUME NEW name, NEW S, NEW a \in S, NEW b \in S,
           a.row = b.row => \/ <<name, a.row>> \in Overlaid
                            \/ a.es <= b.ss \/ b.es <= a.ss
    PROVE  <<a, b>> \in Seq(S) /\ Disjoint(name, <<a, b>>)
    BY DEF Disjoint

\* What is put after one another.
LEMMA FineJoin ==
    ASSUME NEW name, NEW S, NEW s \in Seq(S), NEW t \in Seq(S),
           Disjoint(name, s), Disjoint(name, t),
           \A i \in DOMAIN s, j \in DOMAIN t :
               s[i].row = t[j].row => \/ <<name, s[i].row>> \in Overlaid
                                      \/ s[i].es <= t[j].ss \/ t[j].es <= s[i].ss
    PROVE  s \o t \in Seq(S) /\ Disjoint(name, s \o t)
<1> DEFINE u == s \o t
<1>1. /\ u \in Seq(S) /\ DOMAIN u = 1..(Len(s) + Len(t)) /\ Len(s) \in Nat /\ Len(t) \in Nat
      /\ \A i \in DOMAIN u : u[i] = IF i <= Len(s) THEN s[i] ELSE t[i - Len(s)]
      /\ DOMAIN s = 1..Len(s) /\ DOMAIN t = 1..Len(t)
    OBVIOUS
<1> HIDE DEF u
<1>2. ASSUME NEW i \in DOMAIN u, NEW j \in DOMAIN u, i < j, u[i].row = u[j].row
      PROVE  \/ <<name, u[i].row>> \in Overlaid
             \/ u[i].es <= u[j].ss \/ u[j].es <= u[i].ss
  <2>1. CASE j <= Len(s)
    <3>1. i \in DOMAIN s /\ j \in DOMAIN s /\ u[i] = s[i] /\ u[j] = s[j]
        BY <1>1, <1>2, <2>1
    <3> QED
        BY <1>2, <3>1 DEF Disjoint
  <2>2. CASE i <= Len(s) /\ ~(j <= Len(s))
    <3>1. i \in DOMAIN s /\ j - Len(s) \in DOMAIN t /\ u[i] = s[i] /\ u[j] = t[j - Len(s)]
        BY <1>1, <1>2, <2>2
    <3> QED
        BY <1>2, <3>1, Zenon
  <2>3. CASE ~(i <= Len(s))
    <3>1. /\ i - Len(s) \in DOMAIN t /\ j - Len(s) \in DOMAIN t /\ i - Len(s) < j - Len(s)
          /\ u[i] = t[i - Len(s)] /\ u[j] = t[j - Len(s)]
        BY <1>1, <1>2, <2>3
    <3> QED
        BY <1>2, <3>1 DEF Disjoint
  <2> QED
      BY <2>1, <2>2, <2>3
<1>3. Disjoint(name, u)
    BY <1>2 DEF Disjoint
<1> QED
    BY <1>1, <1>3 DEF u

\* Fields of a byte, put one by one from the highest or the lowest on, or in any order.
LEMMA BitRun ==
    ASSUME count \in Nat, NEW name, NEW rows, NEW row \in rows, NEW n \in Nat,
           NEW hi \in [1..n -> 0..7], NEW lo \in [1..n -> 0..7],
           \A i \in 1..n : lo[i] <= hi[i],
           \A i, j \in 1..n : i < j => hi[i] < lo[j] \/ hi[j] < lo[i]
    PROVE  LET s == [i \in 1..n |-> Bits(row, Ss, hi[i], lo[i])]
           IN s \in Seq(Fits(name, rows, count + 1)) /\ Disjoint(name, s)
<1> DEFINE s == [i \in 1..n |-> Bits(row, Ss, hi[i], lo[i])]
           Fit == Fits(name, rows, count + 1)
<1>1. Ss \in Nat /\ Ss + Width <= Width * (count + 1) /\ count + 1 \in Nat
    BY DEF Ss, Width
<1> HIDE DEF Ss
<1>2. \A i \in 1..n : /\ Bits(row, Ss, hi[i], lo[i]).ss = Ss + 7 - hi[i]
                     /\ Bits(row, Ss, hi[i], lo[i]).es = Ss + 8 - lo[i]
    BY <1>1 DEF Bits, BitSs, P
<1>3. \A i \in 1..n : Bits(row, Ss, hi[i], lo[i]) \in Fit
    BY <1>1, FitBits
<1> HIDE DEF Fit
<1>4. s \in Seq(Fit) /\ DOMAIN s = 1..n /\ \A i \in 1..n : s[i] = Bits(row, Ss, hi[i], lo[i])
    BY <1>3
<1> HIDE DEF s
<1>5. \A i \in 1..n : s[i].ss = Ss + 7 - hi[i] /\ s[i].es = Ss + 8 - lo[i]
    BY <1>2, <1>4
<1>6. Disjoint(name, s)
  <2> SUFFICES ASSUME NEW i \in 1..n, NEW j \in 1..n, i < j
               PROVE  s[i].es <= s[j].ss \/ s[j].es <= s[i].ss
      BY <1>4 DEF Disjoint
  <2>1. /\ hi[i] \in Int /\ lo[i] \in Int /\ hi[j] \in Int /\ lo[j] \in Int
        /\ hi[i] < lo[j] \/ hi[j] < lo[i]
      OBVIOUS
  <2>2. s[i].ss = Ss + 7 - hi[i] /\ s[i].es = Ss + 8 - lo[i]
      BY <1>5
  <2>3. s[j].ss = Ss + 7 - hi[j] /\ s[j].es = Ss + 8 - lo[j]
      BY <1>5
  <2> DEFINE hi1 == hi[i] lo1 == lo[i] hi2 == hi[j] lo2 == lo[j]
  <2> HIDE DEF hi1, lo1, hi2, lo2
  <2>4. Ss + 8 - lo1 <= Ss + 7 - hi2 \/ Ss + 8 - lo2 <= Ss + 7 - hi1
      BY <1>1, <2>1, SMTT(30) DEF hi1, lo1, hi2, lo2
  <2> QED
      BY <2>2, <2>3, <2>4, Zenon DEF hi1, lo1, hi2, lo2
<1> QED
    BY <1>4, <1>6 DEF Fit, s

\* What a call puts that puts few annotations.
LEMMA FinePut ==
    ASSUME NEW name, NEW rows, count' = count + 1,
           \/ put' = <<>>
           \/ \E a \in Fits(name, rows, count + 1) : put' = <<a>>
           \/ \E a, b \in Fits(name, rows, count + 1) :
                 put' = <<a, b>> /\ (a.row # b.row \/ a.es <= b.ss \/ b.es <= a.ss)
           \/ put' \in Seq(Fits(name, rows, count + 1)) /\ Disjoint(name, put')
    PROVE  Fine(name, rows)'
<1> DEFINE S == Fits(name, rows, count + 1)
<1>1. put' \in Seq(S) /\ Disjoint(name, put')
  <2>1. CASE put' = <<>>
      BY <2>1, FineNone
  <2>2. ASSUME NEW a \in S, put' = <<a>>
        PROVE  put' \in Seq(S) /\ Disjoint(name, put')
      BY <2>2, FineOne, Zenon
  <2>3. ASSUME NEW a \in S, NEW b \in S,
               put' = <<a, b>>, a.row # b.row \/ a.es <= b.ss \/ b.es <= a.ss
        PROVE  put' \in Seq(S) /\ Disjoint(name, put')
    <3>1. <<a, b>> \in Seq(S) /\ Disjoint(name, <<a, b>>)
        BY <2>3, FineTwo, Zenon
    <3> QED
        BY <2>3, <3>1, Zenon
  <2> QED
      BY <2>1, <2>2, <2>3
<1>2. put' \in Seq(Fits(name, rows, count'))
    BY <1>1
<1> QED
    BY <1>1, <1>2 DEF Fine, Disjoint

-----------------------------------------------------------------------------
(* A step belongs to the script that runs.                                 *)

\* Inputs are there for the script that runs only.
LEMMA ForStep ==
    /\ \A name, S, x : x \in For(name, S) => script = name
    /\ \A name, x : x \in I2CInputs(name) => script = name
    /\ \A name, x : x \in RunsOf(name) => script = name
    /\ \A name, inputs, at, x : x \in Placed(name, inputs, at) => script = name
    /\ \A name, at, x : x \in SPIInputs(name, at) => script = name
<1>1. \A name, S, x : x \in For(name, S) => script = name
    BY Zenon DEF For
<1> QED
    BY <1>1, Zenon DEF I2CInputs, RunsOf, Placed, SPIInputs

\* A step of the SPI scripts.
LEMMA SPIStep == SPINext => script \in SPIScripts
    BY ForStep, Zenon DEF SPINext, SPIScripts

\* A step of the UART scripts; modbus starts with sides of its own.
LEMMA UARTStep == UARTNext => script \in UARTScripts \cup {"modbus"}
    BY ForStep, Zenon DEF UARTNext, UARTScripts

\* A step of the I2C scripts.
LEMMA I2CStep == I2CNext => script \in I2CScripts
<1>1. \A content : Xfp(content) => script = "xfp"
    BY Zenon DEF Xfp
<1> QED
    BY <1>1, ForStep, Zenon DEF I2CNext, I2CScripts

\* A step of the other scripts; ook_vis starts with options of its own.
LEMMA OtherStep == OtherNext => script \in OtherScripts \cup {"ook_vis"}
    BY ForStep, Zenon DEF OtherNext, OtherScripts

\* A call of a script on top of I2C.
LEMMA I2CHanded ==
    ASSUME count \in Nat, NEW name, NEW q, I2CHand(name, q)
    PROVE  /\ script = name /\ script' = name
           /\ q.cmd \in I2CFollows[line] /\ line' = I2CLeads(line, q.cmd)
           /\ outcome = "returned"
           /\ count' = count + 1 /\ count' \in Nat
           /\ Ss \in Nat /\ Ss' = Ss + Width /\ Ss + Width = Width * (count + 1)
           /\ Width = 8
<1>1. /\ script = name /\ q.cmd \in I2CFollows[line] /\ line' = I2CLeads(line, q.cmd)
      /\ count' = count + 1 /\ script' = script /\ outcome = "returned"
    BY Zenon DEF I2CHand, Hand, HandRun
<1> QED
    BY <1>1 DEF Ss, Width

\* What the bytes of a packet may be.
LEMMA I2CInput ==
    ASSUME NEW name, NEW q \in I2CInputs(name)
    PROVE  /\ IsData(q) => q.v \in Bytes[name]
           /\ IsAddress(q) => q.v \in Slaves[name]
<1>1. q \in I2CConditions \cup I2CAddresses(Slaves[name]) \cup I2CData(Bytes[name])
    BY Zenon DEF I2CInputs, For
<1>2. q \in I2CConditions => ~IsData(q) /\ ~IsAddress(q)
  <2> DEFINE C == {"START", "START REPEAT", "STOP", "ACK", "NACK"}
  <2>1. \A c \in C : c \notin {"DATA READ", "DATA WRITE", "ADDRESS READ", "ADDRESS WRITE"}
      OBVIOUS
  <2>2. q \in I2CConditions => \E c \in C : q = [cmd |-> c, v |-> 0]
      BY Zenon DEF I2CConditions
  <2> HIDE DEF C
  <2>3. \A c \in C : q = [cmd |-> c, v |-> 0] => q.cmd = c
      OBVIOUS
  <2> QED
      BY <2>1, <2>2, <2>3 DEF IsData, IsAddress
<1>3. q \in I2CAddresses(Slaves[name]) => ~IsData(q) /\ q.v \in Slaves[name]
    BY DEF I2CAddresses, IsData, IsAddress
<1>4. q \in I2CData(Bytes[name]) => ~IsAddress(q) /\ q.v \in Bytes[name]
    BY DEF I2CData, IsData, IsAddress
<1> QED
    BY <1>1, <1>2, <1>3, <1>4

\* Where packets end.
LEMMA PacketEnds ==
    ASSUME NEW q
    PROVE  /\ (IsAddress(q) \/ IsData(q)) => (Es(q) = Ss + Width /\ q.cmd \notin Instants)
           /\ q.cmd \in {"START", "START REPEAT", "STOP"} => Es(q) = Ss
           /\ Es(q) = Ss \/ Es(q) = Ss + Width
<1>1. IsAddress(q) \/ IsData(q) => q.cmd \notin Instants
    BY Zenon DEF IsAddress, IsData, Instants
<1>2. q.cmd \in {"START", "START REPEAT", "STOP"} => q.cmd \in Instants
    BY Zenon DEF Instants
<1> QED
    BY <1>1, <1>2, Zenon DEF Es
=============================================================================
