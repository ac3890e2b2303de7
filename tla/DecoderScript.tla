---------------------------- MODULE DecoderScript ----------------------------
(***************************************************************************)
(* What the stacked protocol decoder scripts have in common.  The script   *)
(* of the layer below hands packets over one after the other (its put() of *)
(* an OUTPUT_PYTHON runs decode() of every script stacked on it); decode() *)
(* changes the attributes of the Decoder object and puts annotations.      *)
(*                                                                         *)
(* Samples are counted in packets.  Packet n takes the Width samples from  *)
(* Width * n on: a byte lasts them all, its bits one each, a condition on  *)
(* the bus only the first.                                                 *)
(***************************************************************************)
EXTENDS Integers, SequencesExt, FiniteSets, TLC

CONSTANT MaxCalls   \* per script, how often the layer below hands packets over

VARIABLES
    script,   \* the decoder that runs
    pd,       \* the attributes of its object that outlive a call
    line,     \* where the layer below stands in its grammar of packets
    count,    \* how many packets it has handed over
    calls,    \* in how many steps
    put,      \* the annotations the last call has put
    tail,     \* per annotation row, where those of the last call that put any start
    outcome   \* how the last call ended

vars == <<script, pd, line, count, calls, put, tail, outcome>>

Width == 8

\* Packets that mark an instant.
Instants == {"START", "START REPEAT", "STOP", "CS-CHANGE", "TRANSFER", "OTHER"}

\* decode(ss, es, data): where packet q starts and ends, and bit i of a byte.
Ss == Width * count
Es(q) == IF q.cmd \in Instants THEN Ss ELSE Ss + Width
BitSs(ss, i) == ss + 7 - i

\* An annotation: its row, its span, and the bytes its text shows, each by the
\* sample at which it was sent (Unknown: a value that was never sent).
P(row, ss, es, shown) == [row |-> row, ss |-> ss, es |-> es, shown |-> shown]
Unknown == -1
Forever == 10000   \* the end -1, which is taken for a sample number beyond all others
\* An annotation over the bytes at first to last.
Span(row, first, last, shown) == P(row, first, last + Width, shown)

\* put() in a row of its own packet, with the byte of that packet or without it.
Byte(row, q) == P(row, Ss, Es(q), {Ss})
Note(row, q) == P(row, Ss, Es(q), {})
\* put() over the bits hi down to lo of the byte at ss.
Bits(row, ss, hi, lo) == P(row, BitSs(ss, hi), BitSs(ss, lo) + 1, {ss})

\* put(ss, es, out_ann, ...), in the order of the calls.
Show(anns) ==
    LET rows == {anns[i].row : i \in DOMAIN anns}
        Starts(row) == {anns[i].ss : i \in {j \in DOMAIN anns : anns[j].row = row}}
    IN /\ put' = anns
       /\ tail' = [r \in rows \cup DOMAIN tail |-> IF r \in rows THEN Starts(r) ELSE tail[r]]

\* decode() returns with the attributes at f, having put anns.
Return(f, anns) == pd' = f /\ outcome' = "returned" /\ Show(anns)
Become(f) == Return(f, <<>>)
Goto(state) == Become([pd EXCEPT !.state = state])
Ignore == Become(pd)

\* decode() is left by an exception after it has put anns, or never left.  The
\* library logs the exception and hands the next packet over as if nothing had
\* happened; what a script does from there on is not followed.
Fail(anns) == outcome' = "raised" /\ UNCHANGED pd /\ Show(anns)
Hang == outcome' = "endless" /\ UNCHANGED pd /\ Show(<<>>)

\* The layer below hands n packets over, of which only the last one makes the
\* script act, and moves to `to'.
HandRun(name, n, to) ==
    /\ script = name
    /\ outcome = "returned"
    /\ calls < MaxCalls[script]
    /\ calls' = calls + 1
    /\ count' = count + n
    /\ line' = to
    /\ UNCHANGED script
Hand(name, to) == HandRun(name, 1, to)

Begin(name, attributes, rest) ==
    /\ script = name
    /\ pd = attributes
    /\ line = rest
    /\ count = 0
    /\ calls = 0
    /\ put = <<>>
    /\ tail = <<>>
    /\ outcome = "returned"
=============================================================================
