---------------------------- MODULE OneWireScripts ----------------------------
(***************************************************************************)
(* The 1-Wire network script and the scripts of devices above it.  After a *)
(* reset of the bus they all stand where they began.                       *)
(***************************************************************************)
EXTENDS DecoderScript

OneWireTo(code) == IF code = "RESET/PRESENCE" THEN "idle" ELSE "bus"

(* onewire_network: bits make commands, addresses and bytes.  A step is a  *)
(* run of n bits which together are v when they complete what is awaited.  *)

Network0 == [state |-> "COMMAND", bit_cnt |-> 0, ss |-> 0]
\* command: what comes after it.
NetworkAfter(v) ==
    CASE v \in {\h33, \h0f, \h55, \h69, \h96} -> "GET ROM"
      [] v \in {\hcc, \h3c, \ha5} -> "TRANSPORT"
      [] v \in {\hf0, \hec} -> "SEARCH ROM"
      [] OTHER -> "COMMAND ERROR"
\* onewire_collect(), onewire_search(): a search has three bits for each of an address.
NetworkLength(state) ==
    CASE state = "GET ROM" -> 64
      [] state = "SEARCH ROM" -> 192
      [] OTHER -> 8
NetworkNext(state, v) ==
    CASE state = "COMMAND" -> NetworkAfter(v)
      [] state \in {"GET ROM", "SEARCH ROM"} -> "TRANSPORT"
      [] OTHER -> state

\* Mutant of NetworkBits: the start of a command is not noted.
NetworkBitsUnmarked(n, v) ==
    LET got == pd.bit_cnt + n
        ss == IF pd.bit_cnt = 0 /\ pd.state # "COMMAND" THEN Ss ELSE pd.ss
    IN CASE got < NetworkLength(pd.state) -> Become([pd EXCEPT !.bit_cnt = got, !.ss = ss])
         [] got = NetworkLength(pd.state) ->
              Return([state |-> NetworkNext(pd.state, v), bit_cnt |-> 0, ss |-> ss],
                     <<P("text", ss, Ss + Width * n, {ss})>>)
NetworkBits(n, v) ==
    LET got == pd.bit_cnt + n
        ss == IF pd.bit_cnt = 0 THEN Ss ELSE pd.ss
    IN CASE got < NetworkLength(pd.state) -> Become([pd EXCEPT !.bit_cnt = got, !.ss = ss])
         [] got = NetworkLength(pd.state) ->
              Return([state |-> NetworkNext(pd.state, v), bit_cnt |-> 0, ss |-> ss],
                     <<P("text", ss, Ss + Width * n, {ss})>>)
OneWireNetwork(q) ==
    /\ q.code = "BIT" => pd.bit_cnt + q.n <= NetworkLength(pd.state)
    /\ HandRun("onewire_network", q.n, OneWireTo(q.code))
    /\ CASE q.code = "RESET/PRESENCE" -> Return([pd EXCEPT !.state = "COMMAND", !.bit_cnt = 0], <<Byte("text", [cmd |-> q.code])>>)
         [] q.code = "BIT" -> NetworkBits(q.n, q.v)

(* ds243x, ds2408: byte by byte; what is put is told by the command and by *)
(* the number of the byte.  A step is a run of n bytes v.                  *)

Function0 == [first |-> Unknown, n |-> 0, ss |-> 0]
\* The bytes that make up the fields of a command, by their numbers, and the bytes that are
\* put on their own after byte number last.
Function(fields, last, values) == [fields |-> fields, last |-> last, values |-> values]
Ds243xFunction(command) ==
    CASE command = \h0f -> Function({<<2, 3>>, <<4, 11>>, <<12, 13>>}, 13, {})
      [] command = \haa -> Function({<<2, 3>>, <<4, 4>>, <<5, 12>>, <<13, 14>>}, 14, {})
      [] command = \h5a -> Function({<<2, 4>>}, 4, {\haa, \h55})
      [] command = \h33 -> Function({<<2, 3>>}, 3, {\haa, \h55})
      [] command = \h55 -> Function({<<2, 4>>, <<5, 24>>}, 24, {\haa, \h55, 0})
      [] command = \ha5 -> Function({<<2, 3>>, <<4, 35>>, <<36, 36>>, <<37, 38>>, <<39, 58>>, <<59, 60>>}, 60, {\haa, \h55})
      [] command = \hf0 -> Function({<<2, 3>>}, 3, 0..255)
      [] OTHER -> Function({}, 1, {})
\* The second byte of two commands is never put.
Ds2408Function(command) ==
    CASE command \in {\hf0, \hcc} -> Function({<<2, 3>>}, 3, 0..255)
      [] command \in {\hf5, \hc3} -> Function({}, 2, 0..255)
      [] command = \h5a -> Function({<<2, 3>>}, 3, {\haa, \hff})
      [] OTHER -> Function({}, 1, {})

\* decode() of byte number k, whose command began at ss.
FunctionByte(function, k, v, ss) ==
    LET at(i) == ss + Width * (i - 1)
        field(i) == Span("text", at(i), at(k), {at(j) : j \in i..k})
    IN {field(f[1]) : f \in {g \in function.fields : g[2] = k}}
       \cup (IF k = 1 \/ (k > function.last /\ v \in function.values) THEN {field(k)} ELSE {})
FunctionBytes(q, To(_)) ==
    LET first == IF pd.n = 0 THEN q.v ELSE pd.first
        ss == IF pd.n = 0 THEN Ss ELSE pd.ss
        anns == [k \in 1..(pd.n + q.n) |-> SetToSeq(FunctionByte(To(first), k, q.v, ss))]
    IN Return([first |-> first, n |-> pd.n + q.n, ss |-> ss], FlattenSeq(SubSeq(anns, pd.n + 1, pd.n + q.n)))
FunctionScript(name, q, To(_)) ==
    /\ HandRun(name, q.n, OneWireTo(q.code))
    /\ IF q.code = "DATA" THEN FunctionBytes(q, To)
       ELSE Return(Function0, <<Byte("text", [cmd |-> q.code])>>)   \* RESET/PRESENCE, ROM

Ds243x(q) == FunctionScript("ds243x", q, Ds243xFunction)
Ds2408(q) == FunctionScript("ds2408", q, Ds2408Function)

(* ds28ea00: nothing is shown of bytes that follow no address: a command   *)
(* after one that skips the address is passed over.                        *)

Ea0 == [state |-> "ROM"]
EaCommands == {\h4e, \hbe, \h48, \h44, \hb4, \hb8, \hf5, \ha5, \h99}
Ds28ea00(q) ==
    /\ HandRun("ds28ea00", q.n, OneWireTo(q.code))
    /\ LET whole == <<Byte("text", [cmd |-> q.code])>>
           To(state) == Return([state |-> state], whole)
       IN CASE q.code = "RESET/PRESENCE" -> To("ROM")
            [] q.code = "ROM" -> To("COMMAND")
            [] q.code = "DATA" /\ pd.state = "ROM" -> Ignore
            [] q.code = "DATA" /\ pd.state = "COMMAND" -> To(IF q.v \in EaCommands THEN "FUNCTION" ELSE "COMMAND")
            [] q.code = "DATA" /\ pd.state = "FUNCTION" -> To("FUNCTION")
=============================================================================
