------------------------------ MODULE USBScripts ------------------------------
(***************************************************************************)
(* The scripts above the USB signalling script: packets out of bits, and   *)
(* transfers out of packets.                                               *)
(***************************************************************************)
EXTENDS DecoderScript

(* usb_packet: a step is a packet of n bits, each as long as a byte        *)
(* elsewhere, between the start and the end (or an error) of the packet.   *)

UsbBit(i) == Ss + Width * (i + 1)
UsbField(first, last) == Span("fields", UsbBit(first), UsbBit(last), {UsbBit(i) : i \in first..last})

\* pids, get_category(): the kinds of packet that are told apart.
UsbTokens == {"OUT", "IN", "SETUP", "PING"}
UsbDatas == {"DATA0", "DATA1", "DATA2", "MDATA"}
UsbOthers == {"ACK", "NAK", "STALL", "NYET", "PRE", "SPLIT", "Reserved", "UNKNOWN"}

\* The data bytes of a packet: a last one that is cut off reaches into the checksum.
UsbDataBytes(n) == [k \in 1..((n - 25) \div 8) |-> UsbField(8 + 8 * k, 15 + 8 * k)]

\* handle_packet(): the fields up to where the packet is too short.
UsbFields(n, pid) ==
    LET sync == IF n < 8 THEN <<>> ELSE <<UsbField(0, 7)>>
        id == IF n < 16 THEN <<>> ELSE <<UsbField(8, 15)>>
    IN sync \o id \o
       CASE n < 16 \/ pid \in UsbOthers \/ (n < 32 /\ pid \in UsbTokens \cup {"SOF"}) -> <<>>
         [] n >= 32 /\ pid = "SOF" -> <<UsbField(16, 26), UsbField(27, 31)>>
         [] n >= 32 /\ pid \in UsbTokens -> <<UsbField(16, 22), UsbField(23, 26), UsbField(27, 31)>>
         [] n >= 16 /\ pid \in UsbDatas ->
              (IF n < 33 THEN <<>> ELSE UsbDataBytes(n)) \o (IF n = 16 THEN <<>> ELSE <<UsbField(n - 16, n - 1)>>)
UsbSummary(n, pid) ==
    LET shown == CASE n < 16 \/ (n < 32 /\ pid \in UsbTokens \cup {"SOF"}) -> {}
                   [] n >= 32 /\ pid \in UsbTokens \cup {"SOF"} -> 8..26
                   [] n > 16 /\ pid \in UsbDatas -> 8..(n - 17)
                   [] OTHER -> 8..15
    IN P("packet", Ss, UsbBit(n) + Width, {UsbBit(i) : i \in shown})

UsbPacket(n, pid) ==
    /\ HandRun("usb_packet", n + 2, "idle")
    /\ IF n = 16 /\ pid \in UsbDatas   \* there is no bit 16
       THEN Fail(UsbFields(n, pid))
       ELSE Return(pd, Append(UsbFields(n, pid), UsbSummary(n, pid)))

(* usb_request: packets make transactions, transactions make requests, of  *)
(* which one may be open for every endpoint of the one device.  A step is  *)
(* a packet, which may come after a pause of gap packets.                  *)

Usb0 == [state |-> "IDLE", ss |-> 0, es |-> 0, ep |-> 0, type |-> "", data |-> 0, setup |-> "", shown |-> {}, request |-> <<>>]
UsbReqAt(gap) == Ss + Width * gap

\* request_summary(), handle_request(): the row of a request that has ended, with the
\* bytes it was made of.  There is no text without the handshake that is part of it.
UsbReqRow(type) ==
    CASE type \in {"SETUP IN", "SETUP OUT"} -> "request-setup"
      [] type = "BULK IN" -> "request-in"
      [] type = "BULK OUT" -> "request-out"
UsbReqPut(r, es) == <<P(UsbReqRow(r.type), r.ss, es, r.shown)>>
UsbReqDrop(f) == [f EXCEPT !.request = Restrict(@, DOMAIN @ \ {f.ep})]

\* handle_transfer(), up to the stages: a setup ends a control request that is open,
\* and a request that is not open begins.
UsbStalled(f) ==
    /\ f.type = "SETUP"
    /\ f.ep \in DOMAIN f.request
    /\ f.request[f.ep].type \in {"SETUP IN", "SETUP OUT"}
UsbOpened(f) ==
    IF f.ep \in DOMAIN f.request /\ ~UsbStalled(f) THEN f.request[f.ep]
    ELSE [type |-> "none", ss |-> f.ss, acked |-> FALSE, shown |-> {}]

\* The stages: what becomes of the request, and whether its summary is put.
UsbStage(r, f, handshake, end) ==
    LET Grow(g) == [g EXCEPT !.shown = @ \cup f.shown]
        To(g, put1) == [r |-> g, put |-> put1]
    IN CASE r.type \in {"none", "BULK IN"} /\ f.type = "IN" -> To([Grow(r) EXCEPT !.type = "BULK IN"], end)
         [] r.type \in {"none", "BULK OUT"} /\ f.type = "OUT" ->
              To([(IF handshake = "ACK" THEN Grow(r) ELSE r) EXCEPT !.type = "BULK OUT"], end)
         [] r.type = "none" /\ f.type = "SETUP" ->
              To([r EXCEPT !.type = f.setup, !.shown = f.shown], FALSE)
         [] r.type = "SETUP IN" /\ f.type = "IN" -> To(Grow(r), FALSE)
         [] r.type = "SETUP OUT" /\ f.type = "OUT" -> To(IF handshake = "ACK" THEN Grow(r) ELSE r, FALSE)
         [] \/ r.type = "SETUP IN" /\ f.type = "OUT"
            \/ r.type = "SETUP OUT" /\ f.type = "IN" -> To(r, end)
         [] OTHER -> To(r, FALSE)   \* a setup while a bulk request is open

\* handle_transfer(): the transaction f ends at es.  A setup of less than eight
\* bytes cannot be unpacked.
UsbTransfer(f, es, handshake) ==
    LET end == handshake \in {"ACK", "STALL", "timeout"}
        opened == UsbOpened(f)
        r == [opened EXCEPT !.acked = @ \/ end]
        stage == UsbStage(r, f, handshake, end)
        lost == UsbStalled(f) /\ ~f.request[f.ep].acked
        before == IF UsbStalled(f) /\ ~lost THEN UsbReqPut(f.request[f.ep], f.ss) ELSE <<>>
        next == [f EXCEPT !.state = "IDLE", !.es = es]
    IN [f |-> IF stage.put THEN UsbReqDrop(next) ELSE [next EXCEPT !.request = (f.ep :> stage.r) @@ @],
        anns |-> before \o (IF stage.put THEN UsbReqPut(stage.r, es) ELSE <<>>),
        fails |-> lost \/ (f.type = "SETUP" /\ r.type = "none" /\ f.data < 8)]

UsbError(f, ss) == Return(f, <<P("errors", ss, ss + Width, {})>>)

\* A token: it ends a transaction that has waited for data or a handshake for half the
\* length of its token.
UsbToken(name, ep, gap) ==
    LET ss == UsbReqAt(gap)
        timeout == pd.es + (pd.es - pd.ss) \div 2
        late == pd.state = "TOKEN RECEIVED" /\ ss > timeout
        ended == IF late THEN UsbTransfer(pd, timeout, "timeout") ELSE [f |-> pd, anns |-> <<>>, fails |-> FALSE]
    IN CASE ended.fails -> Fail(ended.anns)
         [] ~ended.fails /\ ended.f.state # "IDLE" -> UsbError(ended.f, ss)
         [] OTHER -> Return([ended.f EXCEPT !.state = "TOKEN RECEIVED", !.ss = ss, !.es = ss + Width, !.type = name,
                                            !.ep = ep, !.data = 0, !.shown = {}], ended.anns)
UsbData(n, setup, gap) ==
    LET ss == UsbReqAt(gap)
    IN IF pd.state = "TOKEN RECEIVED"
       THEN Become([pd EXCEPT !.state = "DATA RECEIVED", !.data = n, !.setup = setup,
                            !.shown = IF n = 0 THEN {} ELSE {ss}])
       ELSE UsbError(pd, ss)
UsbHandshake(name, gap) ==
    LET ss == UsbReqAt(gap)
        ended == UsbTransfer(pd, ss + Width, name)
    IN CASE pd.state = "IDLE" -> UsbError(pd, ss)
         [] pd.state # "IDLE" /\ ended.fails -> Fail(ended.anns)
         [] OTHER -> Return(ended.f, ended.anns)

\* decode(): packet q.  Of the data only the length matters and, in a setup, the
\* direction it asks for.
UsbRequest(q, gap) ==
    /\ HandRun("usb_request", gap + 1, "idle")
    /\ CASE q.cat = "TOKEN" -> UsbToken(q.name, q.ep, gap)
         [] q.cat = "DATA" -> UsbData(q.n, q.setup, gap)
         [] q.cat = "HANDSHAKE" -> UsbHandshake(q.name, gap)
         [] q.cat = "SPECIAL" -> UsbError(pd, UsbReqAt(gap))
         [] q.cat = "ignored" -> Ignore   \* SOF and PRE
=============================================================================
