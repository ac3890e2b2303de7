-------------------------- MODULE DecoderInstProofs --------------------------
(***************************************************************************)
(* Proofs about DecoderInst, for captures of any length, any condition     *)
(* lists and any start sample.                                             *)
(***************************************************************************)
EXTENDS DecoderInst, TLAPS

-----------------------------------------------------------------------------
(* The inductive invariant of the hand-over.                               *)

\* The worker is past the end of decode().
Gone == worker.pc \in {"finish", "exited"}

\* There is a worker exactly while the instance has a thread to join, except
\* between the join and the reset.
ThreadPart ==
    /\ di.thread => worker.pc # "none"
    /\ ~di.thread => worker.pc = "none" \/ (caller.pc = "reset" /\ worker.pc = "exited")
    /\ caller.pc \in {"push", "check", "asleep", "sent", "end", "ending", "term", "join"} => di.thread
    /\ caller.pc \in {"reset", "resetting", "closed"} => ~di.thread
    /\ caller.pc = "idle" /\ caller.result = "ok" => di.thread

\* A request to terminate comes from the join or from a worker that is gone.
WantPart ==
    /\ Gone => di.want
    /\ di.want => Gone \/ caller.pc = "join"

\* What the worker knows at its positions inside wait().
WorkerPart ==
    /\ worker.pc = "asleep" => ~di.got /\ ~di.want
    /\ worker.pc \in {"scan", "reply"} => di.got \/ di.want
    /\ worker.pc = "reply" /\ worker.found => di.got /\ ~di.want /\ di.cur < di.end
    /\ worker.pc = "reply" /\ ~worker.found /\ ~di.want => di.cur = di.end

\* A chunk that a living worker has not handled is the caller's current one.
ChunkPart ==
    di.got /\ ~Gone =>
        /\ caller.pc \in {"check", "asleep"}
        /\ di.inbuf /\ ~di.handled
        /\ di.start <= di.cur /\ di.cur <= di.end /\ di.end = caller.last

\* The chunk about to be pushed is the next one.
PushPart == caller.pc = "push" => caller.first = di.cur /\ caller.first <= caller.last

\* The worker awaits the next chunk after the whole of the last one.
Settled == Awaiting /\ ~di.got /\ ~di.want /\ di.cur = caller.last

\* The caller goes on only when the chunk is handled or the worker gone.
CallerPart ==
    /\ caller.pc \in {"check", "asleep"} /\ ~Gone /\ ~di.got => Settled /\ di.handled
    /\ caller.pc = "sent" /\ ~Gone => Settled
    /\ caller.pc = "idle" /\ caller.result = "ok" => Settled
    /\ caller.pc \in {"end", "ending"} => Settled
    /\ caller.pc = "asleep" => ~di.handled /\ ~di.want
    /\ caller.pc \in {"term", "join", "reset", "resetting"} => caller.result # "ok"

HandOver == ThreadPart /\ WantPart /\ WorkerPart /\ ChunkPart /\ PushPart /\ CallerPart

-----------------------------------------------------------------------------
(* Type correctness.                                                       *)

LEMMA TypeInit == Init => TypeOK
BY StreamAssumption DEF Init, TypeOK, FreshInst, FreshWait, NoWorker, InstType, WaitType,
       WorkerType, CallerType, CallerPC, WorkerPC, Pos, Same

\* Every action keeps the types; the length of a scan is a natural number.
LEMMA TypeNext == TypeOK /\ HandOver /\ [Next]_vars => TypeOK'
<1> SUFFICES ASSUME TypeOK, HandOver, [Next]_vars PROVE TypeOK'
    OBVIOUS
<1> USE ConstantsAssumption, StreamAssumption DEF CallerAt, CallerGoto, WorkerAt, WorkerGoto, SignalWorker, SignalCaller, Same, Pos, Pin, CallerPC, WorkerPC, FreshInst, FreshWait, NoWorker
<1>1. ASSUME NEW start \in Starts, OpenSession(start) PROVE TypeOK'
    BY <1>1 DEF TypeOK, InstType, WaitType, WorkerType, CallerType, OpenSession
<1>2. ASSUME NEW start \in Pos, NEW end \in Pos, SendChunk(start, end) PROVE TypeOK'
    <2>1. UNCHANGED <<data, wait>>
        BY <1>2 DEF TypeOK, SendChunk
    <2>2. di' \in InstType
        <3>1. di' = di \/ di' = [di EXCEPT !.thread = TRUE]
            BY <1>2 DEF SendChunk
        <3> QED
            BY <3>1 DEF TypeOK, InstType
    <2>3. worker' \in WorkerType
        BY <1>2 DEF TypeOK, SendChunk, WorkerType
    <2>4. caller' \in CallerType
        BY <1>2 DEF TypeOK, SendChunk, CallerType
    <2> QED
        BY <2>1, <2>2, <2>3, <2>4 DEF TypeOK
<1>3. ASSUME NEW start \in Pos, NEW end \in Pos, RejectChunk(start, end) PROVE TypeOK'
    <2>1. UNCHANGED <<data, di, wait, worker>>
        BY <1>3 DEF TypeOK, RejectChunk
    <2>2. caller' \in CallerType
        BY <1>3 DEF TypeOK, RejectChunk, CallerType
    <2> QED
        BY <2>1, <2>2 DEF TypeOK
<1>4. CASE PushChunk
    <2>1. UNCHANGED <<data, wait>>
        BY <1>4 DEF PushChunk
    <2>2. di' \in InstType
        <3>1. /\ di.cur \in Pos /\ di.want \in BOOLEAN /\ di.failed \in BOOLEAN
              /\ di.thread \in BOOLEAN /\ di.old \in {0, 1, Same} /\ di.conds \in BOOLEAN
              /\ di.match \in SUBSET Term
            BY DEF TypeOK, InstType
        <3>2. caller.first \in Pos /\ caller.last \in Pos
            BY DEF TypeOK, CallerType
        <3>3. di' = [di EXCEPT !.start = caller.first, !.end = caller.last, !.inbuf = TRUE,
                               !.got = TRUE, !.handled = FALSE]
            BY <1>4 DEF PushChunk
        <3>4. di' = [cur |-> di.cur, start |-> caller.first, end |-> caller.last, inbuf |-> TRUE,
                     got |-> TRUE, handled |-> FALSE, want |-> di.want, failed |-> di.failed,
                     thread |-> di.thread, old |-> di.old, conds |-> di.conds,
                     match |-> di.match]
            BY <3>3 DEF TypeOK, InstType
        <3> QED
            BY <3>1, <3>2, <3>4 DEF InstType
    <2>3. worker' \in WorkerType
        BY <1>4 DEF TypeOK, PushChunk, WorkerType
    <2>4. caller' \in CallerType
        BY <1>4 DEF TypeOK, PushChunk, CallerType
    <2> QED
        BY <2>1, <2>2, <2>3, <2>4 DEF TypeOK
<1>5. CASE CheckHandled
    <2>1. UNCHANGED <<data, di, wait, worker>>
        BY <1>5 DEF CheckHandled
    <2>2. caller' \in CallerType
        BY <1>5 DEF TypeOK, CheckHandled, CallerType
    <2> QED
        BY <2>1, <2>2 DEF TypeOK
<1>6. CASE Sent
    <2>1. UNCHANGED <<data, di, wait, worker>>
        BY <1>6 DEF TypeOK, Sent
    <2>2. caller' \in CallerType
        BY <1>6 DEF TypeOK, Sent, CallerType
    <2> QED
        BY <2>1, <2>2 DEF TypeOK
<1>7. CASE SessionEnd
    <2>1. UNCHANGED <<data, di, wait, worker>>
        BY <1>7 DEF SessionEnd
    <2>2. caller' \in CallerType
        BY <1>7 DEF TypeOK, SessionEnd, CallerType
    <2> QED
        BY <2>1, <2>2 DEF TypeOK
<1>8. CASE TakeGilForEnd
    <2>1. UNCHANGED <<data, di, wait, worker>>
        BY <1>8 DEF TakeGilForEnd
    <2>2. caller' \in CallerType
        BY <1>8 DEF TypeOK, TakeGilForEnd, CallerType
    <2> QED
        BY <2>1, <2>2 DEF TypeOK
<1>9. CASE EndHook
    <2>1. UNCHANGED <<data, di, wait, worker>>
        BY <1>9 DEF TypeOK, EndHook
    <2>2. caller' \in CallerType
        BY <1>9 DEF TypeOK, EndHook, CallerType
    <2> QED
        BY <2>1, <2>2 DEF TypeOK
<1>10. ASSUME NEW op \in {"close", "reset"}, Terminate(op) PROVE TypeOK'
    <2>1. UNCHANGED <<data, di, wait, worker>>
        BY <1>10 DEF TypeOK, Terminate
    <2>2. caller' \in CallerType
        BY <1>10 DEF TypeOK, Terminate, CallerType
    <2> QED
        BY <2>1, <2>2 DEF TypeOK
<1>11. CASE RequestTermination
    <2>1. UNCHANGED <<data, wait>>
        BY <1>11 DEF RequestTermination
    <2>2. di' \in InstType
        BY <1>11 DEF TypeOK, RequestTermination, InstType
    <2>3. worker' \in WorkerType
        BY <1>11 DEF TypeOK, RequestTermination, WorkerType
    <2>4. caller' \in CallerType
        BY <1>11 DEF TypeOK, RequestTermination, CallerType
    <2> QED
        BY <2>1, <2>2, <2>3, <2>4 DEF TypeOK
<1>12. CASE JoinWorker
    <2>1. UNCHANGED <<data, wait, worker>>
        BY <1>12 DEF JoinWorker
    <2>2. di' \in InstType
        BY <1>12 DEF TypeOK, JoinWorker, InstType
    <2>3. caller' \in CallerType
        BY <1>12 DEF TypeOK, JoinWorker, CallerType
    <2> QED
        BY <2>1, <2>2, <2>3 DEF TypeOK
<1>13. CASE ResetInst
    <2>1. UNCHANGED <<data>>
        BY <1>13 DEF TypeOK, ResetInst
    <2>2. di' \in InstType
        BY <1>13 DEF TypeOK, ResetInst, InstType
    <2>3. wait' \in WaitType
        BY <1>13 DEF TypeOK, ResetInst, WaitType
    <2>4. worker' \in WorkerType
        BY <1>13 DEF TypeOK, ResetInst, WorkerType
    <2>5. caller' \in CallerType
        BY <1>13 DEF TypeOK, ResetInst, CallerType
    <2> QED
        BY <2>1, <2>2, <2>3, <2>4, <2>5 DEF TypeOK
<1>14. CASE ResetDone
    <2>1. UNCHANGED <<data, di, wait, worker>>
        BY <1>14 DEF TypeOK, ResetDone
    <2>2. caller' \in CallerType
        <3>1. PICK pc \in {"closed", "idle"} :
                 caller' = [caller EXCEPT !.pc = pc, !.op = "none", !.first = 0, !.last = 0]
            BY <1>14 DEF ResetDone
        <3>2. /\ caller' = [pc |-> pc, op |-> "none", first |-> 0, last |-> 0, result |-> caller.result]
              /\ caller.result \in {"none", "arg", "ok", "term"}
            BY <3>1 DEF TypeOK, CallerType
        <3> QED
            BY <3>2 DEF CallerType
    <2> QED
        BY <2>1, <2>2 DEF TypeOK
<1>15. CASE WakeCaller
    <2>1. UNCHANGED <<data, di, wait, worker>>
        BY <1>15 DEF WakeCaller
    <2>2. caller' \in CallerType
        BY <1>15 DEF TypeOK, WakeCaller, CallerType
    <2> QED
        BY <2>1, <2>2 DEF TypeOK
<1>16. CASE StartDecode
    <2>1. UNCHANGED <<data, di, wait, caller>>
        BY <1>16 DEF StartDecode
    <2>2. worker' \in WorkerType
        BY <1>16 DEF TypeOK, StartDecode, WorkerType
    <2> QED
        BY <2>1, <2>2 DEF TypeOK
<1>17. ASSUME NEW conds \in CondLists, CallWait(conds) PROVE TypeOK'
    <2>1. UNCHANGED <<data, caller>>
        BY <1>17 DEF TypeOK, CallWait
    <2>2. di' \in InstType
        BY <1>17 DEF TypeOK, CallWait, InstType
    <2>3. wait' \in WaitType
        <3> DEFINE skips(n) == {[kind |-> "skip", count |-> n]}
        <3>1. skips(0) \in SUBSET Term /\ skips(1) \in SUBSET Term /\ conds \in SUBSET Term
            BY DEF Term
        <3>2. PICK list \in SUBSET Term :
                 wait' = [wait EXCEPT !.bare = (conds = {}), !.skipped = 0, !.from = di.cur,
                                      !.before = di.old, !.conds = list]
            BY <1>17, <3>1, Zenon DEF CallWait
        <3>3. di.cur \in Pos /\ di.old \in {0, 1, Same}
            BY DEF TypeOK, InstType
        <3> QED
            BY <3>2, <3>3 DEF TypeOK, WaitType
    <2>4. worker' \in WorkerType
        BY <1>17 DEF TypeOK, CallWait, WorkerType
    <2> QED
        BY <2>1, <2>2, <2>3, <2>4 DEF TypeOK
<1>18. CASE Raise
    <2>1. UNCHANGED <<data, wait, caller>>
        BY <1>18 DEF Raise
    <2>2. di' \in InstType
        BY <1>18 DEF TypeOK, Raise, InstType
    <2>3. worker' \in WorkerType
        BY <1>18 DEF TypeOK, Raise, WorkerType
    <2> QED
        BY <2>1, <2>2, <2>3 DEF TypeOK
<1>19. CASE Return
    <2>1. UNCHANGED <<data, di, wait, caller>>
        BY <1>19 DEF TypeOK, Return
    <2>2. worker' \in WorkerType
        BY <1>19 DEF TypeOK, Return, WorkerType
    <2> QED
        BY <2>1, <2>2 DEF TypeOK
<1>20. CASE ReleaseGil
    <2>1. UNCHANGED <<data, di, wait, caller>>
        BY <1>20 DEF TypeOK, ReleaseGil
    <2>2. worker' \in WorkerType
        BY <1>20 DEF TypeOK, ReleaseGil, WorkerType
    <2> QED
        BY <2>1, <2>2 DEF TypeOK
<1>21. CASE CheckGot
    <2>1. \E pc \in {"scan", "asleep"} : worker' = [worker EXCEPT !.pc = pc]
        BY <1>21 DEF CheckGot
    <2> QED
        BY <1>21, <2>1 DEF TypeOK, CheckGot, WorkerType
<1>22. CASE WakeWorker
    <2>1. UNCHANGED <<data, di, wait, caller>>
        BY <1>22 DEF TypeOK, WakeWorker
    <2>2. worker' \in WorkerType
        BY <1>22 DEF TypeOK, WakeWorker, WorkerType
    <2> QED
        BY <2>1, <2>2 DEF TypeOK
<1>23. CASE Scan
    <2>1. UNCHANGED <<data, caller>>
        BY <1>23 DEF Scan
    <2>2. worker' \in WorkerType
        BY <1>23 DEF TypeOK, Scan, WorkerType
    <2>3. CASE UNCHANGED <<di, wait>>
        BY <2>1, <2>2, <2>3 DEF TypeOK
    <2>4. ASSUME NEW p \in di.cur..(di.end - 1), UNCHANGED wait,
                 di' = [di EXCEPT !.cur = p, !.old = data[p], !.match = Hits(p)]
          PROVE  TypeOK'
        <3>1. p \in Pos /\ p \in 0..(NumSamples - 1)
            BY DEF TypeOK, InstType
        <3>2. data[p] \in {0, 1}
            BY <3>1 DEF TypeOK
        <3>3. Hits(p) \in SUBSET Term
            BY DEF Hits, TypeOK, WaitType
        <3>4. di' \in InstType
            BY <2>4, <3>1, <3>2, <3>3 DEF TypeOK, InstType
        <3> QED
            BY <2>1, <2>2, <2>4, <3>4 DEF TypeOK
    <2>5. ASSUME di' = [di EXCEPT !.cur = di.end, !.old = OldPin(di.end)], ~di.want,
                 wait' = [wait EXCEPT !.skipped = wait.skipped + di.end - di.cur]
          PROVE  TypeOK'
        <3>1. di.cur \in Pos /\ di.end \in Pos /\ di.cur <= di.end
            BY <1>23, <2>5 DEF TypeOK, InstType, HandOver, WorkerPart, ChunkPart, Gone, Scan
        <3>2. OldPin(di.end) \in {0, 1, Same}
            BY <3>1 DEF OldPin, TypeOK, InstType
        <3>3. di' \in InstType
            BY <2>5, <3>1, <3>2 DEF TypeOK, InstType
        <3>4. wait.skipped + di.end - di.cur \in Nat
            BY <3>1 DEF TypeOK, WaitType
        <3>5. wait' \in WaitType
            BY <2>5, <3>4 DEF TypeOK, WaitType
        <3> QED
            BY <2>1, <2>2, <3>3, <3>5 DEF TypeOK
    <2> QED
        BY <1>23, <2>3, <2>4, <2>5, Zenon DEF Scan
<1>24. CASE ReplyMatch
    <2>1. UNCHANGED <<data, caller>>
        BY <1>24 DEF TypeOK, ReplyMatch
    <2>2. di' \in InstType
        BY <1>24 DEF TypeOK, ReplyMatch, InstType
    <2>3. wait' \in WaitType
        BY <1>24 DEF TypeOK, ReplyMatch, WaitType
    <2>4. worker' \in WorkerType
        <3>1. di.cur \in Pos /\ di.match \in SUBSET Term
            BY DEF TypeOK, InstType
        <3>2. worker' = [worker EXCEPT !.pc = "decode", !.num = di.cur, !.matched = di.match]
            BY <1>24 DEF ReplyMatch
        <3> QED
            BY <3>1, <3>2 DEF TypeOK, WorkerType
    <2> QED
        BY <2>1, <2>2, <2>3, <2>4 DEF TypeOK
<1>25. CASE ReplyHandled
    <2>1. UNCHANGED <<data, wait>>
        BY <1>25 DEF TypeOK, ReplyHandled
    <2>2. di' \in InstType
        <3>1. \E failed \in BOOLEAN :
                 di' = [di EXCEPT !.got = FALSE, !.handled = TRUE, !.start = 0, !.end = 0,
                                  !.inbuf = FALSE, !.failed = failed]
            <4>1. (di.failed \/ di.want) \in BOOLEAN
                OBVIOUS
            <4> QED
                BY <1>25, <4>1, Zenon DEF ReplyHandled
        <3>2. PICK failed \in BOOLEAN :
                 di' = [di EXCEPT !.got = FALSE, !.handled = TRUE, !.start = 0, !.end = 0,
                                  !.inbuf = FALSE, !.failed = failed]
            BY <3>1
        <3>3. di' = [cur |-> di.cur, start |-> 0, end |-> 0, inbuf |-> FALSE, got |-> FALSE,
                     handled |-> TRUE, want |-> di.want, failed |-> failed,
                     thread |-> di.thread, old |-> di.old, conds |-> di.conds,
                     match |-> di.match]
            BY <3>2 DEF TypeOK, InstType
        <3>4. /\ di.cur \in Pos /\ di.want \in BOOLEAN /\ di.thread \in BOOLEAN
              /\ di.old \in {0, 1, Same} /\ di.conds \in BOOLEAN /\ di.match \in SUBSET Term
            BY DEF TypeOK, InstType
        <3> QED
            BY <3>3, <3>4 DEF InstType
    <2>3. worker' \in WorkerType
        BY <1>25 DEF TypeOK, ReplyHandled, WorkerType
    <2>4. caller' \in CallerType
        BY <1>25 DEF TypeOK, ReplyHandled, CallerType
    <2> QED
        BY <2>1, <2>2, <2>3, <2>4 DEF TypeOK
<1>26. CASE WorkerEnd
    <2>1. UNCHANGED <<data, wait>>
        BY <1>26 DEF WorkerEnd
    <2>2. di' \in InstType
        BY <1>26 DEF TypeOK, WorkerEnd, InstType
    <2>3. worker' \in WorkerType
        BY <1>26 DEF TypeOK, WorkerEnd, WorkerType
    <2>4. caller' \in CallerType
        BY <1>26 DEF TypeOK, WorkerEnd, CallerType
    <2> QED
        BY <2>1, <2>2, <2>3, <2>4 DEF TypeOK
<1>27. CASE WorkerExit
    <2>1. UNCHANGED <<data, di, wait, caller>>
        BY <1>27 DEF TypeOK, WorkerExit
    <2>2. worker' \in WorkerType
        BY <1>27 DEF TypeOK, WorkerExit, WorkerType
    <2> QED
        BY <2>1, <2>2 DEF TypeOK
<1>28. CASE UNCHANGED vars
    BY <1>28 DEF TypeOK, vars
<1> QED
    BY <1>1, <1>2, <1>3, <1>4, <1>5, <1>6, <1>7, <1>8, <1>9, <1>10, <1>11, <1>12, <1>13, <1>14, <1>15, <1>16, <1>17, <1>18, <1>19, <1>20, <1>21, <1>22, <1>23, <1>24, <1>25, <1>26, <1>27, <1>28 DEF Next, CallerStep, WorkerStep

-----------------------------------------------------------------------------
(* The hand-over.                                                          *)

LEMMA HandOverInit == Init => HandOver
BY DEF Init, HandOver, ThreadPart, WantPart, WorkerPart, ChunkPart, PushPart, CallerPart,
       Settled, Awaiting, Gone, FreshInst, NoWorker

\* Every action keeps the hand-over.
LEMMA HandOverNext == TypeOK /\ HandOver /\ [Next]_vars => HandOver'
<1> SUFFICES ASSUME TypeOK, HandOver, [Next]_vars PROVE HandOver'
    OBVIOUS
<1> USE ConstantsAssumption, StreamAssumption DEF CallerAt, CallerGoto, WorkerAt, WorkerGoto, SignalWorker, SignalCaller, Same, Pos, Pin, FreshInst, NoWorker, MutexFree, WorkerHoldsMutex,
           InstType, WaitType, WorkerType, CallerType
<1>1. ASSUME NEW start \in Starts, OpenSession(start) PROVE HandOver'
    BY <1>1 DEF TypeOK, HandOver, ThreadPart, WantPart, WorkerPart, ChunkPart, PushPart, CallerPart,
       Settled, Awaiting, Gone, OpenSession
<1>2. ASSUME NEW start \in Pos, NEW end \in Pos, SendChunk(start, end) PROVE HandOver'
    <2>1. ThreadPart' /\ WantPart'
        BY <1>2, SMTT(30) DEF TypeOK, HandOver, ThreadPart, WantPart, CallerPart, Settled, Awaiting, Gone, SendChunk
    <2>2. ~di.got \/ Gone
        BY <1>2 DEF HandOver, ChunkPart, SendChunk
    <2>3. di'.got = di.got /\ di'.want = di.want /\ di'.cur = di.cur /\ di'.end = di.end
        BY <1>2 DEF TypeOK, SendChunk
    <2>4. worker' = worker \/ worker' = [worker EXCEPT !.pc = "start"]
        BY <1>2 DEF SendChunk
    <2>5. WorkerPart'
        BY <2>3, <2>4 DEF TypeOK, HandOver, WorkerPart
    <2>6. ChunkPart'
        BY <1>2, <2>2, <2>3 DEF TypeOK, HandOver, ThreadPart, ChunkPart, Gone, SendChunk
    <2>7. PushPart'
        BY <1>2, <2>3 DEF TypeOK, PushPart, SendChunk
    <2>8. CallerPart'
        BY <1>2 DEF TypeOK, HandOver, CallerPart, Settled, Awaiting, Gone, SendChunk
    <2> QED
        BY <2>1, <2>5, <2>6, <2>7, <2>8 DEF HandOver
<1>3. ASSUME NEW start \in Pos, NEW end \in Pos, RejectChunk(start, end) PROVE HandOver'
    BY <1>3 DEF TypeOK, HandOver, ThreadPart, WantPart, WorkerPart, ChunkPart, PushPart, CallerPart,
       Settled, Awaiting, Gone, RejectChunk
<1>4. CASE PushChunk
    BY <1>4 DEF TypeOK, HandOver, ThreadPart, WantPart, WorkerPart, ChunkPart, PushPart, CallerPart,
       Settled, Awaiting, Gone, PushChunk
<1>5. CASE CheckHandled
    BY <1>5 DEF TypeOK, HandOver, ThreadPart, WantPart, WorkerPart, ChunkPart, PushPart, CallerPart,
       Settled, Awaiting, Gone, CheckHandled
<1>6. CASE Sent
    BY <1>6 DEF TypeOK, HandOver, ThreadPart, WantPart, WorkerPart, ChunkPart, PushPart, CallerPart,
       Settled, Awaiting, Gone, Sent
<1>7. CASE SessionEnd
    BY <1>7 DEF TypeOK, HandOver, ThreadPart, WantPart, WorkerPart, ChunkPart, PushPart, CallerPart,
       Settled, Awaiting, Gone, SessionEnd
<1>8. CASE TakeGilForEnd
    BY <1>8 DEF TypeOK, HandOver, ThreadPart, WantPart, WorkerPart, ChunkPart, PushPart, CallerPart,
       Settled, Awaiting, Gone, TakeGilForEnd
<1>9. CASE EndHook
    BY <1>9 DEF TypeOK, HandOver, ThreadPart, WantPart, WorkerPart, ChunkPart, PushPart, CallerPart,
       Settled, Awaiting, Gone, EndHook
<1>10. ASSUME NEW op \in {"close", "reset"}, Terminate(op) PROVE HandOver'
    BY <1>10 DEF TypeOK, HandOver, ThreadPart, WantPart, WorkerPart, ChunkPart, PushPart, CallerPart,
       Settled, Awaiting, Gone, Terminate
<1>11. CASE RequestTermination
    BY <1>11 DEF TypeOK, HandOver, ThreadPart, WantPart, WorkerPart, ChunkPart, PushPart, CallerPart,
       Settled, Awaiting, Gone, RequestTermination
<1>12. CASE JoinWorker
    BY <1>12 DEF TypeOK, HandOver, ThreadPart, WantPart, WorkerPart, ChunkPart, PushPart, CallerPart,
       Settled, Awaiting, Gone, JoinWorker
<1>13. CASE ResetInst
    BY <1>13 DEF TypeOK, HandOver, ThreadPart, WantPart, WorkerPart, ChunkPart, PushPart, CallerPart,
       Settled, Awaiting, Gone, ResetInst
<1>14. CASE ResetDone
    <2>1. /\ caller'.pc \in {"closed", "idle"}
          /\ caller'.result = caller.result /\ caller.pc = "resetting"
        BY <1>14 DEF TypeOK, ResetDone
    <2>2. caller.result # "ok"
        BY <2>1 DEF HandOver, CallerPart
    <2> QED
        BY <1>14, <2>1, <2>2 DEF ResetDone, TypeOK, HandOver, ThreadPart, WantPart, WorkerPart, ChunkPart, PushPart, CallerPart,
       Settled, Awaiting, Gone
<1>15. CASE WakeCaller
    BY <1>15 DEF TypeOK, HandOver, ThreadPart, WantPart, WorkerPart, ChunkPart, PushPart, CallerPart,
       Settled, Awaiting, Gone, WakeCaller
<1>16. CASE StartDecode
    BY <1>16 DEF TypeOK, HandOver, ThreadPart, WantPart, WorkerPart, ChunkPart, PushPart, CallerPart,
       Settled, Awaiting, Gone, StartDecode
<1>17. ASSUME NEW conds \in CondLists, CallWait(conds) PROVE HandOver'
    BY <1>17 DEF TypeOK, HandOver, ThreadPart, WantPart, WorkerPart, ChunkPart, PushPart, CallerPart,
       Settled, Awaiting, Gone, CallWait
<1>18. CASE Raise
    BY <1>18 DEF TypeOK, HandOver, ThreadPart, WantPart, WorkerPart, ChunkPart, PushPart, CallerPart,
       Settled, Awaiting, Gone, Raise
<1>19. CASE Return
    BY <1>19 DEF TypeOK, HandOver, ThreadPart, WantPart, WorkerPart, ChunkPart, PushPart, CallerPart,
       Settled, Awaiting, Gone, Return
<1>20. CASE ReleaseGil
    BY <1>20 DEF TypeOK, HandOver, ThreadPart, WantPart, WorkerPart, ChunkPart, PushPart, CallerPart,
       Settled, Awaiting, Gone, ReleaseGil
<1>21. CASE CheckGot
    BY <1>21 DEF TypeOK, HandOver, ThreadPart, WantPart, WorkerPart, ChunkPart, PushPart, CallerPart,
       Settled, Awaiting, Gone, CheckGot
<1>22. CASE WakeWorker
    BY <1>22 DEF TypeOK, HandOver, ThreadPart, WantPart, WorkerPart, ChunkPart, PushPart, CallerPart,
       Settled, Awaiting, Gone, WakeWorker
<1>23. CASE Scan
    <2> DEFINE Found == worker'.found
    <2>1. UNCHANGED caller /\ worker.pc = "scan"
        BY <1>23 DEF Scan
    <2>2. \E found \in BOOLEAN :
             /\ worker' = [worker EXCEPT !.pc = "reply", !.found = found]
             /\ \/ di.want /\ ~found /\ UNCHANGED di
                \/ /\ ~di.want /\ found
                   /\ \E p \in di.cur..(di.end - 1) : \E pin, match :
                         di' = [di EXCEPT !.cur = p, !.old = pin, !.match = match]
                \/ /\ ~di.want /\ ~found
                   /\ \E pin : di' = [di EXCEPT !.cur = di.end, !.old = pin]
        BY <1>23, Zenon DEF Scan
    <2>3. worker'.pc = "reply"
        BY <2>2 DEF TypeOK
    <2> DEFINE Frame == /\ di'.got = di.got /\ di'.inbuf = di.inbuf /\ di'.handled = di.handled
                        /\ di'.want = di.want /\ di'.thread = di.thread
                        /\ di'.start = di.start /\ di'.end = di.end
    <2>4. /\ Frame
          /\ \/ di.want /\ ~Found /\ UNCHANGED di
             \/ ~di.want /\ Found /\ di'.cur \in di.cur..(di.end - 1)
             \/ ~di.want /\ ~Found /\ di'.cur = di.end
      <3>1. PICK found \in BOOLEAN :
               /\ worker' = [worker EXCEPT !.pc = "reply", !.found = found]
               /\ \/ di.want /\ ~found /\ UNCHANGED di
                  \/ /\ ~di.want /\ found
                     /\ \E p \in di.cur..(di.end - 1) : \E pin, match :
                           di' = [di EXCEPT !.cur = p, !.old = pin, !.match = match]
                  \/ /\ ~di.want /\ ~found
                     /\ \E pin : di' = [di EXCEPT !.cur = di.end, !.old = pin]
          BY <2>2
      <3>2. Found = found
          BY <3>1 DEF TypeOK
      <3> HIDE DEF Found
      <3>3. UNCHANGED di => Frame
          OBVIOUS
      <3>4. ASSUME NEW p \in di.cur..(di.end - 1), NEW pin, NEW match,
                   di' = [di EXCEPT !.cur = p, !.old = pin, !.match = match]
            PROVE  Frame /\ di'.cur \in di.cur..(di.end - 1)
          BY <3>4 DEF TypeOK
      <3>5. ASSUME NEW pin, di' = [di EXCEPT !.cur = di.end, !.old = pin]
            PROVE  Frame /\ di'.cur = di.end
          BY <3>5 DEF TypeOK
      <3> HIDE DEF Frame
      <3> QED
          BY <3>1, <3>2, <3>3, <3>4, <3>5, Zenon
    <2>5. /\ di.cur \in Nat /\ di.start \in Nat /\ di.end \in Nat
          /\ di.got \in BOOLEAN /\ di.want \in BOOLEAN /\ di.handled \in BOOLEAN
          /\ di.inbuf \in BOOLEAN /\ di.thread \in BOOLEAN
        BY DEF TypeOK
    <2>6. /\ ThreadPart /\ WantPart /\ WorkerPart /\ ChunkPart /\ PushPart /\ CallerPart
        BY DEF HandOver
    <2> HIDE DEF Found, InstType, WaitType, WorkerType, CallerType
    <2>7. ~di.want => /\ di.got /\ di.inbuf /\ ~di.handled /\ caller.pc \in {"check", "asleep"}
                      /\ di.end = caller.last /\ di.start <= di.cur /\ di.cur <= di.end
        BY <2>1, <2>6 DEF WorkerPart, ChunkPart, Gone
    <2>8. ThreadPart' /\ WantPart' /\ PushPart'
        BY <2>1, <2>3, <2>4, <2>6, <2>7 DEF ThreadPart, WantPart, PushPart, Gone
    <2>9. WorkerPart'
        BY <2>3, <2>4, <2>5, <2>7 DEF WorkerPart, Found
    <2>10. ChunkPart'
        BY <2>1, <2>3, <2>4, <2>5, <2>6, <2>7 DEF ChunkPart, WantPart, Gone
    <2>11. CallerPart'
        BY <2>1, <2>3, <2>4, <2>6, <2>7 DEF CallerPart, WantPart, Settled, Awaiting, Gone
    <2> QED
        BY <2>8, <2>9, <2>10, <2>11 DEF HandOver
<1>24. CASE ReplyMatch
    BY <1>24 DEF TypeOK, HandOver, ThreadPart, WantPart, WorkerPart, ChunkPart, PushPart, CallerPart,
       Settled, Awaiting, Gone, ReplyMatch
<1>25. CASE ReplyHandled
    BY <1>25 DEF TypeOK, HandOver, ThreadPart, WantPart, WorkerPart, ChunkPart, PushPart, CallerPart,
       Settled, Awaiting, Gone, ReplyHandled
<1>26. CASE WorkerEnd
    BY <1>26, SMTT(30) DEF TypeOK, HandOver, ThreadPart, WantPart, WorkerPart, ChunkPart, PushPart, CallerPart,
       Settled, Awaiting, Gone, WorkerEnd
<1>27. CASE WorkerExit
    BY <1>27 DEF TypeOK, HandOver, ThreadPart, WantPart, WorkerPart, ChunkPart, PushPart, CallerPart,
       Settled, Awaiting, Gone, WorkerExit
<1>28. CASE UNCHANGED vars
    BY <1>28 DEF TypeOK, HandOver, ThreadPart, WantPart, WorkerPart, ChunkPart, PushPart, CallerPart,
       Settled, Awaiting, Gone, vars
<1> QED
    BY <1>1, <1>2, <1>3, <1>4, <1>5, <1>6, <1>7, <1>8, <1>9, <1>10, <1>11, <1>12, <1>13, <1>14, <1>15, <1>16, <1>17, <1>18, <1>19, <1>20, <1>21, <1>22, <1>23, <1>24, <1>25, <1>26, <1>27, <1>28 DEF Next, CallerStep, WorkerStep

-----------------------------------------------------------------------------
(* The theorems.                                                           *)

LEMMA SpecInvariant == Spec => [](TypeOK /\ HandOver)
<1>1. Init => TypeOK /\ HandOver
    BY TypeInit, HandOverInit
<1>2. TypeOK /\ HandOver /\ [Next]_vars => (TypeOK /\ HandOver)'
    BY TypeNext, HandOverNext
<1> QED
    BY <1>1, <1>2, PTL DEF Spec

\* The variables keep their types, the position of the scan included.
THEOREM TypeCorrect == Spec => []TypeOK
BY SpecInvariant, PTL

\* srd_inst_decode and Decoder.wait(): the worker touches the chunk buffer only
\* during the call that owns it, and inside the chunk.
THEOREM BufferCorrect == Spec => []BufferHeld
<1>1. TypeOK /\ HandOver => BufferHeld
    BY DEF HandOver, WorkerPart, ChunkPart, Gone, BufferHeld, InSend, CallerAt, WorkerAt
<1> QED
    BY <1>1, SpecInvariant, PTL

\* srd_session_send succeeds only when the whole chunk was scanned.
THEOREM ConsumedCorrect == Spec => []OkMeansConsumed
<1>1. HandOver => OkMeansConsumed
    BY DEF HandOver, CallerPart, Settled, OkMeansConsumed, CallerAt
<1> QED
    BY <1>1, SpecInvariant, PTL

\* The end() hooks of srd_session_end run while the worker awaits input.
THEOREM EndCorrect == Spec => []EndWhileAwaiting
<1>1. HandOver => EndWhileAwaiting
    BY DEF HandOver, CallerPart, Settled, EndWhileAwaiting, CallerAt
<1> QED
    BY <1>1, SpecInvariant, PTL

\* Neither thread waits on its condition variable for something that has
\* already happened.
THEOREM WakeupCorrect == Spec => []NoLostWakeup
<1>1. HandOver => NoLostWakeup
    BY DEF HandOver, WantPart, WorkerPart, CallerPart, Settled, Gone, NoLostWakeup, CallerAt, WorkerAt
<1> QED
    BY <1>1, SpecInvariant, PTL

-----------------------------------------------------------------------------
(* The implementation of SampleStream.                                     *)

Found == worker.pc = "reply" /\ worker.found

\* Nothing was asked yet.
NothingAsked ==
    wait = FreshWait(di.cur) /\ di.old = Same /\ worker.num = 0 /\ worker.matched = {}

\* The last answer is where the next search starts.
Answered ==
    /\ wait.conds # {}
    /\ worker.num = di.cur /\ di.cur < NumSamples /\ di.old = data[di.cur]

\* No condition holds at a sample before sample p.
NoneBefore(p) == \A q \in wait.from..(p - 1) : Stream!MatchedAt(Asked, q) = {}

\* The scan has come to di.cur: what it remembers of the samples it has passed
\* is what the stream has there.
Searching ==
    /\ wait.conds # {}
    /\ wait.from <= di.cur /\ wait.skipped = di.cur - wait.from
    /\ NoneBefore(di.cur)
    /\ di.cur > wait.from => di.old = data[di.cur - 1]
    /\ di.cur = wait.from =>
          \/ di.old = wait.before
          \/ di.cur = 0 /\ wait.before = Same /\ di.old = data[0]

\* A match that the script has not been told of.
Matching ==
    /\ wait.conds # {}
    /\ wait.from <= di.cur /\ di.cur < NumSamples
    /\ NoneBefore(di.cur)
    /\ di.match # {} /\ di.match = Stream!MatchedAt(Asked, di.cur)
    /\ di.old = data[di.cur]

StreamPart ==
    /\ worker.pc \in {"none", "start"} => NothingAsked
    /\ worker.pc = "decode" => NothingAsked \/ Answered
    /\ Asking /\ ~Found => Searching
    /\ Found => Matching

\* The scan of a chunk sees the conditions hold where they hold in the stream.
LEMMA HitsAreMatches ==
    ASSUME TypeOK, Searching, NEW p \in Nat, p >= di.cur
    PROVE  Hits(p) = Stream!MatchedAt(Asked, p)
<1>1. /\ di.cur \in Nat /\ wait.from \in Nat /\ wait.skipped \in Nat
      /\ wait.from <= di.cur /\ wait.skipped = di.cur - wait.from
    BY StreamAssumption DEF TypeOK, InstType, WaitType, Searching, Pos
<1>2. wait.skipped + p - di.cur = p - wait.from
    BY <1>1
<1>3. data[0] # Same
    BY StreamAssumption DEF TypeOK, Pin, Same
<1>4. OldPin(p) = Stream!Before(Asked, p)
    <2>1. CASE p > di.cur
        BY <1>1, <2>1 DEF OldPin, Stream!Before, Asked
    <2>2. CASE p = di.cur /\ di.cur > wait.from
        BY <1>1, <2>2 DEF OldPin, Stream!Before, Asked, Searching
    <2>3. CASE p = di.cur /\ di.cur = wait.from
        <3>1. OldPin(p) = IF p = 0 /\ di.old = Same THEN data[0] ELSE di.old
            BY <1>1, <2>3 DEF OldPin
        <3>2. Stream!Before(Asked, p) =
                 IF p = 0 /\ wait.before = Same THEN data[0] ELSE wait.before
            BY <1>1, <2>3 DEF Stream!Before, Asked, Stream!Same, Same
        <3>3. \/ di.old = wait.before
              \/ di.cur = 0 /\ wait.before = Same /\ di.old = data[0]
            BY <2>3 DEF Searching
        <3> QED
            BY <1>3, <2>3, <3>1, <3>2, <3>3
    <2> QED
        BY <1>1, <2>1, <2>2, <2>3
<1> QED
    <2>1. Asked.conds = wait.conds /\ Asked.from = wait.from
        BY DEF Asked
    <2>2. ASSUME NEW term
          PROVE  Stream!Holds(term, Stream!Before(Asked, p), data[p], p - wait.from)
                     = Holds(term, OldPin(p), data[p], wait.skipped + p - di.cur)
        BY <1>2, <1>4 DEF Holds, Stream!Holds
    <2> QED
        BY <2>1, <2>2 DEF Hits, Stream!MatchedAt

\* The question stays the same, and with it what matches it.
LEMMA SameQuestion ==
    ASSUME UNCHANGED <<data, wait.conds, wait.from, wait.before>>, NEW q
    PROVE  Stream!MatchedAt(Asked, q)' = Stream!MatchedAt(Asked, q)
BY DEF Stream!MatchedAt, Stream!Before, Asked

\* A step that leaves the search alone.
LEMMA SearchFrame ==
    ASSUME Searching, UNCHANGED <<data, wait, di>>
    PROVE  Searching'
<1>1. ASSUME NEW q PROVE Stream!MatchedAt(Asked, q)' = Stream!MatchedAt(Asked, q)
    BY SameQuestion
<1> QED
    BY <1>1 DEF Searching, NoneBefore

LEMMA StreamInit == Init => StreamPart
BY DEF Init, StreamPart, NothingAsked, Asking, Found, NoWorker, FreshInst, FreshWait

\* A step that leaves the search alone and moves the worker within the same
\* part of its work, or out of it.
LEMMA FrameStream ==
    ASSUME TypeOK, StreamPart, HandOver,
           UNCHANGED <<data, wait, worker.num, worker.matched, di.cur, di.old, di.match>>,
           \/ UNCHANGED worker.pc /\ UNCHANGED worker.found
           \/ worker.pc \in {"none", "start"} /\ worker'.pc \in {"start", "decode"}
           \/ Asking /\ ~Found /\ worker'.pc \in {"release", "lock", "asleep"}
           \/ worker.pc = "lock" /\ worker'.pc = "scan"
           \/ worker'.pc \in {"exit", "finish", "exited"}
    PROVE  StreamPart'
<1>1. NothingAsked => NothingAsked'
    BY DEF NothingAsked
<1>2. Answered => Answered'
    BY DEF Answered
<1>3. ASSUME NEW q PROVE Stream!MatchedAt(Asked, q)' = Stream!MatchedAt(Asked, q)
    BY DEF Stream!MatchedAt, Stream!Before, Asked
<1>4. Searching => Searching'
    BY <1>3 DEF Searching, NoneBefore
<1>5. Matching => Matching'
    BY <1>3 DEF Matching, NoneBefore
<1> QED
    BY <1>1, <1>2, <1>4, <1>5 DEF StreamPart, Asking, Found

\* Every action keeps the search where the stream has it.
LEMMA StreamNext == TypeOK /\ HandOver /\ StreamPart /\ [Next]_vars => StreamPart'
<1> SUFFICES ASSUME TypeOK, HandOver, StreamPart, [Next]_vars PROVE StreamPart'
    OBVIOUS
<1> USE ConstantsAssumption, StreamAssumption DEF CallerAt, CallerGoto, WorkerAt, WorkerGoto, SignalWorker, SignalCaller
<1>1. ASSUME NEW start \in Starts, OpenSession(start) PROVE StreamPart'
    <2>1. worker' = NoWorker /\ di' = FreshInst(start) /\ wait' = FreshWait(start)
        BY <1>1 DEF OpenSession
    <2>2. /\ worker'.pc = "none" /\ worker'.num = 0 /\ worker'.matched = {}
          /\ di'.cur = start /\ di'.old = Same
        BY <2>1 DEF NoWorker, FreshInst
    <2>3. wait' = FreshWait(di'.cur)
        BY <2>1, <2>2
    <2>4. NothingAsked'
        BY <2>2, <2>3 DEF NothingAsked, FreshWait
    <2> QED
        BY <2>2, <2>4 DEF StreamPart, Asking, Found
<1>2. ASSUME NEW start \in Pos, NEW end \in Pos, SendChunk(start, end) PROVE StreamPart'
    <2>1. UNCHANGED <<data, wait, worker.num, worker.matched, di.cur, di.old, di.match>>
        BY <1>2 DEF SendChunk, TypeOK, InstType, WorkerType
    <2>2. \/ UNCHANGED <<worker.pc, worker.found>>
          \/ worker.pc \in {"none", "start"} /\ worker'.pc \in {"start", "decode"}
          \/ Asking /\ ~Found /\ worker'.pc \in {"release", "lock", "asleep"}
          \/ worker.pc = "lock" /\ worker'.pc = "scan"
          \/ worker'.pc \in {"exit", "finish", "exited"}
        BY <1>2 DEF SendChunk, Asking, Found, HandOver, ThreadPart, TypeOK, WorkerType
    <2> QED
        BY <2>1, <2>2, FrameStream
<1>3. ASSUME NEW start \in Pos, NEW end \in Pos, RejectChunk(start, end) PROVE StreamPart'
    <2>1. UNCHANGED <<data, wait, worker.num, worker.matched, di.cur, di.old, di.match>>
        BY <1>3 DEF RejectChunk, TypeOK, InstType, WorkerType
    <2>2. \/ UNCHANGED <<worker.pc, worker.found>>
          \/ worker.pc \in {"none", "start"} /\ worker'.pc \in {"start", "decode"}
          \/ Asking /\ ~Found /\ worker'.pc \in {"release", "lock", "asleep"}
          \/ worker.pc = "lock" /\ worker'.pc = "scan"
          \/ worker'.pc \in {"exit", "finish", "exited"}
        BY <1>3 DEF RejectChunk, Asking, Found, TypeOK, WorkerType
    <2> QED
        BY <2>1, <2>2, FrameStream
<1>4. CASE PushChunk
    <2>1. UNCHANGED <<data, wait, worker.num, worker.matched, di.cur, di.old, di.match>>
        BY <1>4 DEF PushChunk, TypeOK, InstType, WorkerType
    <2>2. \/ UNCHANGED <<worker.pc, worker.found>>
          \/ worker.pc \in {"none", "start"} /\ worker'.pc \in {"start", "decode"}
          \/ Asking /\ ~Found /\ worker'.pc \in {"release", "lock", "asleep"}
          \/ worker.pc = "lock" /\ worker'.pc = "scan"
          \/ worker'.pc \in {"exit", "finish", "exited"}
        BY <1>4 DEF PushChunk, Asking, Found, TypeOK, WorkerType
    <2> QED
        BY <2>1, <2>2, FrameStream
<1>5. CASE CheckHandled
    <2>1. UNCHANGED <<data, wait, worker.num, worker.matched, di.cur, di.old, di.match>>
        BY <1>5 DEF CheckHandled, TypeOK, InstType, WorkerType
    <2>2. \/ UNCHANGED <<worker.pc, worker.found>>
          \/ worker.pc \in {"none", "start"} /\ worker'.pc \in {"start", "decode"}
          \/ Asking /\ ~Found /\ worker'.pc \in {"release", "lock", "asleep"}
          \/ worker.pc = "lock" /\ worker'.pc = "scan"
          \/ worker'.pc \in {"exit", "finish", "exited"}
        BY <1>5 DEF CheckHandled, Asking, Found, TypeOK, WorkerType
    <2> QED
        BY <2>1, <2>2, FrameStream
<1>6. CASE Sent
    <2>1. UNCHANGED <<data, wait, worker.num, worker.matched, di.cur, di.old, di.match>>
        BY <1>6 DEF Sent, TypeOK, InstType, WorkerType
    <2>2. \/ UNCHANGED <<worker.pc, worker.found>>
          \/ worker.pc \in {"none", "start"} /\ worker'.pc \in {"start", "decode"}
          \/ Asking /\ ~Found /\ worker'.pc \in {"release", "lock", "asleep"}
          \/ worker.pc = "lock" /\ worker'.pc = "scan"
          \/ worker'.pc \in {"exit", "finish", "exited"}
        BY <1>6 DEF Sent, Asking, Found, TypeOK, WorkerType
    <2> QED
        BY <2>1, <2>2, FrameStream
<1>7. CASE SessionEnd
    <2>1. UNCHANGED <<data, wait, worker.num, worker.matched, di.cur, di.old, di.match>>
        BY <1>7 DEF SessionEnd, TypeOK, InstType, WorkerType
    <2>2. \/ UNCHANGED <<worker.pc, worker.found>>
          \/ worker.pc \in {"none", "start"} /\ worker'.pc \in {"start", "decode"}
          \/ Asking /\ ~Found /\ worker'.pc \in {"release", "lock", "asleep"}
          \/ worker.pc = "lock" /\ worker'.pc = "scan"
          \/ worker'.pc \in {"exit", "finish", "exited"}
        BY <1>7 DEF SessionEnd, Asking, Found, TypeOK, WorkerType
    <2> QED
        BY <2>1, <2>2, FrameStream
<1>8. CASE TakeGilForEnd
    <2>1. UNCHANGED <<data, wait, worker.num, worker.matched, di.cur, di.old, di.match>>
        BY <1>8 DEF TakeGilForEnd, TypeOK, InstType, WorkerType
    <2>2. \/ UNCHANGED <<worker.pc, worker.found>>
          \/ worker.pc \in {"none", "start"} /\ worker'.pc \in {"start", "decode"}
          \/ Asking /\ ~Found /\ worker'.pc \in {"release", "lock", "asleep"}
          \/ worker.pc = "lock" /\ worker'.pc = "scan"
          \/ worker'.pc \in {"exit", "finish", "exited"}
        BY <1>8 DEF TakeGilForEnd, Asking, Found, TypeOK, WorkerType
    <2> QED
        BY <2>1, <2>2, FrameStream
<1>9. CASE EndHook
    <2>1. UNCHANGED <<data, wait, worker.num, worker.matched, di.cur, di.old, di.match>>
        BY <1>9 DEF EndHook, TypeOK, InstType, WorkerType
    <2>2. \/ UNCHANGED <<worker.pc, worker.found>>
          \/ worker.pc \in {"none", "start"} /\ worker'.pc \in {"start", "decode"}
          \/ Asking /\ ~Found /\ worker'.pc \in {"release", "lock", "asleep"}
          \/ worker.pc = "lock" /\ worker'.pc = "scan"
          \/ worker'.pc \in {"exit", "finish", "exited"}
        BY <1>9 DEF EndHook, Asking, Found, TypeOK, WorkerType
    <2> QED
        BY <2>1, <2>2, FrameStream
<1>10. ASSUME NEW op \in {"close", "reset"}, Terminate(op) PROVE StreamPart'
    <2>1. UNCHANGED <<data, wait, worker.num, worker.matched, di.cur, di.old, di.match>>
        BY <1>10 DEF Terminate, TypeOK, InstType, WorkerType
    <2>2. \/ UNCHANGED <<worker.pc, worker.found>>
          \/ worker.pc \in {"none", "start"} /\ worker'.pc \in {"start", "decode"}
          \/ Asking /\ ~Found /\ worker'.pc \in {"release", "lock", "asleep"}
          \/ worker.pc = "lock" /\ worker'.pc = "scan"
          \/ worker'.pc \in {"exit", "finish", "exited"}
        BY <1>10 DEF Terminate, Asking, Found, TypeOK, WorkerType
    <2> QED
        BY <2>1, <2>2, FrameStream
<1>11. CASE RequestTermination
    <2>1. UNCHANGED <<data, wait, worker.num, worker.matched, di.cur, di.old, di.match>>
        BY <1>11 DEF RequestTermination, TypeOK, InstType, WorkerType
    <2>2. \/ UNCHANGED <<worker.pc, worker.found>>
          \/ worker.pc \in {"none", "start"} /\ worker'.pc \in {"start", "decode"}
          \/ Asking /\ ~Found /\ worker'.pc \in {"release", "lock", "asleep"}
          \/ worker.pc = "lock" /\ worker'.pc = "scan"
          \/ worker'.pc \in {"exit", "finish", "exited"}
        BY <1>11 DEF RequestTermination, Asking, Found, TypeOK, WorkerType
    <2> QED
        BY <2>1, <2>2, FrameStream
<1>12. CASE JoinWorker
    <2>1. UNCHANGED <<data, wait, worker.num, worker.matched, di.cur, di.old, di.match>>
        BY <1>12 DEF JoinWorker, TypeOK, InstType, WorkerType
    <2>2. \/ UNCHANGED <<worker.pc, worker.found>>
          \/ worker.pc \in {"none", "start"} /\ worker'.pc \in {"start", "decode"}
          \/ Asking /\ ~Found /\ worker'.pc \in {"release", "lock", "asleep"}
          \/ worker.pc = "lock" /\ worker'.pc = "scan"
          \/ worker'.pc \in {"exit", "finish", "exited"}
        BY <1>12 DEF JoinWorker, Asking, Found, TypeOK, WorkerType
    <2> QED
        BY <2>1, <2>2, FrameStream
<1>13. CASE ResetInst
    <2>1. worker' = NoWorker /\ di' = FreshInst(0) /\ wait' = FreshWait(0)
        BY <1>13 DEF ResetInst
    <2>2. /\ worker'.pc = "none" /\ worker'.num = 0 /\ worker'.matched = {}
          /\ di'.cur = 0 /\ di'.old = Same
        BY <2>1 DEF NoWorker, FreshInst
    <2>3. wait' = FreshWait(di'.cur)
        BY <2>1, <2>2
    <2>4. NothingAsked'
        BY <2>2, <2>3 DEF NothingAsked, FreshWait
    <2> QED
        BY <2>2, <2>4 DEF StreamPart, Asking, Found
<1>14. CASE ResetDone
    <2>1. UNCHANGED <<data, wait, worker.num, worker.matched, di.cur, di.old, di.match>>
        BY <1>14 DEF ResetDone, TypeOK, InstType, WorkerType
    <2>2. \/ UNCHANGED <<worker.pc, worker.found>>
          \/ worker.pc \in {"none", "start"} /\ worker'.pc \in {"start", "decode"}
          \/ Asking /\ ~Found /\ worker'.pc \in {"release", "lock", "asleep"}
          \/ worker.pc = "lock" /\ worker'.pc = "scan"
          \/ worker'.pc \in {"exit", "finish", "exited"}
        BY <1>14 DEF ResetDone, Asking, Found, TypeOK, WorkerType
    <2> QED
        BY <2>1, <2>2, FrameStream
<1>15. CASE WakeCaller
    <2>1. UNCHANGED <<data, wait, worker.num, worker.matched, di.cur, di.old, di.match>>
        BY <1>15 DEF WakeCaller, TypeOK, InstType, WorkerType
    <2>2. \/ UNCHANGED <<worker.pc, worker.found>>
          \/ worker.pc \in {"none", "start"} /\ worker'.pc \in {"start", "decode"}
          \/ Asking /\ ~Found /\ worker'.pc \in {"release", "lock", "asleep"}
          \/ worker.pc = "lock" /\ worker'.pc = "scan"
          \/ worker'.pc \in {"exit", "finish", "exited"}
        BY <1>15 DEF WakeCaller, Asking, Found, TypeOK, WorkerType
    <2> QED
        BY <2>1, <2>2, FrameStream
<1>16. CASE StartDecode
    <2>1. UNCHANGED <<data, wait, worker.num, worker.matched, di.cur, di.old, di.match>>
        BY <1>16 DEF StartDecode, TypeOK, InstType, WorkerType
    <2>2. \/ UNCHANGED <<worker.pc, worker.found>>
          \/ worker.pc \in {"none", "start"} /\ worker'.pc \in {"start", "decode"}
          \/ Asking /\ ~Found /\ worker'.pc \in {"release", "lock", "asleep"}
          \/ worker.pc = "lock" /\ worker'.pc = "scan"
          \/ worker'.pc \in {"exit", "finish", "exited"}
        BY <1>16 DEF StartDecode, Asking, Found, TypeOK, WorkerType
    <2> QED
        BY <2>1, <2>2, FrameStream
<1>17. ASSUME NEW conds \in CondLists, CallWait(conds) PROVE StreamPart'
    <2>1. /\ worker'.pc = "release"
          /\ di'.cur = di.cur /\ di'.old = di.old /\ UNCHANGED data
        BY <1>17 DEF CallWait, TypeOK, InstType, WorkerType
    <2>2. /\ wait'.conds # {} /\ wait'.skipped = 0 /\ wait'.from = di.cur
          /\ wait'.before = di.old
        BY <1>17 DEF CallWait, TypeOK, WaitType
    <2>3. di.cur \in Int
        BY StreamAssumption DEF TypeOK, InstType, Pos
    <2>4. Searching'
        BY <2>1, <2>2, <2>3 DEF Searching, NoneBefore
    <2> QED
        BY <2>1, <2>4 DEF StreamPart, Asking, Found
<1>18. CASE Raise
    <2>1. UNCHANGED <<data, wait, worker.num, worker.matched, di.cur, di.old, di.match>>
        BY <1>18 DEF Raise, TypeOK, InstType, WorkerType
    <2>2. \/ UNCHANGED <<worker.pc, worker.found>>
          \/ worker.pc \in {"none", "start"} /\ worker'.pc \in {"start", "decode"}
          \/ Asking /\ ~Found /\ worker'.pc \in {"release", "lock", "asleep"}
          \/ worker.pc = "lock" /\ worker'.pc = "scan"
          \/ worker'.pc \in {"exit", "finish", "exited"}
        BY <1>18 DEF Raise, Asking, Found, TypeOK, WorkerType
    <2> QED
        BY <2>1, <2>2, FrameStream
<1>19. CASE Return
    <2>1. UNCHANGED <<data, wait, worker.num, worker.matched, di.cur, di.old, di.match>>
        BY <1>19 DEF Return, TypeOK, InstType, WorkerType
    <2>2. \/ UNCHANGED <<worker.pc, worker.found>>
          \/ worker.pc \in {"none", "start"} /\ worker'.pc \in {"start", "decode"}
          \/ Asking /\ ~Found /\ worker'.pc \in {"release", "lock", "asleep"}
          \/ worker.pc = "lock" /\ worker'.pc = "scan"
          \/ worker'.pc \in {"exit", "finish", "exited"}
        BY <1>19 DEF Return, Asking, Found, TypeOK, WorkerType
    <2> QED
        BY <2>1, <2>2, FrameStream
<1>20. CASE ReleaseGil
    <2>1. UNCHANGED <<data, wait, worker.num, worker.matched, di.cur, di.old, di.match>>
        BY <1>20 DEF ReleaseGil, TypeOK, InstType, WorkerType
    <2>2. \/ UNCHANGED <<worker.pc, worker.found>>
          \/ worker.pc \in {"none", "start"} /\ worker'.pc \in {"start", "decode"}
          \/ Asking /\ ~Found /\ worker'.pc \in {"release", "lock", "asleep"}
          \/ worker.pc = "lock" /\ worker'.pc = "scan"
          \/ worker'.pc \in {"exit", "finish", "exited"}
        BY <1>20 DEF ReleaseGil, Asking, Found, TypeOK, WorkerType
    <2> QED
        BY <2>1, <2>2, FrameStream
<1>21. CASE CheckGot
    <2>1. UNCHANGED <<data, wait, worker.num, worker.matched, di.cur, di.old, di.match>>
        BY <1>21 DEF CheckGot, TypeOK, InstType, WorkerType
    <2>2. \/ UNCHANGED <<worker.pc, worker.found>>
          \/ worker.pc \in {"none", "start"} /\ worker'.pc \in {"start", "decode"}
          \/ Asking /\ ~Found /\ worker'.pc \in {"release", "lock", "asleep"}
          \/ worker.pc = "lock" /\ worker'.pc = "scan"
          \/ worker'.pc \in {"exit", "finish", "exited"}
        BY <1>21 DEF CheckGot, Asking, Found, TypeOK, WorkerType
    <2> QED
        BY <2>1, <2>2, FrameStream
<1>22. CASE WakeWorker
    <2>1. UNCHANGED <<data, wait, worker.num, worker.matched, di.cur, di.old, di.match>>
        BY <1>22 DEF WakeWorker, TypeOK, InstType, WorkerType
    <2>2. \/ UNCHANGED <<worker.pc, worker.found>>
          \/ worker.pc \in {"none", "start"} /\ worker'.pc \in {"start", "decode"}
          \/ Asking /\ ~Found /\ worker'.pc \in {"release", "lock", "asleep"}
          \/ worker.pc = "lock" /\ worker'.pc = "scan"
          \/ worker'.pc \in {"exit", "finish", "exited"}
        BY <1>22 DEF WakeWorker, Asking, Found, TypeOK, WorkerType
    <2> QED
        BY <2>1, <2>2, FrameStream
<1>23. CASE Scan
    <2>1. /\ worker.pc = "scan" /\ worker'.pc = "reply" /\ UNCHANGED <<data, caller>>
          /\ UNCHANGED <<worker.num, worker.matched>>
        BY <1>23 DEF Scan, TypeOK, WorkerType
    <2>2. Searching
        BY <2>1 DEF StreamPart, Asking, Found
    <2>3. CASE di.want /\ ~worker'.found /\ UNCHANGED <<di, wait>>
        <3>1. Searching'
            BY <2>1, <2>2, <2>3, SearchFrame
        <3> QED
            BY <2>1, <2>3, <3>1 DEF StreamPart, Asking, Found
    <2>4. CASE ~di.want
        <3>1. /\ di.cur \in Nat /\ di.end \in Nat /\ di.cur <= di.end /\ di.end <= NumSamples
              /\ wait.from \in Nat /\ wait.skipped \in Nat /\ NumSamples \in Nat
              /\ wait.from <= di.cur /\ wait.skipped = di.cur - wait.from
            BY <2>1, <2>2, <2>4, StreamAssumption
               DEF TypeOK, InstType, WaitType, Pos, HandOver, WorkerPart, ChunkPart, Gone, Searching
        <3>2. ASSUME NEW p \in di.cur..(di.end - 1),
                     \A q \in {r \in di.cur..(di.end - 1) : Hits(r) # {}} : p <= q,
                     Hits(p) # {}, UNCHANGED wait, worker'.found,
                     di' = [di EXCEPT !.cur = p, !.old = data[p], !.match = Hits(p)]
              PROVE  StreamPart'
            <4>1. p \in Nat /\ p >= di.cur /\ p < di.end /\ p < NumSamples /\ wait.from <= p
                BY <3>1
            <4>2. di'.cur = p /\ di'.old = data[p] /\ di'.match = Hits(p)
                BY <3>2 DEF TypeOK, InstType
            <4>3. ASSUME NEW q \in wait.from..(p - 1)
                  PROVE  Stream!MatchedAt(Asked, q) = {}
                <5>1. CASE q < di.cur
                    BY <2>2, <3>1, <5>1 DEF Searching, NoneBefore
                <5>2. CASE q >= di.cur
                    <6>1. q \in di.cur..(di.end - 1) /\ q \in Nat /\ ~(p <= q)
                        BY <3>1, <4>1, <5>2
                    <6>2. Hits(q) = {}
                        BY <3>2, <6>1
                    <6> QED
                        BY <2>2, <5>2, <6>1, <6>2, HitsAreMatches
                <5> QED
                    BY <3>1, <4>1, <5>1, <5>2
            <4>4. Hits(p) = Stream!MatchedAt(Asked, p)
                BY <2>2, <4>1, HitsAreMatches
            <4>5. ASSUME NEW q
                  PROVE  Stream!MatchedAt(Asked, q)' = Stream!MatchedAt(Asked, q)
                BY <2>1, <3>2, SameQuestion
            <4>6. Matching'
                BY <2>1, <2>2, <3>2, <4>1, <4>2, <4>3, <4>4, <4>5
                   DEF Matching, NoneBefore, Searching
            <4> QED
                BY <2>1, <3>2, <4>6 DEF StreamPart, Asking, Found
        <3>3. ASSUME {p \in di.cur..(di.end - 1) : Hits(p) # {}} = {}, ~worker'.found,
                     di' = [di EXCEPT !.cur = di.end, !.old = OldPin(di.end)],
                     wait' = [wait EXCEPT !.skipped = wait.skipped + di.end - di.cur]
              PROVE  StreamPart'
            <4>1. /\ di'.cur = di.end /\ di'.old = OldPin(di.end)
                  /\ UNCHANGED <<wait.conds, wait.from, wait.before>>
                  /\ wait'.skipped = di.end - wait.from
                BY <3>1, <3>3 DEF TypeOK, InstType, WaitType
            <4>2. ASSUME NEW q \in wait.from..(di.end - 1)
                  PROVE  Stream!MatchedAt(Asked, q) = {}
                <5>1. CASE q < di.cur
                    BY <2>2, <3>1, <5>1 DEF Searching, NoneBefore
                <5>2. CASE q >= di.cur
                    <6>1. q \in di.cur..(di.end - 1) /\ q \in Nat
                        BY <3>1, <5>2
                    <6> QED
                        BY <2>2, <3>3, <5>2, <6>1, HitsAreMatches
                <5> QED
                    BY <3>1, <5>1, <5>2
            <4>3. ASSUME NEW q
                  PROVE  Stream!MatchedAt(Asked, q)' = Stream!MatchedAt(Asked, q)
                BY <2>1, <4>1, SameQuestion
            <4>4. NoneBefore(di.cur)'
                BY <4>1, <4>2, <4>3 DEF NoneBefore
            <4>5. di.end > wait.from => OldPin(di.end) = data[di.end - 1]
                BY <2>2, <3>1 DEF OldPin, Searching
            <4>6. di.end = wait.from =>
                     \/ OldPin(di.end) = wait.before
                     \/ di.end = 0 /\ wait.before = Same /\ OldPin(di.end) = data[0]
                BY <2>2, <3>1 DEF OldPin, Searching
            <4>7. wait.conds # {}
                BY <2>2 DEF Searching
            <4>8. Searching'
                BY <2>1, <3>1, <4>1, <4>4, <4>5, <4>6, <4>7 DEF Searching
            <4> QED
                BY <2>1, <3>3, <4>8 DEF StreamPart, Asking, Found
        <3> QED
            BY <1>23, <2>4, <3>2, <3>3 DEF Scan, TypeOK, WorkerType
    <2> QED
        BY <1>23, <2>3, <2>4 DEF Scan, TypeOK, WorkerType
<1>24. CASE ReplyMatch
    <2>1. /\ worker'.pc = "decode" /\ worker'.num = di.cur
          /\ di'.cur = di.cur /\ di'.old = di.old /\ wait'.conds = wait.conds /\ UNCHANGED data
        BY <1>24 DEF ReplyMatch, TypeOK, InstType, WaitType, WorkerType
    <2>2. Matching
        BY <1>24 DEF ReplyMatch, StreamPart, Found
    <2>3. Answered'
        BY <2>1, <2>2 DEF Matching, Answered
    <2> QED
        BY <2>1, <2>3 DEF StreamPart, Asking, Found
<1>25. CASE ReplyHandled
    <2>1. UNCHANGED <<data, wait, worker.num, worker.matched, di.cur, di.old, di.match>>
        BY <1>25 DEF ReplyHandled, TypeOK, InstType, WorkerType
    <2>2. Asking /\ ~Found /\ worker'.pc \in {"exit", "release"}
        BY <1>25 DEF ReplyHandled, Asking, Found, TypeOK, WorkerType
    <2> QED
        BY <2>1, <2>2, FrameStream
<1>26. CASE WorkerEnd
    <2>1. UNCHANGED <<data, wait, worker.num, worker.matched, di.cur, di.old, di.match>>
        BY <1>26 DEF WorkerEnd, TypeOK, InstType, WorkerType
    <2>2. \/ UNCHANGED <<worker.pc, worker.found>>
          \/ worker.pc \in {"none", "start"} /\ worker'.pc \in {"start", "decode"}
          \/ Asking /\ ~Found /\ worker'.pc \in {"release", "lock", "asleep"}
          \/ worker.pc = "lock" /\ worker'.pc = "scan"
          \/ worker'.pc \in {"exit", "finish", "exited"}
        BY <1>26 DEF WorkerEnd, Asking, Found, TypeOK, WorkerType
    <2> QED
        BY <2>1, <2>2, FrameStream
<1>27. CASE WorkerExit
    <2>1. UNCHANGED <<data, wait, worker.num, worker.matched, di.cur, di.old, di.match>>
        BY <1>27 DEF WorkerExit, TypeOK, InstType, WorkerType
    <2>2. \/ UNCHANGED <<worker.pc, worker.found>>
          \/ worker.pc \in {"none", "start"} /\ worker'.pc \in {"start", "decode"}
          \/ Asking /\ ~Found /\ worker'.pc \in {"release", "lock", "asleep"}
          \/ worker.pc = "lock" /\ worker'.pc = "scan"
          \/ worker'.pc \in {"exit", "finish", "exited"}
        BY <1>27 DEF WorkerExit, Asking, Found, TypeOK, WorkerType
    <2> QED
        BY <2>1, <2>2, FrameStream
<1>28. CASE UNCHANGED vars
    BY <1>28, FrameStream DEF vars
<1> QED
    BY <1>1, <1>2, <1>3, <1>4, <1>5, <1>6, <1>7, <1>8, <1>9, <1>10, <1>11, <1>12, <1>13, <1>14, <1>15, <1>16, <1>17, <1>18, <1>19, <1>20, <1>21, <1>22, <1>23, <1>24, <1>25, <1>26, <1>27, <1>28 DEF Next, CallerStep, WorkerStep

\* A step the script does not see.
LEMMA Unseen ==
    ASSUME UNCHANGED <<data, wait.conds, wait.from, wait.before, worker.num, worker.matched>>,
           Given' = Given, Asking' = Asking, Over' = Over
    PROVE  UNCHANGED Stream!vars
BY DEF Stream!vars, Asked

\* A step that ends the script.
LEMMA Ending ==
    ASSUME UNCHANGED <<data, wait.conds, wait.from, wait.before, worker.num, worker.matched>>,
           Given' \in Pos, Given' <= Given, ~Asking', Over'
    PROVE  Stream!Next
<1>1. Asked' = [Asked EXCEPT !.status = "over"]
    BY DEF Asked
<1>2. Stream!Over(Given')
    BY <1>1 DEF Stream!Over
<1> QED
    BY <1>2 DEF Stream!Next, Stream!Pos, Pos

\* What the application has handed over is a number of samples.
LEMMA GivenType == TypeOK => Given \in Pos
BY DEF TypeOK, InstType, Given

LEMMA SimInit == Init => Stream!Init
<1> SUFFICES ASSUME Init PROVE Stream!Init
    OBVIOUS
<1>1. Given = 0 /\ 0 \in Stream!Pos
    BY StreamAssumption DEF Init, FreshInst, Given, Stream!Pos
<1>2. Asked = Stream!Silent("over", 0)
    BY DEF Init, Asked, Asking, Over, NoWorker, FreshWait, Stream!Silent, Stream!Same, Same
<1> QED
    BY <1>1, <1>2 DEF Init, Stream!Init, Stream!Pin, Pin

\* Every action is a step of the stream, or one the script does not see.
LEMMA SimNext == TypeOK /\ HandOver /\ StreamPart /\ [Next]_vars => [Stream!Next]_(Stream!vars)
<1> SUFFICES ASSUME TypeOK, HandOver, StreamPart, [Next]_vars PROVE [Stream!Next]_(Stream!vars)
    OBVIOUS
<1> USE DEF CallerAt, CallerGoto, WorkerAt, WorkerGoto, SignalWorker, SignalCaller
<1>1. ASSUME NEW start \in Starts, OpenSession(start) PROVE [Stream!Next]_(Stream!vars)
    <2>1. worker.pc = "none" /\ caller.pc = "closed"
        BY <1>1 DEF OpenSession, HandOver, ThreadPart
    <2>2. /\ worker' = NoWorker /\ di' = FreshInst(start) /\ wait' = FreshWait(start)
          /\ caller'.pc = "idle" /\ UNCHANGED data
        BY <1>1 DEF OpenSession
    <2>3. Asked.status = "over"
        BY <2>1 DEF Asked, Asking, Over
    <2>4. Asked' = Stream!Silent("script", start)
        BY <2>2 DEF Asked, Asking, Over, NoWorker, FreshWait, Stream!Silent, Stream!Same, Same
    <2>5. Given' = start
        BY <2>2 DEF Given, FreshInst
    <2>6. Stream!Open(start) /\ start \in Stream!Pos
        BY <2>2, <2>3, <2>4, <2>5, ConstantsAssumption DEF Stream!Open, Stream!Pos, Pos
    <2> QED
        BY <2>6 DEF Stream!Next
<1>2. ASSUME NEW start \in Pos, NEW end \in Pos, SendChunk(start, end) PROVE [Stream!Next]_(Stream!vars)
    <2>1. /\ UNCHANGED <<data, wait, worker.num, worker.matched>>
          /\ Given' = Given /\ Asking' = Asking /\ Over' = Over
        BY <1>2 DEF SendChunk, TypeOK, InstType, WorkerType, CallerType, Given, Asking, Over, HandOver, ThreadPart
    <2> QED
        BY <2>1, Unseen
<1>3. ASSUME NEW start \in Pos, NEW end \in Pos, RejectChunk(start, end) PROVE [Stream!Next]_(Stream!vars)
    <2>1. /\ UNCHANGED <<data, wait, worker.num, worker.matched>>
          /\ Given' = Given /\ Asking' = Asking /\ Over' = Over
        BY <1>3 DEF RejectChunk, TypeOK, InstType, WorkerType, CallerType, Given, Asking, Over
    <2> QED
        BY <2>1, Unseen
<1>4. CASE PushChunk
    <2>1. /\ UNCHANGED <<data, wait, worker.num, worker.matched>>
          /\ Given' = caller.last /\ Asking' = Asking /\ Over' = Over
        BY <1>4 DEF PushChunk, TypeOK, InstType, WorkerType, CallerType, Given, Asking, Over
    <2>2. caller.last \in Pos /\ Given \in Pos
        BY GivenType DEF TypeOK, CallerType
    <2>3. CASE Gone /\ caller.last < Given
        <3>1. ~Asking' /\ Over'
            BY <2>1, <2>3 DEF Gone, Asking, Over
        <3> QED
            BY <2>1, <2>2, <2>3, <3>1, Ending DEF Pos
    <2>4. CASE caller.last >= Given
        <3>1. Stream!Supply(caller.last)
            BY <2>1, <2>4 DEF Stream!Supply, Asked
        <3> QED
            BY <2>2, <3>1 DEF Stream!Next, Stream!Pos, Pos
    <2>5. CASE ~Gone
        <3>1. Given = caller.first /\ caller.first <= caller.last
            BY <1>4, <2>5 DEF PushChunk, HandOver, ChunkPart, PushPart, Given
        <3> QED
            BY <2>2, <2>4, <3>1
    <2> QED
        BY <2>2, <2>3, <2>4, <2>5 DEF Pos
<1>5. CASE CheckHandled
    <2>1. /\ UNCHANGED <<data, wait, worker.num, worker.matched>>
          /\ Given' = Given /\ Asking' = Asking /\ Over' = Over
        BY <1>5 DEF CheckHandled, TypeOK, InstType, WorkerType, CallerType, Given, Asking, Over
    <2> QED
        BY <2>1, Unseen
<1>6. CASE Sent
    <2>1. /\ UNCHANGED <<data, wait, worker.num, worker.matched>>
          /\ Given' = Given /\ Asking' = Asking /\ Over' = Over
        BY <1>6 DEF Sent, TypeOK, InstType, WorkerType, CallerType, Given, Asking, Over
    <2> QED
        BY <2>1, Unseen
<1>7. CASE SessionEnd
    <2>1. /\ UNCHANGED <<data, wait, worker.num, worker.matched>>
          /\ Given' = Given /\ Asking' = Asking /\ Over' = Over
        BY <1>7 DEF SessionEnd, TypeOK, InstType, WorkerType, CallerType, Given, Asking, Over
    <2> QED
        BY <2>1, Unseen
<1>8. CASE TakeGilForEnd
    <2>1. /\ UNCHANGED <<data, wait, worker.num, worker.matched>>
          /\ Given' = Given /\ Asking' = Asking /\ Over' = Over
        BY <1>8 DEF TakeGilForEnd, TypeOK, InstType, WorkerType, CallerType, Given, Asking, Over
    <2> QED
        BY <2>1, Unseen
<1>9. CASE EndHook
    <2>1. /\ UNCHANGED <<data, wait, worker.num, worker.matched>>
          /\ Given' = Given /\ Asking' = Asking /\ Over' = Over
        BY <1>9 DEF EndHook, TypeOK, InstType, WorkerType, CallerType, Given, Asking, Over
    <2> QED
        BY <2>1, Unseen
<1>10. ASSUME NEW op \in {"close", "reset"}, Terminate(op) PROVE [Stream!Next]_(Stream!vars)
    <2>1. /\ UNCHANGED <<data, wait, worker.num, worker.matched>>
          /\ Given' = Given /\ Asking' = Asking /\ Over' = Over
        BY <1>10 DEF Terminate, TypeOK, InstType, WorkerType, CallerType, Given, Asking, Over
    <2> QED
        BY <2>1, Unseen
<1>11. CASE RequestTermination
    <2>1. /\ UNCHANGED <<data, wait, worker.num, worker.matched>>
          /\ Given' = Given /\ Asking' = Asking /\ Over' = Over
        BY <1>11 DEF RequestTermination, TypeOK, InstType, WorkerType, CallerType, Given, Asking, Over
    <2> QED
        BY <2>1, Unseen
<1>12. CASE JoinWorker
    <2>1. /\ UNCHANGED <<data, wait, worker.num, worker.matched>>
          /\ Given' = Given /\ Asking' = Asking /\ Over' = Over
        BY <1>12 DEF JoinWorker, TypeOK, InstType, WorkerType, CallerType, Given, Asking, Over
    <2> QED
        BY <2>1, Unseen
<1>13. CASE ResetInst
    <2>1. /\ worker' = NoWorker /\ di' = FreshInst(0) /\ wait' = FreshWait(0)
          /\ caller'.pc = "resetting" /\ UNCHANGED data /\ caller.pc = "reset"
        BY <1>13 DEF ResetInst, TypeOK, CallerType
    <2>2. Asked.status = "over" \/ (Asked.status = "script" /\ Asked.conds = {})
        <3>1. CASE worker.pc = "none"
            BY <2>1, <3>1 DEF StreamPart, NothingAsked, FreshWait, Asked, Asking, Over
        <3>2. CASE worker.pc = "exited"
            BY <3>2 DEF Asked, Asking, Over
        <3> QED
            BY <2>1, <3>1, <3>2 DEF HandOver, ThreadPart
    <2>3. Asked' = Stream!Silent("script", 0)
        BY <2>1 DEF Asked, Asking, Over, NoWorker, FreshWait, Stream!Silent, Stream!Same, Same
    <2>4. Given' = 0
        BY <2>1 DEF Given, FreshInst
    <2>5. Stream!Open(0) /\ 0 \in Stream!Pos
        BY <2>1, <2>2, <2>3, <2>4, StreamAssumption DEF Stream!Open, Stream!Pos
    <2> QED
        BY <2>5 DEF Stream!Next
<1>14. CASE ResetDone
    <2>1. /\ UNCHANGED <<data, wait, worker>> /\ Given' = Given /\ worker.pc = "none"
          /\ caller'.pc \in {"closed", "idle"} /\ caller.pc = "resetting"
        BY <1>14 DEF ResetDone, TypeOK, CallerType, Given, HandOver, ThreadPart
    <2>2. CASE caller'.pc = "closed"
        <3>1. ~Asking' /\ Over'
            BY <2>1, <2>2 DEF Asking, Over
        <3> QED
            BY <2>1, <3>1, GivenType, Ending DEF Pos
    <2>3. CASE caller'.pc = "idle"
        <3>1. Asking' = Asking /\ Over' = Over
            BY <2>1, <2>3 DEF Asking, Over
        <3> QED
            BY <2>1, <3>1, Unseen
    <2> QED
        BY <2>1, <2>2, <2>3
<1>15. CASE WakeCaller
    <2>1. /\ UNCHANGED <<data, wait, worker.num, worker.matched>>
          /\ Given' = Given /\ Asking' = Asking /\ Over' = Over
        BY <1>15 DEF WakeCaller, TypeOK, InstType, WorkerType, CallerType, Given, Asking, Over
    <2> QED
        BY <2>1, Unseen
<1>16. CASE StartDecode
    <2>1. /\ UNCHANGED <<data, wait, worker.num, worker.matched>>
          /\ Given' = Given /\ Asking' = Asking /\ Over' = Over
        BY <1>16 DEF StartDecode, TypeOK, InstType, WorkerType, CallerType, Given, Asking, Over
    <2> QED
        BY <2>1, Unseen
<1>17. ASSUME NEW conds \in CondLists, CallWait(conds) PROVE [Stream!Next]_(Stream!vars)
    <2>1. /\ worker.pc = "decode" /\ worker'.pc = "release" /\ worker'.num = worker.num
          /\ worker'.matched = {} /\ UNCHANGED <<data, caller>> /\ Given' = Given
        BY <1>17 DEF CallWait, TypeOK, InstType, WorkerType, Given
    <2>2. caller.pc # "closed"
        BY <2>1 DEF HandOver, ThreadPart
    <2>3. Asked.status = "script"
        BY <2>1, <2>2 DEF Asked, Asking, Over
    <2>4. /\ wait'.from = di.cur /\ wait'.before = di.old
          /\ wait'.conds \in CondLists \cup Stream!Skips
        <3>1. wait'.from = di.cur /\ wait'.before = di.old
            BY <1>17 DEF CallWait, TypeOK, WaitType
        <3>2. wait'.conds \in {conds, {[kind |-> "skip", count |-> 0]}, {[kind |-> "skip", count |-> 1]}}
              /\ (wait'.conds = conds \/ conds = {})
            BY <1>17 DEF CallWait, TypeOK, WaitType
        <3> QED
            BY <3>1, <3>2 DEF Stream!Skips
    <2>5. /\ di.cur = IF Asked.conds = {} THEN Asked.from ELSE Asked.num
          /\ di.old = IF Asked.conds = {} THEN Same ELSE data[Asked.num]
        BY <2>1 DEF StreamPart, NothingAsked, Answered, FreshWait, Asked
    <2>6. Asked' = [status |-> "asking", conds |-> wait'.conds, from |-> di.cur,
                    before |-> di.old, num |-> Asked.num, matched |-> {}]
        <3>1. Asking' /\ Asked.num = worker.num
            BY <2>1 DEF Asking, Asked
        <3> QED
            BY <2>1, <2>4, <3>1 DEF Asked
    <2>7. Stream!Ask(wait'.conds)
        BY <2>1, <2>3, <2>5, <2>6 DEF Stream!Ask, Stream!Same, Same
    <2> QED
        BY <2>4, <2>7 DEF Stream!Next
<1>18. CASE Raise
    <2>1. /\ UNCHANGED <<data, wait, worker.num, worker.matched>>
          /\ Given' = Given /\ ~Asking' /\ Over'
        BY <1>18 DEF Raise, TypeOK, InstType, WorkerType, Given, Asking, Over
    <2> QED
        BY <2>1, GivenType, Ending DEF Pos
<1>19. CASE Return
    <2>1. /\ UNCHANGED <<data, wait, worker.num, worker.matched>>
          /\ Given' = Given /\ ~Asking' /\ Over'
        BY <1>19 DEF Return, TypeOK, InstType, WorkerType, Given, Asking, Over
    <2> QED
        BY <2>1, GivenType, Ending DEF Pos
<1>20. CASE ReleaseGil
    <2>1. /\ UNCHANGED <<data, wait, worker.num, worker.matched>>
          /\ Given' = Given /\ Asking' = Asking /\ Over' = Over
        BY <1>20 DEF ReleaseGil, TypeOK, InstType, WorkerType, CallerType, Given, Asking, Over
    <2> QED
        BY <2>1, Unseen
<1>21. CASE CheckGot
    <2>1. /\ UNCHANGED <<data, wait, worker.num, worker.matched>>
          /\ Given' = Given /\ Asking' = Asking /\ Over' = Over
        BY <1>21 DEF CheckGot, TypeOK, InstType, WorkerType, CallerType, Given, Asking, Over
    <2> QED
        BY <2>1, Unseen
<1>22. CASE WakeWorker
    <2>1. /\ UNCHANGED <<data, wait, worker.num, worker.matched>>
          /\ Given' = Given /\ Asking' = Asking /\ Over' = Over
        BY <1>22 DEF WakeWorker, TypeOK, InstType, WorkerType, CallerType, Given, Asking, Over
    <2> QED
        BY <2>1, Unseen
<1>23. CASE Scan
    <2>1. /\ UNCHANGED <<data, caller, worker.num, worker.matched>>
          /\ Asking' = Asking /\ Over' = Over
        <3>1. /\ UNCHANGED <<data, caller, worker.num, worker.matched>>
              /\ worker.pc = "scan" /\ worker'.pc = "reply"
            BY <1>23 DEF Scan, TypeOK, WorkerType
        <3> QED
            BY <3>1 DEF Asking, Over
    <2>2. UNCHANGED <<wait.conds, wait.from, wait.before>>
        BY <1>23 DEF Scan, TypeOK, WaitType
    <2>3. UNCHANGED di \/ (di.got /\ di'.got /\ di'.end = di.end)
        BY <1>23 DEF Scan, TypeOK, InstType, HandOver, WorkerPart
    <2>4. Given' = Given
        BY <2>3 DEF Given
    <2> QED
        BY <2>1, <2>2, <2>4, Unseen
<1>24. CASE ReplyMatch
    <2>1. /\ Found /\ worker'.pc = "decode" /\ worker'.num = di.cur
          /\ worker'.matched = di.match /\ UNCHANGED <<data, caller, wait.conds, wait.from, wait.before>>
          /\ Given' = Given
        BY <1>24 DEF ReplyMatch, Found, TypeOK, InstType, WaitType, WorkerType, Given
    <2>2. Matching /\ di.got /\ di.cur < di.end /\ caller.pc # "closed"
        BY <2>1 DEF StreamPart, HandOver, WorkerPart, ThreadPart, Found
    <2>3. /\ di.cur \in Pos /\ wait.from \in Pos /\ di.end \in Pos /\ NumSamples \in Nat
          /\ Given = di.end /\ di.cur \in wait.from..(di.end - 1)
        BY <2>2, StreamAssumption DEF TypeOK, InstType, WaitType, Given, Matching, Pos
    <2>4. Asked.status = "asking" /\ Asked.from = wait.from
        BY <2>1 DEF Asked, Asking, Found
    <2>5. Asked' = [status |-> "script", conds |-> Asked.conds, from |-> Asked.from,
                    before |-> Asked.before, num |-> di.cur, matched |-> di.match]
        <3>1. ~Asking' /\ ~Over'
            BY <2>1, <2>2 DEF Asking, Over
        <3>2. /\ Asked.conds = wait.conds /\ Asked.from = wait.from
              /\ Asked.before = wait.before
            BY DEF Asked
        <3>3. Asked' = [status |-> "script", conds |-> wait.conds, from |-> wait.from,
                        before |-> wait.before, num |-> di.cur, matched |-> di.match]
            BY <2>1, <3>1 DEF Asked
        <3> QED
            BY <3>2, <3>3
    <2>6. Stream!Answer(di.cur)
        BY <2>1, <2>2, <2>3, <2>4, <2>5 DEF Stream!Answer, Matching, NoneBefore
    <2> QED
        BY <2>3, <2>6 DEF Stream!Next, Stream!Pos, Pos
<1>25. CASE ReplyHandled
    <2>1. /\ UNCHANGED <<data, wait, worker.num, worker.matched>>
          /\ Given' = di.cur /\ worker.pc = "reply"
          /\ worker'.pc = IF di.want THEN "exit" ELSE "release"
        BY <1>25 DEF ReplyHandled, TypeOK, InstType, WorkerType, Given
    <2>2. Given \in Pos /\ di.cur \in Pos /\ di.cur <= Given
        BY <2>1, GivenType, StreamAssumption DEF TypeOK, InstType, Given, Pos, HandOver, ChunkPart, Gone
    <2>3. CASE di.want
        <3>1. ~Asking' /\ Over'
            BY <2>1, <2>3 DEF Asking, Over
        <3> QED
            BY <2>1, <2>2, <3>1, Ending DEF Pos
    <2>4. CASE ~di.want
        <3>1. Asking' /\ Asking
            BY <2>1, <2>4 DEF Asking
        <3>2. Given' = Given
            BY <1>25, <2>1, <2>4 DEF ReplyHandled, Given, HandOver, WorkerPart
        <3>3. caller.pc # "closed" /\ caller'.pc # "closed"
            BY <1>25, <2>1 DEF ReplyHandled, HandOver, ThreadPart, TypeOK, CallerType
        <3>4. Over' = Over
            BY <2>1, <2>4, <3>3 DEF Over
        <3> QED
            BY <2>1, <3>1, <3>2, <3>4, Unseen
    <2> QED
        BY <2>3, <2>4
<1>26. CASE WorkerEnd
    <2>1. /\ UNCHANGED <<data, wait, worker.num, worker.matched>>
          /\ Given' = Given /\ Asking' = Asking /\ Over' = Over
        BY <1>26 DEF WorkerEnd, TypeOK, InstType, WorkerType, CallerType, Given, Asking, Over
    <2> QED
        BY <2>1, Unseen
<1>27. CASE WorkerExit
    <2>1. /\ UNCHANGED <<data, wait, worker.num, worker.matched>>
          /\ Given' = Given /\ Asking' = Asking /\ Over' = Over
        BY <1>27 DEF WorkerExit, TypeOK, InstType, WorkerType, CallerType, Given, Asking, Over
    <2> QED
        BY <2>1, Unseen
<1>28. CASE UNCHANGED vars
    BY <1>28, Unseen DEF vars, Given, Asking, Over
<1> QED
    BY <1>1, <1>2, <1>3, <1>4, <1>5, <1>6, <1>7, <1>8, <1>9, <1>10, <1>11, <1>12, <1>13, <1>14, <1>15, <1>16, <1>17, <1>18, <1>19, <1>20, <1>21, <1>22, <1>23, <1>24, <1>25, <1>26, <1>27, <1>28 DEF Next, CallerStep, WorkerStep

LEMMA StreamInvariant == Spec => [](TypeOK /\ HandOver /\ StreamPart)
<1>1. Init => TypeOK /\ HandOver /\ StreamPart
    BY TypeInit, HandOverInit, StreamInit
<1>2. TypeOK /\ HandOver /\ StreamPart /\ [Next]_vars => (TypeOK /\ HandOver /\ StreamPart)'
    BY TypeNext, HandOverNext, StreamNext
<1> QED
    BY <1>1, <1>2, PTL DEF Spec

\* libsigrokdecode's promise to a script: whatever the chunks of
\* srd_session_send, wait() answers with the first matching sample of the stream.
THEOREM ChunksInvisibleCorrect == Spec => ChunksInvisible
<1>1. Init => Stream!Init
    BY SimInit
<1>2. TypeOK /\ HandOver /\ StreamPart /\ [Next]_vars => [Stream!Next]_(Stream!vars)
    BY SimNext
<1> QED
    BY <1>1, <1>2, StreamInvariant, PTL DEF Spec, ChunksInvisible, Stream!Spec
=============================================================================
