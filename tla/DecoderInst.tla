------------------------------ MODULE DecoderInst ------------------------------
(***************************************************************************)
(* The hand-over of sample chunks between the thread that calls a          *)
(* libsigrokdecode session (srd_session_send, ds_srd_session_end,          *)
(* srd_session_terminate_reset, srd_session_destroy) and the worker thread *)
(* of the session's top decoder instance (di_thread, Decoder.wait()).      *)
(*                                                                         *)
(* The threads share the instance under data_mutex, wait for each other on *)
(* two condition variables and compete for Python's interpreter lock.      *)
(* data_mutex is held over several steps by the worker only, while it      *)
(* scans a chunk and then waits for the interpreter; every section the     *)
(* caller runs under it is one action.  A waiting thread is woken by a     *)
(* signal, or spuriously.                                                  *)
(***************************************************************************)
EXTENDS WaitConditions

CONSTANTS
    Starts,     \* where the caller may start a session (decode_start)
    MaxAgain    \* bound: waits in a row a script lets return one sample

VARIABLES
    data,       \* the capture, of which the caller hands over chunks
    di,         \* struct srd_decoder_inst
    wait,       \* the wait() in progress, or the last one
    worker,     \* the worker thread, and what wait() set on the Python object
    caller      \* the application thread

vars == <<data, di, wait, worker, caller>>

\* What the script sees of all this (SampleStream): the samples handed over so
\* far, and its question.
Given == IF di.got THEN di.end ELSE di.cur

Asking == worker.pc \in {"release", "lock", "asleep", "scan", "reply"}
Over == worker.pc \in {"exit", "finish", "exited"} \/ caller.pc = "closed"

Asked ==
    [status  |-> IF Asking THEN "asking" ELSE IF Over THEN "over" ELSE "script",
     conds   |-> wait.conds, from |-> wait.from, before |-> wait.before,
     num     |-> worker.num, matched |-> worker.matched]

Stream == INSTANCE SampleStream WITH given <- Given, ask <- Asked

ASSUME ConstantsAssumption ==
    /\ Starts \subseteq Pos /\ Starts # {}
    /\ MaxAgain \in Nat

CallerPC == {"closed", "idle", "push", "check", "asleep", "sent",
             "end", "ending", "term", "join", "reset", "resetting"}
WorkerPC == {"none", "start", "decode", "release", "lock", "asleep", "scan",
             "reply", "exit", "finish", "exited"}

WorkerHoldsMutex == worker.pc \in {"scan", "reply"}
MutexFree == ~WorkerHoldsMutex
WorkerHoldsGil == worker.pc \in {"decode", "release", "exit", "finish"}
CallerHoldsGil == caller.pc \in {"ending", "resetting"}
GilFree == ~WorkerHoldsGil /\ ~CallerHoldsGil

\* The instance as srd_inst_new and srd_inst_reset_state leave it; decode_data
\* then sets the sample number the session starts at.
FreshInst(cur) ==
    [cur |-> cur, start |-> 0, end |-> 0, inbuf |-> FALSE, got |-> FALSE,
     handled |-> FALSE, want |-> FALSE, failed |-> FALSE, thread |-> FALSE,
     old |-> Same, conds |-> FALSE, match |-> {}]

FreshWait(cur) ==
    [conds |-> {}, bare |-> FALSE, skipped |-> 0, from |-> cur, before |-> Same, again |-> 0]

NoWorker == [pc |-> "none", num |-> 0, found |-> FALSE, matched |-> {}]

Init ==
    /\ data \in [0..(NumSamples - 1) -> Pin]
    /\ di = FreshInst(0)
    /\ wait = FreshWait(0)
    /\ worker = NoWorker
    /\ caller = [pc |-> "closed", op |-> "none", first |-> 0, last |-> 0, result |-> "none"]

CallerAt(pc) == caller.pc = pc
CallerGoto(pc) == caller' = [caller EXCEPT !.pc = pc]
WorkerAt(pc) == worker.pc = pc
WorkerGoto(pc) == worker' = [worker EXCEPT !.pc = pc]

\* g_cond_signal: a thread that waits goes on to take the mutex again.
SignalWorker == IF WorkerAt("asleep") THEN WorkerGoto("lock") ELSE UNCHANGED worker
SignalCaller == IF CallerAt("asleep") THEN CallerGoto("check") ELSE UNCHANGED caller

-----------------------------------------------------------------------------
(* The caller.                                                             *)

\* A session with one top instance; decode_data names its first sample.
OpenSession(start) ==
    /\ CallerAt("closed")
    /\ di' = FreshInst(start)
    /\ wait' = FreshWait(start)
    /\ worker' = NoWorker
    /\ caller' = [pc |-> "idle", op |-> "none", first |-> start, last |-> start, result |-> "none"]
    /\ UNCHANGED data

\* srd_inst_decode rejects a chunk that is not the next one.
RejectChunk(start, end) ==
    /\ CallerAt("idle")
    /\ start # di.cur \/ end < start
    /\ caller' = [caller EXCEPT !.first = start, !.result = "arg"]
    /\ UNCHANGED <<data, di, wait, worker>>

\* srd_inst_decode: the first chunk starts the worker.
SendChunk(start, end) ==
    /\ CallerAt("idle")
    /\ start = di.cur /\ end >= start
    /\ caller' = [caller EXCEPT !.pc = "push", !.first = start, !.last = end, !.result = "none"]
    /\ IF di.thread
          THEN UNCHANGED <<di, worker>>
          ELSE di' = [di EXCEPT !.thread = TRUE] /\ WorkerGoto("start")
    /\ UNCHANGED <<data, wait>>

\* Mutant of PushChunk: the worker is not told.
PushChunkSilently ==
    /\ CallerAt("push") /\ MutexFree
    /\ di' = [di EXCEPT !.start = caller.first, !.end = caller.last, !.inbuf = TRUE,
                        !.got = TRUE, !.handled = FALSE]
    /\ CallerGoto("check")
    /\ UNCHANGED <<data, wait, worker>>

PushChunk ==
    /\ CallerAt("push") /\ MutexFree
    /\ di' = [di EXCEPT !.start = caller.first, !.end = caller.last, !.inbuf = TRUE,
                        !.got = TRUE, !.handled = FALSE]
    /\ SignalWorker
    /\ CallerGoto("check")
    /\ UNCHANGED <<data, wait>>

\* Wait until the chunk is handled or the worker is told to end.
CheckHandled ==
    /\ CallerAt("check") /\ MutexFree
    /\ CallerGoto(IF di.handled \/ di.want THEN "sent" ELSE "asleep")
    /\ UNCHANGED <<data, di, wait, worker>>

\* After the mutex is released: want_wait_terminate decides the result.
Sent ==
    /\ CallerAt("sent")
    /\ caller' = [caller EXCEPT !.pc = "idle", !.result = IF di.want THEN "term" ELSE "ok"]
    /\ UNCHANGED <<data, di, wait, worker>>

\* Mutant of SessionEnd: the hook runs after a failed chunk, too.
SessionEndAlways ==
    /\ CallerAt("idle") /\ caller.result # "none"
    /\ CallerGoto("end")
    /\ UNCHANGED <<data, di, wait, worker>>

\* ds_srd_session_end, which decode_data calls after its last chunk succeeded;
\* it takes the interpreter lock and runs the script's end() hook.
SessionEnd ==
    /\ CallerAt("idle") /\ caller.result = "ok"
    /\ CallerGoto("end")
    /\ UNCHANGED <<data, di, wait, worker>>

TakeGilForEnd ==
    /\ CallerAt("end") /\ GilFree
    /\ CallerGoto("ending")
    /\ UNCHANGED <<data, di, wait, worker>>

EndHook ==
    /\ CallerAt("ending")
    /\ caller' = [caller EXCEPT !.pc = "idle", !.result = "none"]
    /\ UNCHANGED <<data, di, wait, worker>>

\* srd_session_destroy ("close") and srd_session_terminate_reset ("reset").
Terminate(op) ==
    /\ CallerAt("idle")
    /\ caller' = [caller EXCEPT !.pc = IF di.thread THEN "term" ELSE "reset",
                                !.op = op, !.result = "none"]
    /\ UNCHANGED <<data, di, wait, worker>>

\* Mutant of RequestTermination: the worker is not told.
RequestTerminationSilently ==
    /\ CallerAt("term") /\ MutexFree
    /\ di' = [di EXCEPT !.want = TRUE]
    /\ CallerGoto("join")
    /\ UNCHANGED <<data, wait, worker>>

\* srd_inst_join_decode_thread: raise the request, wake the worker ...
RequestTermination ==
    /\ CallerAt("term") /\ MutexFree
    /\ di' = [di EXCEPT !.want = TRUE]
    /\ SignalWorker
    /\ CallerGoto("join")
    /\ UNCHANGED <<data, wait>>

\* ... and join it.
JoinWorker ==
    /\ CallerAt("join") /\ WorkerAt("exited")
    /\ di' = [di EXCEPT !.thread = FALSE]
    /\ CallerGoto("reset")
    /\ UNCHANGED <<data, wait, worker>>

\* srd_inst_reset_state; the Python part needs the interpreter lock, for the
\* script's reset() or to drop the object.
ResetInst ==
    /\ CallerAt("reset") /\ GilFree
    /\ di' = FreshInst(0)
    /\ wait' = FreshWait(0)
    /\ worker' = NoWorker
    /\ CallerGoto("resetting")
    /\ UNCHANGED data

ResetDone ==
    /\ CallerAt("resetting")
    /\ caller' = [caller EXCEPT !.pc = IF caller.op = "close" THEN "closed" ELSE "idle",
                                !.op = "none", !.first = 0, !.last = 0]
    /\ UNCHANGED <<data, di, wait, worker>>

\* Mutant of WakeCaller: "if" instead of "while" around the condition variable.
WakeCallerUnchecked ==
    /\ CallerAt("asleep")
    /\ CallerGoto("sent")
    /\ UNCHANGED <<data, di, wait, worker>>

WakeCaller ==
    /\ CallerAt("asleep")
    /\ CallerGoto("check")
    /\ UNCHANGED <<data, di, wait, worker>>

CallerStep ==
    \/ \E start \in Starts : OpenSession(start)
    \/ \E start, end \in Pos : SendChunk(start, end) \/ RejectChunk(start, end)
    \/ PushChunk \/ CheckHandled \/ Sent
    \/ SessionEnd \/ TakeGilForEnd \/ EndHook
    \/ \E op \in {"close", "reset"} : Terminate(op)
    \/ RequestTermination \/ JoinWorker \/ ResetInst \/ ResetDone

-----------------------------------------------------------------------------
(* The worker.                                                             *)

\* di_thread: decode() runs under the interpreter lock.
StartDecode ==
    /\ WorkerAt("start") /\ GilFree
    /\ WorkerGoto("decode")
    /\ UNCHANGED <<data, di, wait, caller>>

\* Conditions that cannot hold at the sample the last answer was.
Advances(conds) ==
    \A term \in conds : term.kind \in {"rising", "falling", "either"} \/ term.count > 0

\* wait(): a new condition list.  Without one the next sample is asked for,
\* which is the one after the last, except at the beginning of the capture.
CallWait(conds) ==
    /\ WorkerAt("decode") /\ ~di.want
    /\ wait.again >= MaxAgain => Advances(conds)
    /\ LET skip == IF di.cur = 0 /\ ~di.conds THEN 0 ELSE 1
       IN  wait' = [wait EXCEPT !.bare = conds = {}, !.skipped = 0,
                        !.from = di.cur, !.before = di.old,
                        !.conds = IF conds = {} THEN {[kind |-> "skip", count |-> skip]}
                                  ELSE conds]
    /\ di' = [di EXCEPT !.conds = TRUE]
    /\ worker' = [worker EXCEPT !.pc = "release", !.matched = {}]
    /\ UNCHANGED <<data, caller>>

\* wait() fails once termination is requested, and decode() with it; a script
\* may also fail by itself.
Raise ==
    /\ WorkerAt("decode")
    /\ di' = [di EXCEPT !.failed = TRUE]
    /\ WorkerGoto("exit")
    /\ UNCHANGED <<data, wait, caller>>

\* decode() is not supposed to return, but it may.
Return ==
    /\ WorkerAt("decode")
    /\ WorkerGoto("exit")
    /\ UNCHANGED <<data, di, wait, caller>>

ReleaseGil ==
    /\ WorkerAt("release")
    /\ WorkerGoto("lock")
    /\ UNCHANGED <<data, di, wait, caller>>

\* Under the mutex: wait for samples or for the request to terminate.
CheckGot ==
    /\ WorkerAt("lock")
    /\ WorkerGoto(IF di.got \/ di.want THEN "scan" ELSE "asleep")
    /\ UNCHANGED <<data, di, wait, caller>>

WakeWorker ==
    /\ WorkerAt("asleep")
    /\ WorkerGoto("lock")
    /\ UNCHANGED <<data, di, wait, caller>>

\* Mutant of OldPin: a chunk knows nothing of the sample before it.
OldPinOfChunk(p) == IF p > di.start THEN data[p - 1] ELSE data[p]

\* The pin before sample p, for a scan that starts at di.cur.
OldPin(p) ==
    IF p > di.cur THEN data[p - 1]
    ELSE IF p = 0 /\ di.old = Same THEN data[0] ELSE di.old

\* The conditions that hold at sample p.
Hits(p) ==
    {term \in wait.conds : Holds(term, OldPin(p), data[p], wait.skipped + p - di.cur)}

\* Mutant of Scan: a chunk without a match ends one sample too far.
ScanTooFar ==
    /\ WorkerAt("scan") /\ ~di.want
    /\ di' = [di EXCEPT !.cur = di.end + 1]
    /\ worker' = [worker EXCEPT !.pc = "reply", !.found = FALSE]
    /\ UNCHANGED <<data, wait, caller>>

\* process_samples_until_condition_match and find_match, over the chunk.
Scan ==
    /\ WorkerAt("scan")
    /\ LET matches == {p \in di.cur..(di.end - 1) : Hits(p) # {}}
       IN  \/ /\ di.want
              /\ worker' = [worker EXCEPT !.pc = "reply", !.found = FALSE]
              /\ UNCHANGED <<di, wait>>
           \/ /\ ~di.want
              /\ \E p \in matches :
                    /\ \A q \in matches : p <= q
                    /\ di' = [di EXCEPT !.cur = p, !.old = data[p], !.match = Hits(p)]
              /\ worker' = [worker EXCEPT !.pc = "reply", !.found = TRUE]
              /\ UNCHANGED wait
           \/ /\ ~di.want /\ matches = {}
              /\ di' = [di EXCEPT !.cur = di.end, !.old = OldPin(di.end)]
              /\ wait' = [wait EXCEPT !.skipped = wait.skipped + di.end - di.cur]
              /\ worker' = [worker EXCEPT !.pc = "reply", !.found = FALSE]
    /\ UNCHANGED <<data, caller>>

\* Mutant of ReplyMatch: the first match counts as the end of the chunk.
ReplyMatchHandled ==
    /\ WorkerAt("reply") /\ worker.found /\ GilFree
    /\ worker' = [worker EXCEPT !.pc = "decode", !.num = di.cur, !.matched = di.match]
    /\ di' = [di EXCEPT !.match = {}, !.handled = TRUE]
    /\ wait' = [wait EXCEPT !.again = IF di.cur = wait.from THEN wait.again + 1 ELSE 0]
    /\ SignalCaller
    /\ UNCHANGED data

\* A match: tell the script, and only then release the mutex.
ReplyMatch ==
    /\ WorkerAt("reply") /\ worker.found /\ GilFree
    /\ worker' = [worker EXCEPT !.pc = "decode", !.num = di.cur, !.matched = di.match]
    /\ di' = [di EXCEPT !.match = {}]
    /\ wait' = [wait EXCEPT !.again = IF di.cur = wait.from THEN wait.again + 1 ELSE 0]
    /\ UNCHANGED <<data, caller>>

\* No match: the chunk is done, the caller may go on.
ReplyHandled ==
    /\ WorkerAt("reply") /\ ~worker.found /\ GilFree
    /\ di' = [di EXCEPT !.got = FALSE, !.handled = TRUE, !.start = 0, !.end = 0,
                        !.inbuf = FALSE, !.failed = di.failed \/ di.want]
    /\ WorkerGoto(IF di.want THEN "exit" ELSE "release")
    /\ SignalCaller
    /\ UNCHANGED <<data, wait>>

\* Mutant of WorkerEnd: the caller is left waiting.
WorkerEndSilently ==
    /\ WorkerAt("exit")
    /\ WorkerGoto("finish")
    /\ UNCHANGED <<data, di, wait, caller>>

\* The end of di_thread: nobody may go on waiting for this worker.
WorkerEnd ==
    /\ WorkerAt("exit")
    /\ di' = [di EXCEPT !.want = TRUE, !.handled = TRUE]
    /\ WorkerGoto("finish")
    /\ SignalCaller
    /\ UNCHANGED <<data, wait>>

WorkerExit ==
    /\ WorkerAt("finish")
    /\ WorkerGoto("exited")
    /\ UNCHANGED <<data, di, wait, caller>>

WorkerStep ==
    \/ StartDecode \/ (\E conds \in CondLists : CallWait(conds)) \/ Raise \/ Return
    \/ ReleaseGil \/ CheckGot \/ Scan \/ ReplyMatch \/ ReplyHandled
    \/ WorkerEnd \/ WorkerExit

Next == CallerStep \/ WakeCaller \/ WorkerStep \/ WakeWorker

Spec == Init /\ [][Next]_vars

\* Both threads run; what the caller does next when it is idle, and whether it
\* opens another session, is up to the application.
FairSpec ==
    /\ Spec
    /\ WF_vars(WorkerStep)
    /\ WF_vars(CallerStep /\ caller.pc \notin {"idle", "closed"})

-----------------------------------------------------------------------------
(* Properties.                                                             *)

\* A call of srd_session_send is in progress.
InSend == caller.pc \in {"push", "check", "asleep", "sent"}

\* The worker is inside wait(), at its condition variable or on the way to it.
Awaiting == worker.pc \in {"release", "lock", "asleep"}

InstType ==
    [cur : Pos, start : Pos, end : Pos, inbuf : BOOLEAN, got : BOOLEAN, handled : BOOLEAN,
     want : BOOLEAN, failed : BOOLEAN, thread : BOOLEAN, old : {0, 1, Same},
     conds : BOOLEAN, match : SUBSET Term]
WaitType ==
    [conds : SUBSET Term, bare : BOOLEAN, skipped : Nat, from : Pos,
     before : {0, 1, Same}, again : Nat]
WorkerType == [pc : WorkerPC, num : Pos, found : BOOLEAN, matched : SUBSET Term]
CallerType ==
    [pc : CallerPC, op : {"none", "close", "reset"}, first : Pos, last : Pos,
     result : {"none", "arg", "ok", "term"}]

\* The variables hold values of their types.
TypeOK ==
    /\ data \in [0..(NumSamples - 1) -> Pin]
    /\ di \in InstType
    /\ wait \in WaitType
    /\ worker \in WorkerType
    /\ caller \in CallerType

\* The chunk buffer belongs to the caller and is gone when srd_session_send
\* returns: a worker that scans it, or reads pins from it for a match, does so
\* during the call, and inside the chunk.
BufferHeld ==
    /\ WorkerAt("scan") /\ ~di.want =>
          InSend /\ ~CallerAt("sent") /\ di.inbuf /\ di.start <= di.cur /\ di.cur <= di.end
    /\ WorkerAt("reply") /\ worker.found =>
          InSend /\ ~CallerAt("sent") /\ di.inbuf /\ di.start <= di.cur /\ di.cur < di.end

\* srd_session_send reports success only when every sample of the chunk was
\* scanned and the worker awaits more.
OkMeansConsumed ==
    CallerAt("idle") /\ caller.result = "ok" =>
        di.cur = caller.last /\ Awaiting /\ ~di.want /\ ~di.got

\* "DSView's optional completion hook runs while decoder workers await input."
EndWhileAwaiting ==
    CallerAt("ending") => Awaiting /\ di.cur = caller.last

\* Neither thread sleeps through what it waits for: a sleeping caller's chunk
\* is still with a live worker, a sleeping worker has no chunk and no request.
NoLostWakeup ==
    /\ CallerAt("asleep") => ~di.handled /\ ~di.want /\ worker.pc \notin {"asleep", "finish", "exited"}
    /\ WorkerAt("asleep") => ~di.got /\ ~di.want

\* What libsigrokdecode promises a script: every question is answered with the
\* first sample of the whole capture at which a condition holds, with all the
\* conditions that hold there, however the capture was cut into chunks.
ChunksInvisible == Stream!Spec

\* srd_session_send returns, provided the script's waits move on.
SendReturns == InSend ~> CallerAt("idle")

\* srd_session_terminate_reset and srd_session_destroy return.
TerminateReturns == CallerAt("term") ~> caller.pc \in {"idle", "closed"}

\* type_decoder.c: without a condition "the next available sample shall get
\* returned to the caller": for the first wait() the one the session starts at.
NextSampleReturned ==
    WorkerAt("decode") /\ wait.bare /\ wait.before = Same => worker.num = wait.from
=============================================================================
