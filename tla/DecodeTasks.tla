----------------------------- MODULE DecodeTasks -----------------------------
(***************************************************************************)
(* The decode task manager of DSView/pv/sigsession.cpp together with the   *)
(* run state of a decoder stack (DSView/pv/data/decoderstack.cpp).         *)
(*                                                                         *)
(* Three threads meet here:                                                *)
(*   - the UI thread adds, resets and removes decoders, starts and stops   *)
(*     captures, refreshes the view and handles the END message;           *)
(*   - the feed thread (the collect thread inside data_feed_in) starts the *)
(*     decoders of a triggered frame and, in DSO mode, of the END packet;  *)
(*   - the decode thread (decode_task_proc) takes traces off the queue and *)
(*     runs them one after the other.                                      *)
(*                                                                         *)
(* A section under _decode_task_mutex is one action, and so is one pass of *)
(* a loop without it.  _data_mutex spans several actions and is the        *)
(* variable dataMutex.  Of the number of samples in the view's snapshot    *)
(* the module keeps whether there are any.                                 *)
(***************************************************************************)
EXTENDS Naturals, Sequences, SequencesExt

CONSTANTS
    Traces,     \* the decoder traces that may be created
    NoTrace,    \* "no trace": the NULL of get_top_decode_task
    Mode,       \* DSO, or LOGIC captured as a stream or into device memory
    UserOps,    \* the operations the user is allowed to ask for
    EndStatus,  \* whether the END packet may carry an error status
    MaxTasks    \* bound: no producer starts with more tasks than this queued

AllOps == {"add", "remove", "reset", "clearAll", "capture", "refresh"}

ASSUME ConstantsAssumption ==
    /\ NoTrace \notin Traces
    /\ Mode \in {"DSO", "STREAM", "BUFFER"}
    /\ UserOps \subseteq AllOps
    /\ EndStatus \subseteq {"ok", "error"} /\ "ok" \in EndStatus
    /\ MaxTasks \in Nat \ {0}

VARIABLES
    traces,      \* _decode_traces, written by the UI thread without a lock
    freed,       \* traces whose object was deleted (or left to deleteLater)
    tasks,       \* _decode_tasks
    isDecoding,  \* SigSession::_is_decoding
    dec,         \* the decode thread: its position and the task it holds
    running,     \* the traces whose _decode_state is Running
    bStop,       \* the traces whose _stask_stauts->_bStop is raised
    optChanged,  \* the traces whose _options_changed is set
    captureEnd,  \* the traces whose _is_capture_end is set
    deleteFlag,  \* the traces whose _delete_flag is set
    dataMutex,   \* who holds _data_mutex
    dataLock,    \* _data_lock: data packets are dropped
    haveData,    \* the view snapshot holds samples
    feed,        \* the collect thread: position, and traces its loop still visits
    trigDecode,  \* _trigger_decode_started
    isWorking,   \* _is_working
    endMsg,      \* the message the END packet left for the UI thread
    trigErr,     \* the error message of a bad trigger packet waits for the UI thread
    ui           \* the UI thread: position, operation, its trace(s), the running
                 \* trace that clear_all_decode_task found, local flag

taskVars    == <<tasks, isDecoding, dec>>
stackVars   == <<running, bStop, optChanged, captureEnd>>
objectVars  == <<traces, freed, deleteFlag>>
captureVars == <<dataMutex, dataLock, haveData, feed, trigDecode, isWorking, endMsg,
                 trigErr>>
vars == <<taskVars, stackVars, objectVars, captureVars, ui>>

\* decode_data: the head of its loop and the read of a chunk, before and after it
\* has adjusted its end to the samples of an ended capture.
Decoding == {"work", "read", "tail", "readTail"}

DecPC  == Decoding \cup {"none", "top", "check", "begin", "status", "options",
                         "done", "recheck", "leaving", "exited"}
FeedPC == {"off", "stream", "frame", "failed", "end", "ending"}
UiPC   == {"idle", "erased", "task", "free", "rearm", "enqueue", "clear", "join",
           "wipe", "mark", "started", "end", "stopJoin"}
UiOps  == AllOps \cup {"none", "end", "stop"}

\* The decode thread exists as long as nobody has joined it.
Alive == dec.pc \notin {"none", "exited"}

\* Positions at which the decode thread uses the task it holds.
Holding == dec.pc \in Decoding \cup {"check", "begin", "status", "options", "done", "recheck"}

\* is_working(): the flag, or the device status set between start and end.
IsWorking == isWorking \/ feed.pc # "off"

\* The UI thread in its event loop.
Idle == [pc |-> "idle", op |-> "none", todo |-> {}, found |-> {}, flag |-> FALSE]

Init ==
    /\ traces = {} /\ freed = {} /\ deleteFlag = {}
    /\ tasks = <<>> /\ isDecoding = FALSE
    /\ dec = [pc |-> "none", task |-> NoTrace]
    /\ running = {} /\ bStop = {} /\ optChanged = {} /\ captureEnd = Traces
    /\ dataMutex = "none" /\ dataLock = FALSE /\ haveData \in BOOLEAN
    /\ feed = [pc |-> "off", todo |-> {}]
    /\ trigDecode = FALSE /\ isWorking = FALSE /\ endMsg = "none"
    /\ trigErr = FALSE
    /\ ui = Idle

-----------------------------------------------------------------------------
(* Helpers shared by the threads.                                          *)

\* stop_decode_work: raise the stop flag and declare the stack stopped, even
\* though the decode thread may still be inside it.
Stop(S) ==
    /\ bStop' = bStop \cup S
    /\ running' = running \ S

\* add_decode_task: push; unless a thread is marked as decoding, join the old
\* one (it may still have to run to its end) and start a new one.
AddTask(t) ==
    /\ tasks' = Append(tasks, t)
    /\ IF isDecoding
          THEN UNCHANGED <<isDecoding, dec>>
          ELSE /\ ~Alive
               /\ isDecoding' = TRUE
               /\ dec' = [pc |-> "top", task |-> NoTrace]

\* Mutant of RemoveTask: the waiting entry stays in the queue.
RemoveTaskKeepsEntry(t) ==
    /\ UNCHANGED tasks
    /\ Stop({t})

\* remove_decode_task: drop the first entry of t, and stop t in any case.
RemoveTask(t) ==
    /\ \/ /\ t \notin ToSet(tasks) /\ UNCHANGED tasks
       \/ \E i \in DOMAIN tasks :
             /\ tasks[i] = t /\ \A j \in 1..(i - 1) : tasks[j] # t
             /\ tasks' = RemoveAt(tasks, i)
    /\ Stop({t})

UiAt(pc) == ui.pc = pc
UiGoto(pc) == ui' = [ui EXCEPT !.pc = pc]
UiCall(op, pc, S, flag) ==
    /\ UiAt("idle")
    /\ ui' = [pc |-> pc, op |-> op, todo |-> S, found |-> {}, flag |-> flag]

\* The user may start op; one that queues a task only within the bound.
MayAsk(op) ==
    /\ op \in UserOps
    /\ op \in {"add", "reset"} => Len(tasks) < MaxTasks

-----------------------------------------------------------------------------
(* The UI thread: decoders.                                                *)

\* add_decoder: a new trace; unless it is loaded silently it is queued when the
\* view has data.
AddDecoder(t, silent) ==
    /\ MayAsk("add")
    /\ t \notin traces \cup freed \cup deleteFlag
    /\ traces' = traces \cup {t}
    /\ optChanged' = IF silent THEN optChanged ELSE optChanged \cup {t}
    /\ IF ~silent /\ haveData
          THEN UiCall("add", "enqueue", {t}, FALSE)
          ELSE UiAt("idle") /\ UNCHANGED ui
    /\ UNCHANGED <<freed, deleteFlag, taskVars, running, bStop, captureEnd, captureVars>>

\* remove_decoder: leave the list ...
RemoveDecoder(t) ==
    /\ MayAsk("remove")
    /\ t \in traces
    /\ traces' = traces \ {t}
    /\ UiCall("remove", "erased", {t}, FALSE)
    /\ UNCHANGED <<freed, deleteFlag, taskVars, stackVars, captureVars>>

\* ... and read whether the stack is running.
UiReadRunning ==
    /\ UiAt("erased")
    /\ ui' = [ui EXCEPT !.pc = "task", !.flag = (ui.todo \subseteq running)]
    /\ UNCHANGED <<objectVars, taskVars, stackVars, captureVars>>

\* rst_decoder: only when the view has data.
RstDecoder(t) ==
    /\ MayAsk("reset")
    /\ t \in traces /\ haveData
    /\ UiCall("reset", "task", {t}, FALSE)
    /\ UNCHANGED <<objectVars, taskVars, stackVars, captureVars>>

\* remove_decode_task on behalf of remove_decoder or rst_decoder.
UiRemoveTask ==
    /\ UiAt("task")
    /\ \E t \in ui.todo : RemoveTask(t)
    /\ UiGoto(IF ui.op = "remove" THEN "free" ELSE "rearm")
    /\ UNCHANGED <<objectVars, isDecoding, dec, optChanged, captureEnd, captureVars>>

\* The end of remove_decoder: a running trace is left to the decode thread,
\* any other is deleted here.
UiFree ==
    /\ UiAt("free")
    /\ IF ui.flag
          THEN deleteFlag' = deleteFlag \cup ui.todo /\ UNCHANGED freed
          ELSE freed' = freed \cup ui.todo /\ UNCHANGED deleteFlag
    /\ ui' = Idle
    /\ UNCHANGED <<traces, taskVars, stackVars, captureVars>>

\* The middle of rst_decoder: clear the results and arm the stack again.
UiRearm ==
    /\ UiAt("rearm")
    /\ captureEnd' = IF IsWorking THEN captureEnd \ ui.todo ELSE captureEnd \cup ui.todo
    /\ optChanged' = optChanged \cup ui.todo
    /\ UiGoto("enqueue")
    /\ UNCHANGED <<objectVars, taskVars, running, bStop, captureVars>>

UiEnqueue ==
    /\ UiAt("enqueue")
    /\ \E t \in ui.todo : AddTask(t)
    /\ ui' = Idle
    /\ UNCHANGED <<objectVars, stackVars, captureVars>>

-----------------------------------------------------------------------------
(* The UI thread: clear_all_decode_task and the operations that call it.   *)

ClearAllDecoder ==
    /\ MayAsk("clearAll")
    /\ traces # {}
    /\ UiCall("clearAll", "clear", {}, FALSE)
    /\ UNCHANGED <<objectVars, taskVars, stackVars, captureVars>>

\* action_start_capture.  The messages of the previous capture were posted
\* before the user could see that capture end, so they are handled first.
StartCapture ==
    /\ MayAsk("capture")
    /\ ~isWorking /\ feed.pc = "off" /\ endMsg = "none" /\ ~trigErr
    /\ UiCall("capture", "clear", {}, FALSE)
    /\ UNCHANGED <<objectVars, taskVars, stackVars, captureVars>>

\* What calls refresh: the user's changes of a DSO channel, and on_session_error
\* for the error of a trigger packet or of END.
RefreshCause ==
    \/ Mode = "DSO" /\ MayAsk("refresh") /\ UNCHANGED <<endMsg, trigErr>>
    \/ endMsg = "error" /\ endMsg' = "none" /\ UNCHANGED trigErr
    \/ trigErr /\ trigErr' = FALSE /\ UNCHANGED endMsg

\* Mutant of Refresh: the data mutex is not taken.
RefreshUnlocked ==
    /\ dataMutex = "none"
    /\ RefreshCause
    /\ dataLock' = TRUE
    /\ haveData' = (haveData /\ Mode = "DSO")
    /\ UiCall("refresh", "clear", {}, FALSE)
    /\ UNCHANGED <<objectVars, taskVars, stackVars, dataMutex, feed, trigDecode, isWorking>>

\* Mutant of Refresh: the DSO samples go together with the LOGIC ones.
RefreshWipesAll ==
    /\ dataMutex = "none"
    /\ RefreshCause
    /\ dataMutex' = "ui"
    /\ dataLock' = TRUE
    /\ haveData' = FALSE
    /\ UiCall("refresh", "clear", {}, FALSE)
    /\ UNCHANGED <<objectVars, taskVars, stackVars, feed, trigDecode, isWorking>>

\* refresh: takes _data_mutex and keeps it until it returns.  The LOGIC samples
\* are gone at once, those of the other modes after the decode thread.
Refresh ==
    /\ dataMutex = "none"
    /\ RefreshCause
    /\ dataMutex' = "ui"
    /\ dataLock' = TRUE
    /\ haveData' = (haveData /\ Mode = "DSO")
    /\ UiCall("refresh", "clear", {}, FALSE)
    /\ UNCHANGED <<objectVars, taskVars, stackVars, feed, trigDecode, isWorking>>

\* Under the task mutex: stop every waiting trace and empty the queue.
UiClear ==
    /\ UiAt("clear")
    /\ Stop(ToSet(tasks))
    /\ tasks' = <<>>
    /\ ui' = [ui EXCEPT !.pc = "join", !.todo = traces]
    /\ UNCHANGED <<objectVars, isDecoding, dec, optChanged, captureEnd, captureVars>>

\* Without the mutex, one trace after the other (in the order of the list, here in
\* any): stop the one that says it is running, and remember the last such.
UiScanTrace(t) ==
    /\ UiAt("join") /\ t \in ui.todo
    /\ IF t \in running
          THEN Stop({t}) /\ ui' = [ui EXCEPT !.todo = @ \ {t}, !.found = {t}]
          ELSE UNCHANGED <<bStop, running>> /\ ui' = [ui EXCEPT !.todo = @ \ {t}]
    /\ UNCHANGED <<objectVars, taskVars, optChanged, captureEnd, captureVars>>

\* Mutant of UiJoin: the caller goes on without waiting for the thread.
UiJoinNoWait ==
    /\ UiAt("join") /\ ui.todo = {}
    /\ UiGoto(IF ui.op = "clearAll" THEN "mark" ELSE "wipe")
    /\ UNCHANGED <<objectVars, taskVars, stackVars, captureVars>>

\* Wait for the decode thread to return.
UiJoin ==
    /\ UiAt("join") /\ ui.todo = {}
    /\ ~Alive
    /\ dec' = [pc |-> "none", task |-> NoTrace]
    /\ UiGoto(IF ui.op = "clearAll" THEN "mark" ELSE "wipe")
    /\ UNCHANGED <<objectVars, tasks, isDecoding, stackVars, captureVars>>

\* The end of clear_all_decoder: leave the trace that was running to the decode
\* thread and delete the others.
UiMark ==
    /\ UiAt("mark")
    /\ deleteFlag' = deleteFlag \cup ui.found
    /\ freed' = freed \cup (traces \ ui.found)
    /\ traces' = {}
    /\ ui' = Idle
    /\ UNCHANGED <<taskVars, stackVars, captureVars>>

\* clear_decode_result, and then what the caller does with the data: a new
\* capture (which may fail before or after capture_init unlocks the data), a
\* refreshed view, or the END handler.
UiWipe ==
    /\ UiAt("wipe")
    /\ captureEnd' = captureEnd \ traces
    /\ \/ /\ ui.op = "capture"
          /\ haveData' = FALSE /\ trigDecode' = FALSE
          /\ \/ /\ feed' = [pc |-> "stream", todo |-> {}] /\ UiGoto("started")
                /\ dataLock' = FALSE
             \/ /\ feed' = feed /\ ui' = Idle
                /\ dataLock' \in {FALSE, dataLock}
          /\ UNCHANGED dataMutex
       \/ /\ ui.op = "refresh"
          /\ haveData' = FALSE /\ dataMutex' = "none"
          /\ ui' = Idle
          /\ UNCHANGED <<trigDecode, feed, dataLock>>
       \/ /\ ui.op = "end"
          /\ ui' = [ui EXCEPT !.pc = "end", !.todo = traces]
          /\ UNCHANGED <<haveData, dataMutex, trigDecode, feed, dataLock>>
    /\ UNCHANGED <<objectVars, taskVars, running, bStop, optChanged,
                   isWorking, endMsg, trigErr>>

\* action_start_capture marks the session as working after the device started.
UiStarted ==
    /\ UiAt("started")
    /\ isWorking' = TRUE
    /\ ui' = Idle
    /\ UNCHANGED <<objectVars, taskVars, stackVars, dataMutex, dataLock, haveData,
                   feed, trigDecode, endMsg, trigErr>>

\* action_stop_capture: no longer working; then wait for the collect thread.  The
\* user calls it, and on_session_error after an overflow or without memory.
StopCapture ==
    /\ "capture" \in UserOps /\ isWorking
    /\ isWorking' = FALSE
    /\ UiCall("stop", "stopJoin", {}, FALSE)
    /\ UNCHANGED <<objectVars, taskVars, stackVars, dataMutex, dataLock, haveData,
                   feed, trigDecode, endMsg, trigErr>>

UiStopJoin ==
    /\ UiAt("stopJoin")
    /\ feed.pc = "off"
    /\ dataLock' = FALSE
    /\ ui' = Idle
    /\ UNCHANGED <<objectVars, taskVars, stackVars, dataMutex, haveData, feed,
                   trigDecode, isWorking, endMsg, trigErr>>

\* OnMessage(DSV_MSG_REV_END_PACKET) of a single LOGIC capture: one read from
\* device memory clears the decoders first, unless a packet started them.
EndPacketMessage ==
    /\ endMsg = "end" /\ endMsg' = "none"
    /\ IF Mode = "BUFFER" /\ ~trigDecode
          THEN UiCall("end", "clear", {}, TRUE)
          ELSE UiCall("end", "end", traces, FALSE)
    /\ UNCHANGED <<objectVars, taskVars, stackVars, dataMutex, dataLock, haveData,
                   feed, trigDecode, isWorking, trigErr>>

\* Mutant of UiEndTrace: the decoders do not learn that the capture ended.
UiEndTraceSilent(t) ==
    /\ UiAt("end") /\ t \in ui.todo
    /\ IF ui.flag
          THEN AddTask(t) /\ optChanged' = optChanged \cup {t}
          ELSE UNCHANGED <<taskVars, optChanged>>
    /\ ui' = [ui EXCEPT !.todo = @ \ {t}]
    /\ UNCHANGED <<objectVars, running, bStop, captureEnd, captureVars>>

UiEndTrace(t) ==
    /\ UiAt("end") /\ t \in ui.todo
    /\ captureEnd' = captureEnd \cup {t}
    /\ IF ui.flag
          THEN AddTask(t) /\ optChanged' = optChanged \cup {t}
          ELSE UNCHANGED <<taskVars, optChanged>>
    /\ ui' = [ui EXCEPT !.todo = @ \ {t}]
    /\ UNCHANGED <<objectVars, running, bStop, captureVars>>

UiEndDone ==
    /\ UiAt("end") /\ ui.todo = {}
    /\ ui' = Idle
    /\ UNCHANGED <<objectVars, taskVars, stackVars, captureVars>>

\* feed_timeout, from the timer that refresh started.
FeedTimeout ==
    /\ UiAt("idle") /\ dataLock
    /\ dataLock' = FALSE
    /\ UNCHANGED <<objectVars, taskVars, stackVars, ui, dataMutex, haveData, feed,
                   trigDecode, isWorking, endMsg, trigErr>>

-----------------------------------------------------------------------------
(* The feed thread: data_feed_in, always under _data_mutex.                *)

\* data_lock at the end of a DSO packet that is not of an instant capture.
LockAfterFrame == dataLock' \in {dataLock, dataLock \/ Mode = "DSO"}

\* A data packet: the first one of a LOGIC capture, and in DSO mode every one
\* with the trigger flag, starts all decoders.  Packets are dropped while
\* _data_lock is set.
FeedFrame ==
    /\ feed.pc = "stream" /\ dataMutex = "none" /\ ~dataLock
    /\ Len(tasks) < MaxTasks
    /\ haveData' = TRUE
    /\ \/ /\ ~trigDecode \/ Mode = "DSO"
          /\ trigDecode' = TRUE
          /\ dataMutex' = "feed"
          /\ feed' = [pc |-> "frame", todo |-> traces]
          /\ UNCHANGED dataLock
       \/ /\ trigDecode /\ LockAfterFrame
          /\ UNCHANGED <<trigDecode, dataMutex, feed>>
    /\ UNCHANGED <<objectVars, taskVars, stackVars, ui, isWorking, endMsg, trigErr>>

\* A trigger packet that the device marks as bad: only the error is posted.  It
\* comes before any data, and the device fails: END follows, with an error.
FeedBadTrigger ==
    /\ feed.pc = "stream" /\ dataMutex = "none" /\ ~dataLock
    /\ ~trigDecode /\ "error" \in EndStatus
    /\ trigErr' = TRUE
    /\ feed' = [pc |-> "failed", todo |-> {}]
    /\ UNCHANGED <<objectVars, taskVars, stackVars, ui, dataMutex, dataLock, haveData,
                   trigDecode, isWorking, endMsg>>

FeedFrameTrace(t) ==
    /\ feed.pc = "frame" /\ t \in feed.todo
    /\ captureEnd' = captureEnd \ {t}
    /\ optChanged' = optChanged \cup {t}
    /\ AddTask(t)
    /\ feed' = [feed EXCEPT !.todo = @ \ {t}]
    /\ UNCHANGED <<objectVars, running, bStop, ui, dataMutex, dataLock, haveData,
                   trigDecode, isWorking, endMsg, trigErr>>

\* The END packet.  LOGIC leaves it to the UI thread; DSO handles it here; an
\* error status only posts the error.
FeedEnd ==
    /\ feed.pc \in {"stream", "failed"} /\ dataMutex = "none"
    /\ \E status \in (IF feed.pc = "failed" THEN {"error"} ELSE EndStatus) :
          IF status = "ok" /\ Mode = "DSO"
             THEN /\ feed' = [pc |-> "end", todo |-> traces]
                  /\ dataMutex' = "feed"
                  /\ UNCHANGED endMsg
             ELSE /\ feed' = [pc |-> "ending", todo |-> {}]
                  /\ endMsg' = IF status = "ok" THEN "end" ELSE "error"
                  /\ UNCHANGED dataMutex
    /\ UNCHANGED <<objectVars, taskVars, stackVars, ui, dataLock, haveData,
                   trigDecode, isWorking, trigErr>>

FeedEndTrace(t) ==
    /\ feed.pc = "end" /\ t \in feed.todo
    /\ captureEnd' = captureEnd \cup {t}
    /\ IF trigDecode
          THEN UNCHANGED <<taskVars, optChanged>>
          ELSE AddTask(t) /\ optChanged' = optChanged \cup {t}
    /\ feed' = [feed EXCEPT !.todo = @ \ {t}]
    /\ UNCHANGED <<objectVars, running, bStop, ui, dataMutex, dataLock, haveData,
                   trigDecode, isWorking, endMsg, trigErr>>

\* The loops run over a vector the UI thread may shrink meanwhile: a trace
\* taken off the list may be visited all the same, or be missed.
FeedSkip(t) ==
    /\ t \in feed.todo \ traces
    /\ feed' = [feed EXCEPT !.todo = @ \ {t}]
    /\ UNCHANGED <<objectVars, taskVars, stackVars, ui, dataMutex, dataLock, haveData,
                   trigDecode, isWorking, endMsg, trigErr>>

FeedUnlock ==
    /\ feed.pc \in {"frame", "end"} /\ feed.todo = {}
    /\ dataMutex' = "none"
    /\ feed' = [feed EXCEPT !.pc = IF @ = "frame" THEN "stream" ELSE "ending"]
    /\ IF feed.pc = "frame" THEN LockAfterFrame ELSE UNCHANGED dataLock
    /\ UNCHANGED <<objectVars, taskVars, stackVars, ui, haveData,
                   trigDecode, isWorking, endMsg, trigErr>>

\* DS_EV_COLLECT_TASK_END of a capture that is not repeated.
TaskEnd ==
    /\ feed.pc = "ending"
    /\ isWorking' = FALSE
    /\ feed' = [feed EXCEPT !.pc = "off"]
    /\ UNCHANGED <<objectVars, taskVars, stackVars, ui, dataMutex, dataLock, haveData,
                   trigDecode, endMsg, trigErr>>

-----------------------------------------------------------------------------
(* The decode thread: decode_task_proc and begin_decode_work.              *)

DecGoto(pc) == dec' = [dec EXCEPT !.pc = pc]
OnlyDec == UNCHANGED <<objectVars, captureVars, ui>>

\* Mutant of DecTop: the empty queue is not recognised.
DecTopNoNullTest ==
    /\ dec.pc = "top"
    /\ IF tasks = <<>>
          THEN dec' = [pc |-> "check", task |-> NoTrace] /\ UNCHANGED tasks
          ELSE dec' = [pc |-> "check", task |-> Head(tasks)] /\ tasks' = Tail(tasks)
    /\ UNCHANGED <<isDecoding, stackVars>> /\ OnlyDec

\* get_top_decode_task.
DecTop ==
    /\ dec.pc = "top"
    /\ IF tasks = <<>>
          THEN dec' = [pc |-> "leaving", task |-> NoTrace] /\ UNCHANGED tasks
          ELSE dec' = [pc |-> "check", task |-> Head(tasks)] /\ tasks' = Tail(tasks)
    /\ UNCHANGED <<isDecoding, stackVars>> /\ OnlyDec

\* A trace marked for deletion is not decoded any more.
DecCheck ==
    /\ dec.pc = "check"
    /\ DecGoto(IF dec.task \in deleteFlag THEN "recheck" ELSE "begin")
    /\ UNCHANGED <<tasks, isDecoding, stackVars>> /\ OnlyDec

\* begin_decode_work up to the call of do_decode_work.
DecBegin ==
    /\ dec.pc = "begin"
    /\ running' = running \cup {dec.task}
    /\ DecGoto("status")
    /\ UNCHANGED <<tasks, isDecoding, bStop, optChanged, captureEnd>> /\ OnlyDec

\* do_decode_work: a fresh status, whose stop flag is down.
DecStatus ==
    /\ dec.pc = "status"
    /\ bStop' = bStop \ {dec.task}
    /\ DecGoto("options")
    /\ UNCHANGED <<tasks, isDecoding, running, optChanged, captureEnd>> /\ OnlyDec

\* do_decode_work returns unless the options changed, and when there is nothing
\* to decode and the view is not refreshed in real time.
DecOptions ==
    /\ dec.pc = "options"
    /\ optChanged' = optChanged \ {dec.task}
    /\ DecGoto(IF dec.task \in optChanged /\ (haveData \/ Mode = "STREAM")
                  THEN "work" ELSE "done")
    /\ UNCHANGED <<tasks, isDecoding, running, bStop, captureEnd>> /\ OnlyDec

\* decode_data leaves its loop because it is told to stop ...
DecStopped ==
    /\ dec.pc \in {"work", "tail"} /\ dec.task \in bStop
    /\ DecGoto("done")
    /\ UNCHANGED <<tasks, isDecoding, stackVars>> /\ OnlyDec

\* ... or because the capture ended without samples ...
DecNoData ==
    /\ dec.pc = "work" /\ dec.task \notin bStop
    /\ dec.task \in captureEnd /\ ~haveData
    /\ DecGoto("done")
    /\ UNCHANGED <<tasks, isDecoding, stackVars>> /\ OnlyDec

\* ... or it finds that the samples it wants are there; otherwise it waits.  After
\* the capture it looks once and relies on what it saw.
DecReady ==
    /\ dec.pc \in {"work", "tail"} /\ dec.task \notin bStop
    /\ haveData \/ (dec.pc = "tail" /\ dec.task \in captureEnd)
    /\ DecGoto(IF dec.pc = "work" /\ dec.task \notin captureEnd THEN "read" ELSE "readTail")
    /\ UNCHANGED <<tasks, isDecoding, stackVars>> /\ OnlyDec

\* It reads and decodes a chunk, and there is more to decode ...
DecRead ==
    /\ dec.pc \in {"read", "readTail"}
    /\ DecGoto(IF dec.pc = "read" THEN "work" ELSE "tail")
    /\ UNCHANGED <<tasks, isDecoding, stackVars>> /\ OnlyDec

\* ... or this was the last one.
DecComplete ==
    /\ dec.pc \in {"read", "readTail"}
    /\ DecGoto("done")
    /\ UNCHANGED <<tasks, isDecoding, stackVars>> /\ OnlyDec

\* Mutant of DecDone: the stack is left in the Running state.
DecDoneStillRunning ==
    /\ dec.pc = "done"
    /\ DecGoto("recheck")
    /\ UNCHANGED <<tasks, isDecoding, stackVars>> /\ OnlyDec

\* The end of begin_decode_work.
DecDone ==
    /\ dec.pc = "done"
    /\ running' = running \ {dec.task}
    /\ DecGoto("recheck")
    /\ UNCHANGED <<tasks, isDecoding, bStop, optChanged, captureEnd>> /\ OnlyDec

\* A trace marked for deletion is handed to deleteLater.
DecRecheck ==
    /\ dec.pc = "recheck"
    /\ freed' = freed \cup ({dec.task} \cap deleteFlag)
    /\ dec' = [pc |-> "top", task |-> NoTrace]
    /\ UNCHANGED <<traces, deleteFlag, tasks, isDecoding, stackVars, captureVars, ui>>

\* Mutant of DecLeave: _is_decoding is not reset.
DecLeaveStillDecoding ==
    /\ dec.pc = "leaving"
    /\ DecGoto("exited")
    /\ UNCHANGED <<tasks, isDecoding, stackVars>> /\ OnlyDec

\* The last statement of the thread, outside the task mutex.
DecLeave ==
    /\ dec.pc = "leaving"
    /\ isDecoding' = FALSE
    /\ DecGoto("exited")
    /\ UNCHANGED <<tasks, stackVars>> /\ OnlyDec

-----------------------------------------------------------------------------
UiStep ==
    \/ UiReadRunning \/ UiRemoveTask \/ UiFree \/ UiRearm \/ UiEnqueue
    \/ UiClear \/ UiJoin \/ UiMark \/ UiWipe \/ UiStarted \/ UiStopJoin
    \/ \E t \in Traces : UiScanTrace(t) \/ UiEndTrace(t)
    \/ UiEndDone

UiMessage == EndPacketMessage \/ FeedTimeout

UserStep ==
    \/ \E t \in Traces : \/ \E silent \in BOOLEAN : AddDecoder(t, silent)
                         \/ RemoveDecoder(t)
                         \/ RstDecoder(t)
    \/ ClearAllDecoder \/ StartCapture \/ Refresh \/ StopCapture

FeedLocked ==
    \/ \E t \in Traces : FeedFrameTrace(t) \/ FeedEndTrace(t) \/ FeedSkip(t)
    \/ FeedUnlock \/ TaskEnd

FeedStep == FeedFrame \/ FeedBadTrigger \/ FeedEnd \/ FeedLocked

DecStep ==
    \/ DecTop \/ DecCheck \/ DecBegin \/ DecStatus \/ DecOptions
    \/ DecStopped \/ DecNoData \/ DecReady \/ DecRead \/ DecDone \/ DecRecheck \/ DecLeave

Next == UiStep \/ UiMessage \/ UserStep \/ FeedStep \/ DecStep \/ DecComplete

Spec == Init /\ [][Next]_vars

(* Fairness: the threads are scheduled.  A LOGIC capture has a sample limit *)
(* and ends by itself, a DSO capture when it is stopped or fails.  A        *)
(* decoder has a finite number of chunks to read, but one that is fed in    *)
(* real time reads the last one only after the capture.                     *)
Fairness ==
    /\ WF_vars(UiStep) /\ WF_vars(UiMessage) /\ WF_vars(FeedLocked)
    /\ WF_vars(Refresh /\ <<endMsg, trigErr>>' # <<endMsg, trigErr>>)
    /\ WF_vars((Mode # "DSO" \/ feed.pc = "failed" \/ ui.pc = "stopJoin") /\ FeedEnd)
    /\ WF_vars(DecStep)
    /\ SF_vars((Mode # "STREAM" \/ dec.task \in captureEnd) /\ DecComplete)

FairSpec == Spec /\ Fairness

-----------------------------------------------------------------------------
(* Properties.                                                             *)

\* Every variable stays in its type.
TypeOK ==
    /\ traces \subseteq Traces /\ freed \subseteq Traces /\ deleteFlag \subseteq Traces
    /\ tasks \in Seq(Traces) /\ isDecoding \in BOOLEAN
    /\ dec \in [pc : DecPC, task : Traces \cup {NoTrace}]
    /\ running \subseteq Traces /\ bStop \subseteq Traces
    /\ optChanged \subseteq Traces /\ captureEnd \subseteq Traces
    /\ dataMutex \in {"none", "ui", "feed"}
    /\ dataLock \in BOOLEAN /\ haveData \in BOOLEAN
    /\ feed \in [pc : FeedPC, todo : SUBSET Traces]
    /\ trigDecode \in BOOLEAN /\ isWorking \in BOOLEAN
    /\ endMsg \in {"none", "end", "error"} /\ trigErr \in BOOLEAN
    /\ ui \in [pc : UiPC, op : UiOps, todo : SUBSET Traces, found : SUBSET Traces,
               flag : BOOLEAN]

\* _is_decoding, which two threads write with and without the mutex, is true
\* exactly while a decode thread is between its creation and its last
\* statement: add_decode_task never starts a second thread beside a living one,
\* and never trusts one that is gone.
FlagMatchesThread == isDecoding <=> Alive

\* begin_decode_work's assertion: the stack the thread is about to run is
\* stopped; and only the trace the thread is inside of is ever running, so
\* clear_all_decode_task finds at most one.
DecodeRunsAlone ==
    /\ dec.pc = "begin" => dec.task \notin running
    /\ running # {} => /\ dec.pc \in Decoding \cup {"status", "options", "done"}
                       /\ running = {dec.task}

\* The results of all decoders are cleared (for a new capture, a refresh, the END
\* handler) only while no decode thread exists and none can be started: the
\* join, _data_mutex and the order of END and restart together see to it.
QuietWipe == UiAt("wipe") => ~Alive /\ tasks = <<>>

\* When the decode thread reads a chunk the samples it found are still there, as
\* get_samples asserts: nobody has wiped the snapshot since it looked.
SamplesThere == dec.pc \in {"read", "readTail"} => haveData

\* The decode thread and its queue never refer to a deleted trace.
NoUseAfterFree ==
    /\ Holding => dec.task \notin freed
    /\ ToSet(tasks) \cap freed = {}

\* A trace is in the queue at most once, so that remove_decode_task, which
\* drops one entry, leaves none.
QueuedOnce == IsInjective(tasks)

\* Every queued decode task is taken by a decode thread.
EveryTaskStarts == \A t \in Traces : (t \in ToSet(tasks)) ~> (t \notin ToSet(tasks))

\* clear_all_decode_task, which waits for the decode thread, returns.
ClearReturns == UiAt("join") ~> ~UiAt("join")

\* No capture fails, and no decoder is reset while a capture is at work.
Orderly == [](endMsg # "error" /\ ~trigErr /\ (ui.op = "reset" => ~IsWorking))

\* As long as everything is orderly clear_all_decode_task does return: whatever the
\* decode thread is doing, it is told to stop, or that the capture has ended.
OrderlyClearReturns == Orderly => ClearReturns

\* As long as everything is orderly, and when the user and the device are at rest
\* for good, the decode thread ends.
DecodeSettles ==
    Orderly => (<>[](UiAt("idle") /\ feed.pc = "off" /\ endMsg = "none") => <>[]~Alive)
=============================================================================
