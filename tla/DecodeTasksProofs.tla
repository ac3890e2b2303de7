-------------------------- MODULE DecodeTasksProofs --------------------------
(***************************************************************************)
(* Proofs about DecodeTasks, for any set of traces, capture mode, END      *)
(* status and choice of user operations.                                   *)
(***************************************************************************)
EXTENDS DecodeTasks, SequenceTheorems, TLAPS

-----------------------------------------------------------------------------
(* Lemmas about the helpers.                                               *)

\* Removing one entry of a queue of traces leaves a queue of traces.
LEMMA RemoveAtType ==
    ASSUME NEW S, NEW s \in Seq(S), NEW i \in DOMAIN s
    PROVE  RemoveAt(s, i) \in Seq(S)
BY DEF RemoveAt

\* The members of a queue of traces are traces.
LEMMA ToSetType ==
    ASSUME NEW S, NEW s \in Seq(S)
    PROVE  ToSet(s) \subseteq S
BY DEF ToSet

\* add_decode_task keeps the types of what it writes.
LEMMA AddTaskType ==
    ASSUME TypeOK, NEW t \in Traces, AddTask(t)
    PROVE  /\ tasks' \in Seq(Traces) /\ isDecoding' \in BOOLEAN
           /\ dec' \in [pc : DecPC, task : Traces \cup {NoTrace}]
<1>1. tasks' \in Seq(Traces)
    BY DEF TypeOK, AddTask
<1>2. CASE isDecoding
    BY <1>1, <1>2 DEF TypeOK, AddTask
<1>3. CASE ~isDecoding
    BY <1>1, <1>3 DEF TypeOK, AddTask, DecPC
<1> QED
    BY <1>2, <1>3

-----------------------------------------------------------------------------
(* Type correctness.                                                       *)

UiStates == [pc : UiPC, op : UiOps, todo : SUBSET Traces, found : SUBSET Traces, flag : BOOLEAN]

\* A thread that is inside a task holds a trace and not the NULL of an empty queue.
HoldsTrace == Holding => dec.task \in Traces

LEMMA TypeInit == Init => TypeOK /\ HoldsTrace
<1> SUFFICES ASSUME Init PROVE TypeOK /\ HoldsTrace
    OBVIOUS
<1>1. tasks \in Seq(Traces)
    BY DEF Init
<1>2. /\ dec \in [pc : DecPC, task : Traces \cup {NoTrace}]
      /\ feed \in [pc : FeedPC, todo : SUBSET Traces]
    BY DEF Init, DecPC, FeedPC
<1>3. ui \in UiStates
    BY DEF Init, Idle, UiPC, UiOps, UiStates
<1> QED
    BY <1>1, <1>2, <1>3 DEF Init, TypeOK, HoldsTrace, UiStates, Holding, Decoding

\* Every action keeps the types.
LEMMA TypeNext == TypeOK /\ HoldsTrace /\ [Next]_vars => TypeOK'
<1> SUFFICES ASSUME TypeOK, HoldsTrace, [Next]_vars PROVE TypeOK'
    OBVIOUS
<1> USE DEF UiStates, HoldsTrace, Holding, UiPC, UiOps, AllOps, FeedPC, DecPC, Decoding, UiAt, UiGoto, UiCall, Idle, MayAsk
<1>1. ASSUME NEW t \in Traces, NEW silent \in BOOLEAN, AddDecoder(t, silent)
      PROVE  TypeOK'
    <2>1. ui' \in UiStates
        <3>1. ui' = [pc |-> "enqueue", op |-> "add", todo |-> {t}, found |-> {}, flag |-> FALSE] \/ ui' = ui
            BY <1>1 DEF AddDecoder
        <3>2. [pc |-> "enqueue", op |-> "add", todo |-> {t}, found |-> {}, flag |-> FALSE]
                 \in UiStates
            OBVIOUS
        <3>3. ui \in UiStates
            BY DEF TypeOK
        <3> QED
            BY <3>1, <3>2, <3>3
    <2>2. optChanged' \subseteq Traces /\ traces' \subseteq Traces
        BY <1>1 DEF TypeOK, AddDecoder
    <2> QED
        BY <1>1, <2>1, <2>2 DEF TypeOK, AddDecoder, taskVars, stackVars, objectVars, captureVars
<1>2. ASSUME NEW t \in Traces, RemoveDecoder(t) PROVE TypeOK'
    BY <1>2 DEF TypeOK, RemoveDecoder, taskVars, stackVars, objectVars, captureVars
<1>3. ASSUME NEW t \in Traces, RstDecoder(t) PROVE TypeOK'
    BY <1>3 DEF TypeOK, RstDecoder, taskVars, stackVars, objectVars, captureVars
<1>4. CASE UiRemoveTask
    <2>1. PICK t \in ui.todo : RemoveTask(t)
        BY <1>4 DEF UiRemoveTask
    <2>2. tasks' \in Seq(Traces)
        BY <2>1, RemoveAtType DEF RemoveTask, TypeOK
    <2>3. t \in Traces
        BY DEF TypeOK
    <2> QED
        BY <1>4, <2>1, <2>2, <2>3 DEF UiRemoveTask, RemoveTask, Stop, TypeOK, objectVars, captureVars
<1>5. CASE UiFree
    BY <1>5 DEF TypeOK, UiFree, taskVars, stackVars, objectVars, captureVars
<1>6. CASE UiRearm
    BY <1>6 DEF TypeOK, UiRearm, taskVars, stackVars, objectVars, captureVars
<1>7. CASE UiEnqueue
    BY <1>7, AddTaskType DEF TypeOK, UiEnqueue, taskVars, stackVars, objectVars, captureVars
<1>8. CASE ClearAllDecoder
    BY <1>8 DEF TypeOK, ClearAllDecoder, taskVars, stackVars, objectVars, captureVars
<1>9. CASE StartCapture
    BY <1>9 DEF TypeOK, StartCapture, taskVars, stackVars, objectVars, captureVars
<1>10. CASE Refresh
    <2>1. ui' \in UiStates
        BY <1>10 DEF Refresh
    <2>2. endMsg' \in {"none", "end", "error"} /\ trigErr' \in BOOLEAN
        BY <1>10 DEF TypeOK, Refresh, RefreshCause
    <2>3. haveData' \in BOOLEAN /\ dataMutex' \in {"none", "ui", "feed"} /\ dataLock' \in BOOLEAN
        BY <1>10 DEF TypeOK, Refresh
    <2> QED
        BY <1>10, <2>1, <2>2, <2>3 DEF TypeOK, Refresh, taskVars, stackVars, objectVars
<1>11. CASE UiClear
    <2>1. ui' \in UiStates
        BY <1>11 DEF TypeOK, UiClear
    <2>2. tasks' \in Seq(Traces) /\ running' \subseteq Traces /\ bStop' \subseteq Traces
        BY <1>11, ToSetType DEF TypeOK, UiClear, Stop
    <2> QED
        BY <1>11, <2>1, <2>2 DEF TypeOK, UiClear, objectVars, captureVars
<1>12. ASSUME NEW t \in Traces, UiScanTrace(t) PROVE TypeOK'
    <2>1. ui' \in UiStates
        <3>1. ui \in UiStates
            BY DEF TypeOK
        <3>2. \/ ui' = [ui EXCEPT !.todo = ui.todo \ {t}, !.found = {t}]
              \/ ui' = [ui EXCEPT !.todo = ui.todo \ {t}]
            BY <1>12 DEF UiScanTrace
        <3>3. [ui EXCEPT !.todo = ui.todo \ {t}] \in UiStates
            BY DEF TypeOK
        <3>4. [ui EXCEPT !.todo = ui.todo \ {t}, !.found = {t}] \in UiStates
            BY DEF TypeOK
        <3> QED
            BY <3>2, <3>3, <3>4, Zenon
    <2>2. running' \subseteq Traces /\ bStop' \subseteq Traces
        BY <1>12 DEF TypeOK, UiScanTrace, Stop
    <2> QED
        BY <1>12, <2>1, <2>2 DEF TypeOK, UiScanTrace, taskVars, stackVars, objectVars, captureVars
<1>13. CASE UiJoin
    <2>1. ui' \in UiStates
        BY <1>13 DEF TypeOK, UiJoin
    <2>2. dec' \in [pc : DecPC, task : Traces \cup {NoTrace}]
        BY <1>13 DEF UiJoin
    <2> QED
        BY <1>13, <2>1, <2>2 DEF TypeOK, UiJoin, stackVars, objectVars, captureVars
<1>14. CASE UiMark
    BY <1>14 DEF TypeOK, UiMark, taskVars, stackVars, objectVars, captureVars
<1>15. CASE UiWipe
    <2>1. ui' \in UiStates
        <3>1. \/ ui' = [ui EXCEPT !.pc = "started"]
              \/ ui' = Idle
              \/ ui' = [ui EXCEPT !.pc = "end", !.todo = traces]
            BY <1>15 DEF UiWipe
        <3>2. Idle \in UiStates
            OBVIOUS
        <3>3. ASSUME NEW pc \in UiPC
              PROVE  [ui EXCEPT !.pc = pc] \in UiStates
            BY DEF TypeOK
        <3>4. [ui EXCEPT !.pc = "end", !.todo = traces]
                 \in UiStates
            BY DEF TypeOK
        <3> QED
            <4>1. "started" \in UiPC
                OBVIOUS
            <4> QED
                BY <3>1, <3>2, <3>3, <3>4, <4>1, ZenonT(30)
    <2>2. feed' \in [pc : FeedPC, todo : SUBSET Traces]
        <3>1. feed' = [pc |-> "stream", todo |-> {}] \/ feed' = feed
            BY <1>15 DEF UiWipe
        <3>2. feed \in [pc : FeedPC, todo : SUBSET Traces]
            BY DEF TypeOK
        <3> QED
            BY <3>1, <3>2
    <2>3. /\ captureEnd' \subseteq Traces
          /\ dataMutex' \in {"none", "ui", "feed"}
          /\ haveData' \in BOOLEAN /\ trigDecode' \in BOOLEAN /\ dataLock' \in BOOLEAN
        BY <1>15 DEF TypeOK, UiWipe
    <2> QED
        BY <1>15, <2>1, <2>2, <2>3 DEF TypeOK, UiWipe, taskVars, objectVars
<1>16. CASE UiStarted
    BY <1>16 DEF TypeOK, UiStarted, taskVars, stackVars, objectVars, captureVars
<1>17. CASE StopCapture
    <2>1. UNCHANGED <<traces, freed, tasks, isDecoding, dec, running, bStop, optChanged,
                     captureEnd, deleteFlag, dataMutex, dataLock,
                     haveData, feed, trigDecode, endMsg, trigErr>>
        BY <1>17 DEF StopCapture, taskVars, stackVars, objectVars, captureVars
    <2>2. isWorking' \in BOOLEAN /\ ui' \in UiStates
        BY <1>17 DEF StopCapture, TypeOK
    <2> QED
        BY <2>1, <2>2 DEF TypeOK
<1>18. CASE UiStopJoin
    <2>1. UNCHANGED <<traces, freed, tasks, isDecoding, dec, running, bStop, optChanged,
                     captureEnd, deleteFlag, dataMutex, haveData, feed, trigDecode,
                     isWorking, endMsg, trigErr>>
        BY <1>18 DEF UiStopJoin, taskVars, stackVars, objectVars, captureVars
    <2>2. dataLock' \in BOOLEAN /\ ui' \in UiStates
        BY <1>18 DEF UiStopJoin, TypeOK
    <2> QED
        BY <2>1, <2>2 DEF TypeOK
<1>19. CASE EndPacketMessage
    <2>1. ui' \in UiStates
        <3>1. \/ ui' = [pc |-> "clear", op |-> "end", todo |-> {}, found |-> {}, flag |-> TRUE]
              \/ ui' = [pc |-> "end", op |-> "end", todo |-> traces, found |-> {}, flag |-> FALSE]
            BY <1>19 DEF EndPacketMessage
        <3>2. [pc |-> "clear", op |-> "end", todo |-> {}, found |-> {}, flag |-> TRUE] \in UiStates
            OBVIOUS
        <3>3. [pc |-> "end", op |-> "end", todo |-> traces, found |-> {}, flag |-> FALSE] \in UiStates
            BY DEF TypeOK
        <3> QED
            BY <3>1, <3>2, <3>3
    <2> QED
        BY <1>19, <2>1 DEF TypeOK, EndPacketMessage, taskVars, stackVars, objectVars, captureVars
<1>20. ASSUME NEW t \in Traces, UiEndTrace(t) PROVE TypeOK'
    BY <1>20, AddTaskType DEF TypeOK, UiEndTrace, taskVars, stackVars, objectVars, captureVars
<1>21. CASE UiEndDone
    BY <1>21 DEF TypeOK, UiEndDone, taskVars, stackVars, objectVars, captureVars
<1>22. CASE FeedTimeout
    <2>1. UNCHANGED <<traces, freed, tasks, isDecoding, dec, running, bStop, optChanged,
                     captureEnd, deleteFlag, dataMutex, haveData,
                     feed, trigDecode, isWorking, endMsg, trigErr, ui>>
        BY <1>22 DEF FeedTimeout, taskVars, stackVars, objectVars, captureVars
    <2>2. dataLock' \in BOOLEAN
        BY <1>22 DEF FeedTimeout, TypeOK
    <2> QED
        BY <2>1, <2>2 DEF TypeOK
<1>23. CASE FeedFrame
    <2>1. feed' \in [pc : FeedPC, todo : SUBSET Traces]
        BY <1>23 DEF TypeOK, FeedFrame
    <2>2. dataMutex' \in {"none", "ui", "feed"} /\ trigDecode' \in BOOLEAN /\ dataLock' \in BOOLEAN
        BY <1>23 DEF TypeOK, FeedFrame, LockAfterFrame
    <2> QED
        BY <1>23, <2>1, <2>2 DEF TypeOK, FeedFrame, taskVars, stackVars, objectVars, captureVars
<1>24. ASSUME NEW t \in Traces, FeedFrameTrace(t) PROVE TypeOK'
    BY <1>24, AddTaskType DEF TypeOK, FeedFrameTrace, taskVars, stackVars, objectVars, captureVars
<1>25. CASE FeedEnd
    BY <1>25 DEF TypeOK, FeedEnd, taskVars, stackVars, objectVars, captureVars
<1>26. ASSUME NEW t \in Traces, FeedEndTrace(t) PROVE TypeOK'
    BY <1>26, AddTaskType DEF TypeOK, FeedEndTrace, taskVars, stackVars, objectVars, captureVars
<1>27. ASSUME NEW t \in Traces, FeedSkip(t) PROVE TypeOK'
    BY <1>27 DEF TypeOK, FeedSkip, taskVars, stackVars, objectVars, captureVars
<1>28. CASE FeedUnlock
    <2>1. feed' \in [pc : FeedPC, todo : SUBSET Traces]
        BY <1>28 DEF TypeOK, FeedUnlock
    <2>2. dataLock' \in BOOLEAN
        BY <1>28 DEF TypeOK, FeedUnlock, LockAfterFrame
    <2> QED
        BY <1>28, <2>1, <2>2 DEF TypeOK, FeedUnlock, taskVars, stackVars, objectVars
<1>29. CASE TaskEnd
    <2>1. UNCHANGED <<traces, freed, tasks, isDecoding, dec, running, bStop, optChanged,
                     captureEnd, deleteFlag, dataMutex, dataLock,
                     haveData, trigDecode, endMsg, trigErr, ui>>
        BY <1>29 DEF TaskEnd, taskVars, stackVars, objectVars, captureVars
    <2>2. isWorking' \in BOOLEAN /\ feed' \in [pc : FeedPC, todo : SUBSET Traces]
        BY <1>29 DEF TaskEnd, TypeOK
    <2> QED
        BY <2>1, <2>2 DEF TypeOK
<1>30. CASE DecTop
    <2>1. tasks' \in Seq(Traces) /\ dec' \in [pc : DecPC, task : Traces \cup {NoTrace}]
        <3>1. CASE tasks = <<>>
            BY <1>30, <3>1 DEF TypeOK, DecTop
        <3>2. CASE tasks # <<>>
            <4>1. Head(tasks) \in Traces /\ Tail(tasks) \in Seq(Traces)
                BY <3>2 DEF TypeOK
            <4>2. tasks' = Tail(tasks) /\ dec' = [pc |-> "check", task |-> Head(tasks)]
                BY <1>30, <3>2 DEF DecTop
            <4> QED
                BY <4>1, <4>2
        <3> QED
            BY <3>1, <3>2
    <2> QED
        BY <1>30, <2>1 DEF TypeOK, DecTop, OnlyDec, stackVars, objectVars, captureVars
<1>31. CASE DecCheck
    BY <1>31 DEF TypeOK, DecCheck, DecGoto, OnlyDec, taskVars, stackVars, objectVars, captureVars
<1>32. CASE DecBegin
    BY <1>32 DEF TypeOK, DecBegin, DecGoto, OnlyDec, taskVars, stackVars, objectVars, captureVars
<1>33. CASE DecStatus
    BY <1>33 DEF TypeOK, DecStatus, DecGoto, OnlyDec, taskVars, stackVars, objectVars, captureVars
<1>34. CASE DecOptions
    BY <1>34 DEF TypeOK, DecOptions, DecGoto, OnlyDec, taskVars, stackVars, objectVars, captureVars
<1>35. CASE DecStopped
    BY <1>35 DEF TypeOK, DecStopped, DecGoto, OnlyDec, taskVars, stackVars, objectVars, captureVars
<1>36. CASE DecComplete
    BY <1>36 DEF TypeOK, DecComplete, DecGoto, OnlyDec, taskVars, stackVars, objectVars, captureVars
<1>37. CASE DecDone
    BY <1>37 DEF TypeOK, DecDone, DecGoto, OnlyDec, taskVars, stackVars, objectVars, captureVars
<1>38. CASE DecRecheck
    BY <1>38 DEF TypeOK, DecRecheck, taskVars, stackVars, objectVars, captureVars
<1>39. CASE DecLeave
    <2>1. UNCHANGED <<traces, freed, tasks, running, bStop, optChanged, captureEnd,
                     deleteFlag, dataMutex, dataLock, haveData,
                     feed, trigDecode, isWorking, endMsg, trigErr, ui>>
        BY <1>39 DEF DecLeave, DecGoto, OnlyDec, taskVars, stackVars, objectVars, captureVars
    <2>2. isDecoding' \in BOOLEAN /\ dec' \in [pc : DecPC, task : Traces \cup {NoTrace}]
        BY <1>39 DEF DecLeave, DecGoto, OnlyDec, TypeOK
    <2> QED
        BY <2>1, <2>2 DEF TypeOK
<1>40. CASE UiReadRunning
    <2>1. ui' \in UiStates
        BY <1>40 DEF TypeOK, UiReadRunning
    <2>2. UNCHANGED <<objectVars, taskVars, stackVars, captureVars>>
        BY <1>40 DEF UiReadRunning
    <2> QED
        BY <2>1, <2>2 DEF TypeOK, taskVars, stackVars, objectVars, captureVars
<1>41. CASE FeedBadTrigger
    BY <1>41 DEF TypeOK, FeedBadTrigger, taskVars, stackVars, objectVars, captureVars
<1>42. CASE DecNoData
    BY <1>42 DEF TypeOK, DecNoData, DecGoto, OnlyDec, taskVars, stackVars, objectVars, captureVars
<1>43. CASE DecReady
    BY <1>43 DEF TypeOK, DecReady, DecGoto, OnlyDec, taskVars, stackVars, objectVars, captureVars
<1>44. CASE DecRead
    BY <1>44 DEF TypeOK, DecRead, DecGoto, OnlyDec, taskVars, stackVars, objectVars, captureVars
<1>45. CASE UNCHANGED vars
    BY <1>45 DEF TypeOK, vars, taskVars, stackVars, objectVars, captureVars
<1> QED
    BY <1>1, <1>2, <1>3, <1>4, <1>5, <1>6, <1>7, <1>8, <1>9, <1>10, <1>11,
       <1>12, <1>13, <1>14, <1>15, <1>16, <1>17, <1>18, <1>19, <1>20, <1>21,
       <1>22, <1>23, <1>24, <1>25, <1>26, <1>27, <1>28, <1>29, <1>30, <1>31,
       <1>32, <1>33, <1>34, <1>35, <1>36, <1>37, <1>38, <1>39, <1>40, <1>41,
       <1>42, <1>43, <1>44, <1>45
    DEF Next, UiStep, UiMessage, UserStep, FeedStep, FeedLocked, DecStep

\* What a step does to the decode thread: it leaves the thread and its flag alone
\* and at most stops stacks, it queues a task, it joins the thread, or it is a
\* step of the thread.
LEMMA ThreadSteps ==
    ASSUME TypeOK, [Next]_vars
    PROVE  \/ UNCHANGED <<isDecoding, dec>> /\ running' \subseteq running
           \/ \E t \in Traces : AddTask(t) /\ UNCHANGED running
           \/ UiJoin
           \/ DecStep \/ DecComplete
<1> USE DEF taskVars, stackVars, objectVars, captureVars
<1>1. ASSUME UserStep
      PROVE  UNCHANGED <<isDecoding, dec, running>>
    BY <1>1 DEF UserStep, AddDecoder, RemoveDecoder, RstDecoder, ClearAllDecoder,
                StartCapture, Refresh, StopCapture
<1>2. ASSUME UiStep
      PROVE  \/ UNCHANGED <<isDecoding, dec>> /\ running' \subseteq running
             \/ \E t \in Traces : AddTask(t) /\ UNCHANGED running
             \/ UiJoin
    <2>1. CASE UiEnqueue
        BY <2>1 DEF UiEnqueue, TypeOK
    <2>2. CASE UiRemoveTask
        BY <2>2 DEF UiRemoveTask, RemoveTask, Stop
    <2>3. ASSUME NEW t \in Traces, UiEndTrace(t)
          PROVE  \/ UNCHANGED <<isDecoding, dec, running>>
                 \/ AddTask(t) /\ UNCHANGED running
        BY <2>3 DEF UiEndTrace
    <2>4. ASSUME UiClear \/ \E t \in Traces : UiScanTrace(t)
          PROVE  UNCHANGED <<isDecoding, dec>> /\ running' \subseteq running
        BY <2>4 DEF UiClear, UiScanTrace, Stop
    <2>5. CASE UiReadRunning \/ UiFree \/ UiRearm \/ UiMark \/ UiWipe \/ UiStarted \/ UiStopJoin \/ UiEndDone
        BY <2>5 DEF UiReadRunning, UiFree, UiRearm, UiMark, UiWipe, UiStarted, UiStopJoin, UiEndDone
    <2> QED
        BY <1>2, <2>1, <2>2, <2>3, <2>4, <2>5 DEF UiStep
<1>3. ASSUME UiMessage
      PROVE  UNCHANGED <<isDecoding, dec, running>>
    BY <1>3 DEF UiMessage, EndPacketMessage, FeedTimeout
<1>4. ASSUME FeedStep
      PROVE  \/ UNCHANGED <<isDecoding, dec, running>>
             \/ \E t \in Traces : AddTask(t) /\ UNCHANGED running
    <2>1. ASSUME NEW t \in Traces, FeedFrameTrace(t) \/ FeedEndTrace(t)
          PROVE  \/ UNCHANGED <<isDecoding, dec, running>>
                 \/ AddTask(t) /\ UNCHANGED running
        BY <2>1 DEF FeedFrameTrace, FeedEndTrace
    <2>2. ASSUME \/ FeedFrame \/ FeedBadTrigger \/ FeedEnd \/ FeedUnlock \/ TaskEnd
                 \/ \E t \in Traces : FeedSkip(t)
          PROVE  UNCHANGED <<isDecoding, dec, running>>
        BY <2>2 DEF FeedFrame, FeedBadTrigger, FeedEnd, FeedUnlock, TaskEnd, FeedSkip
    <2> QED
        BY <1>4, <2>1, <2>2 DEF FeedStep, FeedLocked
<1>5. CASE UNCHANGED vars
    BY <1>5 DEF vars
<1> QED
    BY <1>1, <1>2, <1>3, <1>4, <1>5 DEF Next

\* What the thread holds while it is inside a task stays a trace.
LEMMA HoldsTraceNext == TypeOK /\ HoldsTrace /\ [Next]_vars => HoldsTrace'
<1> SUFFICES ASSUME TypeOK, HoldsTrace, [Next]_vars PROVE HoldsTrace'
    OBVIOUS
<1> USE DEF HoldsTrace, Holding, Decoding
<1>1. CASE UNCHANGED dec
    BY <1>1
<1>2. CASE UiJoin
    BY <1>2 DEF UiJoin
<1>3. ASSUME NEW t \in Traces, AddTask(t) PROVE HoldsTrace'
    BY <1>3 DEF AddTask
<1>4. CASE DecTop
    <2>1. CASE tasks = <<>>
        BY <1>4, <2>1 DEF DecTop
    <2>2. CASE tasks # <<>>
        BY <1>4, <2>2 DEF DecTop, TypeOK
    <2> QED
        BY <2>1, <2>2
<1>5. CASE (DecStep \/ DecComplete) /\ ~DecTop
    BY <1>5 DEF DecStep, DecCheck, DecBegin, DecStatus, DecOptions, DecStopped,
                DecNoData, DecReady, DecRead, DecComplete, DecDone, DecRecheck, DecLeave, DecGoto, TypeOK
<1> QED
    BY <1>1, <1>2, <1>3, <1>4, <1>5, ThreadSteps

\* Every variable of the decode task manager stays in its type.
THEOREM TypeCorrect == Spec => []TypeOK
<1>1. Init => TypeOK /\ HoldsTrace
    BY TypeInit
<1>2. TypeOK /\ HoldsTrace /\ [Next]_vars => (TypeOK /\ HoldsTrace)'
    BY TypeNext, HoldsTraceNext
<1> QED
    BY <1>1, <1>2, PTL DEF Spec

-----------------------------------------------------------------------------
(* The flag _is_decoding and the run state of the stacks.                  *)

LEMMA ThreadInit == Init => FlagMatchesThread /\ DecodeRunsAlone
BY DEF Init, FlagMatchesThread, DecodeRunsAlone, Alive

\* Neither thread can tell the flag from the thread, and the running stack is the
\* one the thread is inside of: the two facts need each other, because a new
\* thread is started whenever the flag is down.
LEMMA ThreadNext ==
    ASSUME TypeOK, FlagMatchesThread, DecodeRunsAlone, [Next]_vars
    PROVE  FlagMatchesThread' /\ DecodeRunsAlone'
<1> USE DEF FlagMatchesThread, DecodeRunsAlone, Alive, Decoding
<1>1. CASE UNCHANGED <<isDecoding, dec>> /\ running' \subseteq running
    BY <1>1
<1>2. ASSUME NEW t \in Traces, AddTask(t), UNCHANGED running
      PROVE  FlagMatchesThread' /\ DecodeRunsAlone'
    <2>1. CASE isDecoding
        BY <1>2, <2>1 DEF AddTask
    <2>2. CASE ~isDecoding
        <3>1. dec' = [pc |-> "top", task |-> NoTrace] /\ isDecoding' = TRUE /\ ~Alive
            BY <1>2, <2>2 DEF AddTask
        <3> QED
            BY <1>2, <3>1
    <2> QED
        BY <2>1, <2>2 DEF TypeOK
<1>3. CASE UiJoin
    BY <1>3 DEF UiJoin, stackVars
<1>4. CASE DecTop \/ DecCheck
    BY <1>4 DEF DecTop, DecCheck, DecGoto, stackVars, TypeOK
<1>5. CASE DecBegin
    BY <1>5 DEF DecBegin, DecGoto, TypeOK
<1>6. CASE DecStatus \/ DecOptions \/ DecStopped
    BY <1>6 DEF DecStatus, DecOptions, DecStopped, DecGoto, stackVars, TypeOK
<1>9. CASE DecNoData \/ DecReady \/ DecRead \/ DecComplete
    BY <1>9 DEF DecNoData, DecReady, DecRead, DecComplete, DecGoto, stackVars, TypeOK
<1>7. CASE DecDone
    BY <1>7 DEF DecDone, DecGoto, TypeOK
<1>8. CASE DecRecheck \/ DecLeave
    BY <1>8 DEF DecRecheck, DecLeave, DecGoto, stackVars, TypeOK
<1> QED
    BY <1>1, <1>2, <1>3, <1>4, <1>5, <1>6, <1>7, <1>8, <1>9, ThreadSteps DEF DecStep

\* The flag _is_decoding tells at every moment whether a decode thread lives.
THEOREM FlagCorrect == Spec => []FlagMatchesThread
<1>1. Init => FlagMatchesThread /\ DecodeRunsAlone
    BY ThreadInit
<1>2. TypeOK /\ FlagMatchesThread /\ DecodeRunsAlone /\ [Next]_vars
         => (FlagMatchesThread /\ DecodeRunsAlone)'
    BY ThreadNext
<1> QED
    BY <1>1, <1>2, TypeCorrect, PTL DEF Spec

\* Stacks run one at a time, inside the decode thread.
THEOREM RunsAlone == Spec => []DecodeRunsAlone
<1>1. Init => FlagMatchesThread /\ DecodeRunsAlone
    BY ThreadInit
<1>2. TypeOK /\ FlagMatchesThread /\ DecodeRunsAlone /\ [Next]_vars
         => (FlagMatchesThread /\ DecodeRunsAlone)'
    BY ThreadNext
<1> QED
    BY <1>1, <1>2, TypeCorrect, PTL DEF Spec

-----------------------------------------------------------------------------
(* QuietWipe.                                                              *)

Clearing == ui.pc \in {"clear", "join", "wipe"}

\* Why no decode thread can appear while a caller of clear_all_decode_task waits
\* and wipes: a refresh owns _data_mutex, which every producer of the feed thread
\* needs; a new capture starts when the collect thread has ended, and the END
\* handler runs after the feed thread's last packet.  So the emptied queue stays
\* empty, and the joined thread stays the last one.
WipeInv ==
    /\ feed.pc \in {"frame", "end"} => dataMutex = "feed"
    /\ Clearing /\ ui.op = "refresh" => dataMutex = "ui"
    /\ Clearing /\ ui.op = "capture" => feed.pc = "off" /\ endMsg = "none"
    /\ Clearing /\ ui.op = "end" => feed.pc \in {"ending", "off"}
    /\ endMsg = "end" => feed.pc \in {"ending", "off"}
    /\ Clearing => ui.op \in {"clearAll", "capture", "refresh", "end"}
    /\ UiAt("wipe") => ui.op # "clearAll" /\ ~Alive
    /\ ui.pc \in {"join", "wipe"} /\ ui.op # "clearAll" => tasks = <<>>

\* The traces a producer of the feed thread queues cannot be queued while a caller
\* of clear_all_decode_task has emptied the queue.
LEMMA WipeNext ==
    ASSUME TypeOK, WipeInv, [Next]_vars
    PROVE  WipeInv'
<1> USE DEF WipeInv, Clearing, Alive, UiAt, UiGoto, UiCall, Idle, MayAsk
<1>1. ASSUME NEW t \in Traces, NEW silent \in BOOLEAN, AddDecoder(t, silent) PROVE WipeInv'
    BY <1>1 DEF TypeOK, AddDecoder, taskVars, stackVars, objectVars, captureVars
<1>2. ASSUME NEW t \in Traces, RemoveDecoder(t) PROVE WipeInv'
    BY <1>2 DEF TypeOK, RemoveDecoder, taskVars, stackVars, objectVars, captureVars
<1>3. ASSUME NEW t \in Traces, RstDecoder(t) PROVE WipeInv'
    BY <1>3 DEF TypeOK, RstDecoder, taskVars, stackVars, objectVars, captureVars
<1>4. CASE ClearAllDecoder
    BY <1>4 DEF TypeOK, ClearAllDecoder, taskVars, stackVars, objectVars, captureVars
<1>5. CASE StartCapture
    BY <1>5 DEF TypeOK, StartCapture, taskVars, stackVars, objectVars, captureVars
<1>6. CASE Refresh
    BY <1>6 DEF TypeOK, Refresh, RefreshCause, taskVars, stackVars, objectVars, captureVars
<1>7. CASE StopCapture
    BY <1>7 DEF TypeOK, StopCapture, taskVars, stackVars, objectVars, captureVars
<1>8. CASE UiRemoveTask
    BY <1>8 DEF TypeOK, UiRemoveTask, taskVars, stackVars, objectVars, captureVars
<1>9. CASE UiFree
    BY <1>9 DEF TypeOK, UiFree, taskVars, stackVars, objectVars, captureVars
<1>10. CASE UiRearm
    BY <1>10 DEF TypeOK, UiRearm, taskVars, stackVars, objectVars, captureVars
<1>11. CASE UiEnqueue
    BY <1>11 DEF TypeOK, UiEnqueue, taskVars, stackVars, objectVars, captureVars
<1>12. CASE UiClear
    BY <1>12 DEF TypeOK, UiClear, taskVars, stackVars, objectVars, captureVars
<1>13. ASSUME NEW t \in Traces, UiScanTrace(t) PROVE WipeInv'
    BY <1>13 DEF TypeOK, UiScanTrace, taskVars, stackVars, objectVars, captureVars
<1>14. CASE UiJoin
    BY <1>14 DEF TypeOK, UiJoin, taskVars, stackVars, objectVars, captureVars
<1>15. CASE UiMark
    BY <1>15 DEF TypeOK, UiMark, taskVars, stackVars, objectVars, captureVars
<1>16. CASE UiWipe
    <2>1. CASE ui.op = "capture"
        <3>1. feed.pc = "off" /\ UNCHANGED <<dataMutex, endMsg>>
            BY <1>16, <2>1 DEF UiWipe
        <3>2. ui'.pc \in {"started", "idle"} /\ feed'.pc \in {"stream", "off"}
            <4>1. ui' = [ui EXCEPT !.pc = "started"] \/ ui' = Idle
                BY <1>16, <2>1 DEF UiWipe
            <4>2. feed' = [pc |-> "stream", todo |-> {}] \/ feed' = feed
                BY <1>16, <2>1 DEF UiWipe
            <4> QED
                BY <3>1, <4>1, <4>2 DEF TypeOK
        <3>3. endMsg = "none"
            BY <1>16, <2>1 DEF UiWipe
        <3> QED
            BY <3>1, <3>2, <3>3
    <2>2. CASE ui.op = "refresh"
        BY <1>16, <2>2 DEF TypeOK, UiWipe, taskVars
    <2>3. CASE ui.op = "end"
        BY <1>16, <2>3 DEF TypeOK, UiWipe, taskVars
    <2> QED
        BY <1>16, <2>1, <2>2, <2>3 DEF UiWipe
<1>17. CASE UiStarted
    BY <1>17 DEF TypeOK, UiStarted, taskVars, stackVars, objectVars, captureVars
<1>18. CASE UiStopJoin
    BY <1>18 DEF TypeOK, UiStopJoin, taskVars, stackVars, objectVars, captureVars
<1>19. ASSUME NEW t \in Traces, UiEndTrace(t) PROVE WipeInv'
    BY <1>19 DEF TypeOK, UiEndTrace, taskVars, stackVars, objectVars, captureVars
<1>20. CASE UiEndDone
    BY <1>20 DEF TypeOK, UiEndDone, taskVars, stackVars, objectVars, captureVars
<1>21. CASE EndPacketMessage
    BY <1>21 DEF TypeOK, EndPacketMessage, taskVars, stackVars, objectVars, captureVars
<1>22. CASE FeedTimeout
    BY <1>22 DEF TypeOK, FeedTimeout, taskVars, stackVars, objectVars, captureVars
<1>23. CASE FeedFrame
    BY <1>23 DEF TypeOK, FeedFrame, taskVars, stackVars, objectVars, captureVars
<1>24. ASSUME NEW t \in Traces, FeedFrameTrace(t) PROVE WipeInv'
    BY <1>24 DEF TypeOK, FeedFrameTrace, taskVars, stackVars, objectVars, captureVars
<1>25. CASE FeedEnd
    BY <1>25 DEF TypeOK, FeedEnd, taskVars, stackVars, objectVars, captureVars
<1>26. ASSUME NEW t \in Traces, FeedEndTrace(t) PROVE WipeInv'
    BY <1>26 DEF TypeOK, FeedEndTrace, taskVars, stackVars, objectVars, captureVars
<1>27. ASSUME NEW t \in Traces, FeedSkip(t) PROVE WipeInv'
    BY <1>27 DEF TypeOK, FeedSkip, taskVars, stackVars, objectVars, captureVars
<1>28. CASE FeedUnlock
    BY <1>28 DEF TypeOK, FeedUnlock, taskVars, stackVars, objectVars, captureVars
<1>29. CASE TaskEnd
    BY <1>29 DEF TypeOK, TaskEnd, taskVars, stackVars, objectVars, captureVars
<1>30. CASE DecTop
    BY <1>30 DEF TypeOK, DecTop, OnlyDec, taskVars, stackVars, objectVars, captureVars
<1>31. CASE DecCheck
    BY <1>31 DEF TypeOK, DecCheck, DecGoto, OnlyDec, taskVars, stackVars, objectVars, captureVars
<1>32. CASE DecBegin
    BY <1>32 DEF TypeOK, DecBegin, DecGoto, OnlyDec, taskVars, stackVars, objectVars, captureVars
<1>33. CASE DecStatus
    BY <1>33 DEF TypeOK, DecStatus, DecGoto, OnlyDec, taskVars, stackVars, objectVars, captureVars
<1>34. CASE DecOptions
    BY <1>34 DEF TypeOK, DecOptions, DecGoto, OnlyDec, taskVars, stackVars, objectVars, captureVars
<1>35. CASE DecStopped
    BY <1>35 DEF TypeOK, DecStopped, DecGoto, OnlyDec, taskVars, stackVars, objectVars, captureVars
<1>36. CASE DecComplete
    BY <1>36 DEF TypeOK, DecComplete, DecGoto, OnlyDec, taskVars, stackVars, objectVars, captureVars
<1>37. CASE DecDone
    BY <1>37 DEF TypeOK, DecDone, DecGoto, OnlyDec, taskVars, stackVars, objectVars, captureVars
<1>38. CASE DecRecheck
    BY <1>38 DEF TypeOK, DecRecheck, DecGoto, OnlyDec, taskVars, stackVars, objectVars, captureVars
<1>39. CASE DecLeave
    BY <1>39 DEF TypeOK, DecLeave, DecGoto, OnlyDec, taskVars, stackVars, objectVars, captureVars
<1>40. CASE UiReadRunning
    BY <1>40 DEF TypeOK, UiReadRunning, taskVars, stackVars, objectVars, captureVars
<1>41. CASE FeedBadTrigger
    BY <1>41 DEF TypeOK, FeedBadTrigger, taskVars, stackVars, objectVars, captureVars
<1>42. CASE DecNoData
    BY <1>42 DEF TypeOK, DecNoData, DecGoto, OnlyDec, taskVars, stackVars, objectVars, captureVars
<1>43. CASE DecReady
    BY <1>43 DEF TypeOK, DecReady, DecGoto, OnlyDec, taskVars, stackVars, objectVars, captureVars
<1>44. CASE DecRead
    BY <1>44 DEF TypeOK, DecRead, DecGoto, OnlyDec, taskVars, stackVars, objectVars, captureVars
<1>45. CASE UNCHANGED vars
    BY <1>45 DEF TypeOK, vars, taskVars, stackVars, objectVars, captureVars
<1> QED
    BY <1>1, <1>2, <1>3, <1>4, <1>5, <1>6, <1>7, <1>8, <1>9, <1>10, <1>11,
       <1>12, <1>13, <1>14, <1>15, <1>16, <1>17, <1>18, <1>19, <1>20, <1>21,
       <1>22, <1>23, <1>24, <1>25, <1>26, <1>27, <1>28, <1>29, <1>30, <1>31,
       <1>32, <1>33, <1>34, <1>35, <1>36, <1>37, <1>38, <1>39, <1>40, <1>41,
       <1>42, <1>43, <1>44, <1>45
    DEF Next, UiStep, UiMessage, UserStep, FeedStep, FeedLocked, DecStep

\* The results of the decoders are cleared under no decode thread, and none can
\* start meanwhile: refresh, the start of a capture and the END handler join it.
THEOREM QuietWipeCorrect == Spec => []QuietWipe
<1>1. Init => WipeInv
    BY DEF Init, WipeInv, Clearing, UiAt, Idle
<1>2. TypeOK /\ WipeInv /\ [Next]_vars => WipeInv'
    BY WipeNext
<1>3. WipeInv => QuietWipe
    BY DEF WipeInv, QuietWipe, UiAt
<1> QED
    BY <1>1, <1>2, <1>3, TypeCorrect, PTL DEF Spec

-----------------------------------------------------------------------------
(* The samples under the decode thread.                                    *)

\* Whether the capture keeps its samples until its decoders have been joined: the
\* DSO samples always are, those of a logic analyser unless an error refreshes the
\* view under the decode thread.
SamplesKept == Mode = "DSO" \/ "error" \notin EndStatus

\* A decoder that is past its look at the samples finds them; and no error is on
\* its way to a view that would drop them.
SamplesInv ==
    /\ dec.pc \in {"read", "tail", "readTail"} => haveData
    /\ Mode # "DSO" => feed.pc # "failed" /\ endMsg # "error" /\ ~trigErr

\* No step takes the samples from under a decoder, or announces an error.
LEMMA SamplesNext ==
    ASSUME SamplesKept, TypeOK, WipeInv, SamplesInv, [Next]_vars
    PROVE  SamplesInv'
<1> USE DEF SamplesInv, taskVars, stackVars, objectVars, captureVars
<1>1. CASE UserStep
    <2>1. CASE Refresh
        <3>1. haveData' = (haveData /\ Mode = "DSO") /\ UNCHANGED <<dec, feed>>
            BY <2>1 DEF Refresh
        <3>2. CASE Mode = "DSO"
            BY <3>1, <3>2
        <3>3. CASE Mode # "DSO"
            BY <2>1, <3>3 DEF Refresh, RefreshCause
        <3> QED
            BY <3>2, <3>3
    <2>2. ASSUME UserStep, ~Refresh
          PROVE  UNCHANGED <<dec, haveData, feed, endMsg, trigErr>>
        BY <2>2 DEF UserStep, AddDecoder, RemoveDecoder, RstDecoder, ClearAllDecoder,
                    StartCapture, StopCapture
    <2> QED
        BY <1>1, <2>1, <2>2
<1>2. CASE UiStep
    <2>1. CASE UiWipe
        <3>1. dec.pc \in {"none", "exited"} /\ UNCHANGED <<dec, endMsg, trigErr>>
            BY <2>1 DEF UiWipe, WipeInv, Alive, UiAt
        <3>2. feed' = [pc |-> "stream", todo |-> {}] \/ feed' = feed
            BY <2>1 DEF UiWipe
        <3>3. feed'.pc \in {"stream", feed.pc}
            BY <3>2
        <3> QED
            BY <3>1, <3>3
    <2>2. CASE UiJoin
        <3>1. dec'.pc = "none" /\ UNCHANGED <<feed, endMsg, trigErr>>
            BY <2>2 DEF UiJoin
        <3> QED
            BY <3>1
    <2>3. CASE UiEnqueue
        <3>1. PICK t \in ui.todo : AddTask(t)
            BY <2>3 DEF UiEnqueue
        <3>2. UNCHANGED <<haveData, feed, endMsg, trigErr>>
            BY <2>3 DEF UiEnqueue
        <3>3. dec'.pc \in {"top", dec.pc}
            BY <3>1 DEF AddTask
        <3> QED
            BY <3>2, <3>3
    <2>4. ASSUME NEW t \in Traces, UiEndTrace(t) PROVE SamplesInv'
        <3>1. UNCHANGED <<haveData, feed, endMsg, trigErr>>
            BY <2>4 DEF UiEndTrace
        <3>2. dec'.pc \in {"top", dec.pc}
            BY <2>4 DEF UiEndTrace, AddTask
        <3> QED
            BY <3>1, <3>2
    <2>5. ASSUME \/ UiReadRunning \/ UiRemoveTask \/ UiFree \/ UiRearm \/ UiClear \/ UiMark
                 \/ UiStarted \/ UiStopJoin \/ UiEndDone \/ \E t \in Traces : UiScanTrace(t)
          PROVE  UNCHANGED <<dec, haveData, feed, endMsg, trigErr>>
        BY <2>5 DEF UiReadRunning, UiRemoveTask, UiFree, UiRearm, UiClear, UiMark,
                    UiStarted, UiStopJoin, UiEndDone, UiScanTrace
    <2> QED
        BY <1>2, <2>1, <2>2, <2>3, <2>4, <2>5 DEF UiStep
<1>3. CASE UiMessage
    <2>1. UNCHANGED <<dec, haveData, feed, trigErr>> /\ endMsg' \in {"none", endMsg}
        BY <1>3 DEF UiMessage, EndPacketMessage, FeedTimeout
    <2> QED
        BY <2>1
<1>4. CASE FeedStep
    <2>1. CASE FeedFrame
        <3>1. haveData' = TRUE /\ UNCHANGED <<dec, endMsg, trigErr>>
            BY <2>1 DEF FeedFrame
        <3>2. feed' = [pc |-> "frame", todo |-> traces] \/ feed' = feed
            BY <2>1 DEF FeedFrame
        <3>3. feed'.pc \in {"frame", feed.pc}
            BY <3>2
        <3> QED
            BY <3>1, <3>3
    <2>2. CASE FeedBadTrigger
        <3>1. Mode = "DSO" /\ UNCHANGED <<dec, haveData, endMsg>>
            BY <2>2 DEF FeedBadTrigger, SamplesKept
        <3> QED
            BY <3>1
    <2>3. CASE FeedEnd
        <3>1. UNCHANGED <<dec, haveData, trigErr>>
            BY <2>3 DEF FeedEnd
        <3>2. ASSUME Mode # "DSO"
              PROVE  feed' = [pc |-> "ending", todo |-> {}] /\ endMsg' = "end"
            <4>1. feed.pc # "failed" /\ EndStatus \subseteq {"ok"}
                BY <3>2, ConstantsAssumption DEF SamplesKept
            <4> QED
                BY <2>3, <3>2, <4>1 DEF FeedEnd
        <3> QED
            BY <3>1, <3>2
    <2>4. ASSUME NEW t \in Traces, FeedFrameTrace(t) \/ FeedEndTrace(t) PROVE SamplesInv'
        <3>1. UNCHANGED <<haveData, endMsg, trigErr>>
            BY <2>4 DEF FeedFrameTrace, FeedEndTrace
        <3>2. dec'.pc \in {"top", dec.pc}
            BY <2>4 DEF FeedFrameTrace, FeedEndTrace, AddTask
        <3>3. feed' = [feed EXCEPT !.todo = feed.todo \ {t}]
            BY <2>4 DEF FeedFrameTrace, FeedEndTrace
        <3>4. feed'.pc = feed.pc
            BY <3>3 DEF TypeOK
        <3> QED
            BY <3>1, <3>2, <3>4
    <2>5. ASSUME FeedUnlock \/ TaskEnd \/ \E t \in Traces : FeedSkip(t)
          PROVE  SamplesInv'
        <3>1. UNCHANGED <<dec, haveData, endMsg, trigErr>>
            BY <2>5 DEF FeedUnlock, TaskEnd, FeedSkip
        <3>2. feed'.pc \in {feed.pc, "stream", "ending", "off"}
            BY <2>5 DEF FeedUnlock, TaskEnd, FeedSkip, TypeOK
        <3> QED
            BY <3>1, <3>2
    <2> QED
        BY <1>4, <2>1, <2>2, <2>3, <2>4, <2>5 DEF FeedStep, FeedLocked
<1>5. CASE DecStep \/ DecComplete
    <2>1. UNCHANGED <<haveData, feed, endMsg, trigErr>>
        BY <1>5 DEF DecStep, DecTop, DecCheck, DecBegin, DecStatus, DecOptions, DecStopped,
                    DecNoData, DecReady, DecRead, DecComplete, DecDone, DecRecheck, DecLeave, OnlyDec
    <2>2. CASE DecReady \/ DecRead
        <3>1. haveData
            BY <2>2 DEF DecReady, DecRead
        <3> QED
            BY <2>1, <3>1
    <2>3. ASSUME DecStep \/ DecComplete, ~DecReady, ~DecRead
          PROVE  dec'.pc \notin {"read", "tail", "readTail"}
        BY <2>3 DEF DecStep, DecTop, DecCheck, DecBegin, DecStatus, DecOptions, DecStopped,
                    DecNoData, DecComplete, DecDone, DecRecheck, DecLeave, DecGoto, TypeOK
    <2> QED
        BY <1>5, <2>1, <2>2, <2>3
<1>6. CASE UNCHANGED vars
    BY <1>6 DEF vars
<1> QED
    BY <1>1, <1>2, <1>3, <1>4, <1>5, <1>6 DEF Next

\* No snapshot is wiped under a decode thread that is about to read it: always so of
\* the DSO samples, which refresh keeps until it has joined the thread, and of the
\* logic analyser's when no capture ends with an error, since refresh initialises
\* theirs before it joins.
THEOREM SamplesThereCorrect ==
    Mode = "DSO" \/ "error" \notin EndStatus => (Spec => []SamplesThere)
<1> SUFFICES ASSUME SamplesKept PROVE Spec => []SamplesThere
    BY DEF SamplesKept
<1>1. Init => WipeInv /\ SamplesInv
    BY DEF Init, WipeInv, Clearing, UiAt, Idle, SamplesInv
<1>2. TypeOK /\ WipeInv /\ SamplesInv /\ [Next]_vars => (WipeInv /\ SamplesInv)'
    BY WipeNext, SamplesNext
<1>3. SamplesInv => SamplesThere
    BY DEF SamplesInv, SamplesThere
<1> QED
    BY <1>1, <1>2, <1>3, TypeCorrect, PTL DEF Spec

-----------------------------------------------------------------------------
(* The queue: what each operation on it does to its entries.               *)

Queued == ToSet(tasks)

\* The start of the decoders is queued behind what waits.
LEMMA AppendEntries ==
    ASSUME NEW S, NEW s \in Seq(S), NEW x \in S
    PROVE  /\ ToSet(Append(s, x)) = ToSet(s) \cup {x}
           /\ IsInjective(s) /\ x \notin ToSet(s) => IsInjective(Append(s, x))
<1>1. /\ Append(s, x) \in Seq(S) /\ DOMAIN Append(s, x) = 1..(Len(s) + 1)
      /\ Append(s, x)[Len(s) + 1] = x
      /\ \A i \in 1..Len(s) : Append(s, x)[i] = s[i]
      /\ DOMAIN s = 1..Len(s) /\ Len(s) \in Nat
    OBVIOUS
<1>2. ToSet(Append(s, x)) = ToSet(s) \cup {x}
    BY <1>1 DEF ToSet
<1>3. ASSUME IsInjective(s), x \notin ToSet(s)
      PROVE  IsInjective(Append(s, x))
    BY <1>1, <1>3 DEF ToSet, IsInjective
<1> QED
    BY <1>2, <1>3

\* get_top_decode_task takes the first entry.
LEMMA TailEntries ==
    ASSUME NEW S, NEW s \in Seq(S), s # <<>>
    PROVE  /\ Head(s) \in ToSet(s) /\ ToSet(Tail(s)) \subseteq ToSet(s)
           /\ IsInjective(s) => IsInjective(Tail(s)) /\ Head(s) \notin ToSet(Tail(s))
<1>1. /\ Tail(s) \in Seq(S) /\ DOMAIN Tail(s) = 1..(Len(s) - 1)
      /\ \A i \in 1..(Len(s) - 1) : Tail(s)[i] = s[i + 1]
      /\ DOMAIN s = 1..Len(s) /\ Len(s) \in Nat \ {0} /\ Head(s) = s[1]
    OBVIOUS
<1>2. Head(s) \in ToSet(s) /\ ToSet(Tail(s)) \subseteq ToSet(s)
    BY <1>1 DEF ToSet
<1>3. ASSUME IsInjective(s)
      PROVE  IsInjective(Tail(s)) /\ Head(s) \notin ToSet(Tail(s))
    BY <1>1, <1>3 DEF ToSet, IsInjective
<1> QED
    BY <1>2, <1>3

\* remove_decode_task drops one entry; if that was the only one of its trace, none
\* is left.
LEMMA RemoveAtEntries ==
    ASSUME NEW S, NEW s \in Seq(S), NEW i \in DOMAIN s
    PROVE  /\ ToSet(RemoveAt(s, i)) \subseteq ToSet(s)
           /\ IsInjective(s) => /\ IsInjective(RemoveAt(s, i))
                                /\ s[i] \notin ToSet(RemoveAt(s, i))
<1> DEFINE a == SubSeq(s, 1, i - 1)
           b == SubSeq(s, i + 1, Len(s))
           r == RemoveAt(s, i)
           from(j) == IF j < i THEN j ELSE j + 1
<1>1. DOMAIN s = 1..Len(s) /\ Len(s) \in Nat \ {0} /\ i \in 1..Len(s)
    OBVIOUS
<1>2. /\ a \in Seq(S) /\ Len(a) = i - 1
      /\ \A j \in 1..(i - 1) : a[j] = s[j]
    BY <1>1
<1>3. /\ b \in Seq(S) /\ Len(b) = Len(s) - i
      /\ \A j \in 1..(Len(s) - i) : b[j] = s[i + j]
    BY <1>1, SMTT(30)
<1>4. r = a \o b
    BY DEF RemoveAt
<1> HIDE DEF r, a, b
<1>5. /\ r \in Seq(S) /\ Len(r) = Len(a) + Len(b)
      /\ \A j \in 1..(Len(a) + Len(b)) :
            r[j] = IF j <= Len(a) THEN a[j] ELSE b[j - Len(a)]
    BY <1>2, <1>3, <1>4, ConcatProperties
<1>6. DOMAIN r = 1..(Len(s) - 1)
    BY <1>1, <1>2, <1>3, <1>5
<1>7. ASSUME NEW j \in 1..(Len(s) - 1)
      PROVE  from(j) \in 1..Len(s) /\ from(j) # i /\ r[j] = s[from(j)]
    <2>1. CASE j < i
        BY <1>1, <1>2, <1>3, <1>5, <2>1, SMTT(30)
    <2>2. CASE ~(j < i)
        <3>1. r[j] = b[j - (i - 1)] /\ j - (i - 1) \in 1..(Len(s) - i)
            BY <1>1, <1>2, <1>3, <1>5, <2>2, SMTT(30)
        <3>2. b[j - (i - 1)] = s[i + (j - (i - 1))] /\ i + (j - (i - 1)) = j + 1
            BY <1>1, <1>3, <3>1
        <3> QED
            BY <1>1, <2>2, <3>1, <3>2
    <2> QED
        BY <2>1, <2>2
<1>8. ASSUME NEW j \in 1..(Len(s) - 1), NEW k \in 1..(Len(s) - 1), from(j) = from(k)
      PROVE  j = k
    BY <1>1, <1>8
<1> HIDE DEF from
<1>9. ToSet(r) \subseteq ToSet(s)
    BY <1>1, <1>6, <1>7 DEF ToSet
<1>10. ASSUME IsInjective(s)
       PROVE  IsInjective(r) /\ s[i] \notin ToSet(r)
    BY <1>1, <1>6, <1>7, <1>8, <1>10, SMTT(30) DEF ToSet, IsInjective
<1> QED
    BY <1>9, <1>10 DEF r

\* An empty queue has no entries.
LEMMA EmptyEntries == ToSet(<<>>) = {} /\ IsInjective(<<>>)
BY DEF ToSet, IsInjective

-----------------------------------------------------------------------------
(* What the user may not ask for does not happen.                          *)

\* The UI thread carries out an operation the user may ask for; without captures
\* the feed thread never runs and no END packet arrives.
AskedFor ==
    /\ ui.op \in AllOps \ {"refresh"} => ui.op \in UserOps
    /\ ui.op = "end" => "capture" \in UserOps
    /\ "capture" \notin UserOps => feed.pc = "off" /\ endMsg = "none" /\ ~trigErr
    /\ ui.pc = "erased" => ui.op = "remove"
    /\ ui.pc = "task" => ui.op \in {"remove", "reset"}
    /\ ui.pc = "free" => ui.op = "remove"
    /\ ui.pc = "rearm" => ui.op = "reset"
    /\ ui.pc = "enqueue" => ui.op \in {"add", "reset"}
    /\ ui.pc = "mark" => ui.op = "clearAll"
    /\ ui.pc = "end" => ui.op = "end"

LEMMA AskedForInit == Init => AskedFor
BY DEF Init, AskedFor, Idle, AllOps

\* Every step carries out what was asked for.
LEMMA AskedForNext == TypeOK /\ WipeInv /\ AskedFor /\ [Next]_vars => AskedFor'
<1> SUFFICES ASSUME TypeOK, WipeInv, AskedFor, [Next]_vars PROVE AskedFor'
    OBVIOUS
<1> USE DEF AskedFor, AllOps, UiAt, UiGoto, UiCall, Idle, MayAsk,
            taskVars, stackVars, objectVars, captureVars
<1>1. CASE UserStep
    <2>1. ASSUME NEW t \in Traces, NEW silent \in BOOLEAN, AddDecoder(t, silent) PROVE AskedFor'
        BY <2>1 DEF AddDecoder
    <2>2. ASSUME NEW t \in Traces, RemoveDecoder(t) \/ RstDecoder(t) PROVE AskedFor'
        BY <2>2 DEF RemoveDecoder, RstDecoder
    <2>3. CASE ClearAllDecoder \/ StartCapture \/ StopCapture
        BY <2>3 DEF ClearAllDecoder, StartCapture, StopCapture
    <2>4. CASE Refresh
        BY <2>4 DEF Refresh, RefreshCause
    <2> QED
        BY <1>1, <2>1, <2>2, <2>3, <2>4 DEF UserStep
<1>2. CASE UiStep
    <2>1. CASE UiReadRunning
        <3>1. /\ ui.pc = "erased" /\ UNCHANGED <<feed, endMsg, trigErr>>
              /\ ui'.pc = "task" /\ ui'.op = ui.op
            BY <2>1 DEF TypeOK, UiReadRunning
        <3> QED
            BY <3>1
    <2>6. CASE UiRemoveTask \/ UiFree \/ UiRearm
        BY <2>6 DEF TypeOK, UiRemoveTask, UiFree, UiRearm
    <2>2. CASE UiEnqueue \/ UiMark \/ UiStarted \/ UiStopJoin \/ UiEndDone
        BY <2>2 DEF UiEnqueue, UiMark, UiStarted, UiStopJoin, UiEndDone
    <2>3. CASE UiClear
        <3>1. /\ UNCHANGED <<feed, endMsg, trigErr>>
              /\ ui'.pc = "join" /\ ui'.op = ui.op
            BY <2>3 DEF TypeOK, UiClear
        <3> QED
            BY <3>1
    <2>7. CASE UiJoin
        BY <2>7 DEF TypeOK, UiJoin
    <2>8. ASSUME NEW t \in Traces, UiScanTrace(t) PROVE AskedFor'
        <3>1. UNCHANGED <<feed, endMsg, trigErr>> /\ ui.pc = "join"
            BY <2>8 DEF UiScanTrace
        <3>2. \/ ui' = [ui EXCEPT !.todo = ui.todo \ {t}, !.found = {t}]
              \/ ui' = [ui EXCEPT !.todo = ui.todo \ {t}]
            BY <2>8 DEF UiScanTrace
        <3>3. ui'.pc = ui.pc /\ ui'.op = ui.op
            BY <3>2 DEF TypeOK
        <3> QED
            BY <3>1, <3>3
    <2>4. CASE UiWipe
        <3>1. CASE ui.op = "capture"
            <4>1. ui' = [ui EXCEPT !.pc = "started"] \/ ui' = Idle
                BY <2>4, <3>1 DEF UiWipe
            <4>2. ui'.pc \in {"started", "idle"} /\ ui'.op \in {"capture", "none"}
                BY <3>1, <4>1 DEF TypeOK
            <4>3. "capture" \in UserOps
                BY <3>1
            <4> QED
                BY <4>2, <4>3
        <3>2. CASE ui.op = "refresh"
            BY <2>4, <3>2 DEF TypeOK, UiWipe
        <3>3. CASE ui.op = "end"
            <4>1. ui' = [ui EXCEPT !.pc = "end", !.todo = traces] /\ UNCHANGED <<feed, endMsg, trigErr>>
                BY <2>4, <3>3, SMTT(30) DEF UiWipe
            <4>2. ui'.pc = "end" /\ ui'.op = "end"
                BY <3>3, <4>1 DEF TypeOK
            <4> QED
                BY <3>3, <4>1, <4>2
        <3> QED
            BY <2>4, <3>1, <3>2, <3>3 DEF UiWipe
    <2>5. ASSUME NEW t \in Traces, UiEndTrace(t) PROVE AskedFor'
        BY <2>5 DEF TypeOK, UiEndTrace
    <2> QED
        BY <1>2, <2>1, <2>2, <2>3, <2>4, <2>5, <2>6, <2>7, <2>8 DEF UiStep
<1>3. CASE UiMessage
    BY <1>3 DEF UiMessage, EndPacketMessage, FeedTimeout
<1>4. CASE FeedStep
    <2>1. CASE FeedFrame \/ FeedBadTrigger \/ FeedEnd \/ FeedUnlock \/ TaskEnd
        BY <2>1 DEF FeedFrame, FeedBadTrigger, FeedEnd, FeedUnlock, TaskEnd
    <2>2. ASSUME NEW t \in Traces, FeedFrameTrace(t) \/ FeedEndTrace(t) \/ FeedSkip(t)
          PROVE  AskedFor'
        BY <2>2 DEF TypeOK, FeedFrameTrace, FeedEndTrace, FeedSkip
    <2> QED
        BY <1>4, <2>1, <2>2 DEF FeedStep, FeedLocked
<1>5. CASE DecStep \/ DecComplete
    BY <1>5 DEF DecStep, DecTop, DecCheck, DecBegin, DecStatus, DecOptions, DecStopped,
                DecNoData, DecReady, DecRead, DecComplete, DecDone, DecRecheck, DecLeave, OnlyDec
<1>6. CASE UNCHANGED vars
    BY <1>6 DEF vars
<1> QED
    BY <1>1, <1>2, <1>3, <1>4, <1>5, <1>6 DEF Next

\* The three invariants that the rest builds on.
LEMMA SpecAskedFor == Spec => [](TypeOK /\ WipeInv /\ AskedFor)
<1>1. Init => WipeInv /\ AskedFor
    BY AskedForInit DEF Init, WipeInv, Clearing, UiAt, Idle
<1>2. TypeOK /\ WipeInv /\ AskedFor /\ [Next]_vars => (WipeInv /\ AskedFor)'
    BY WipeNext, AskedForNext
<1> QED
    BY <1>1, <1>2, TypeCorrect, PTL DEF Spec

-----------------------------------------------------------------------------
(* QueuedOnce.                                                             *)

\* A trace that remove_decoder may have taken off the list and not yet disposed of.
Named == IF ui.pc \in {"erased", "task", "free"} THEN ui.todo ELSE {}

\* The traces that were ever created: a new one is none of them.
Known == traces \cup freed \cup deleteFlag \cup Named

\* A trace is queued once, because those who are about to queue it know that it
\* is not waiting: a new trace is not known yet, a reset removes the entry first,
\* the frame that starts the decoders of a capture is the first that brings data,
\* when nothing was queued since the queue was emptied, and so is the END handler.
OnceInv ==
    /\ IsInjective(tasks)
    /\ Queued \cup feed.todo \subseteq Known
    /\ feed.todo \cap Queued = {}
    /\ feed.pc # "frame" => feed.todo = {}
    /\ feed.pc # "end"
    /\ feed.pc = "frame" => trigDecode
    /\ feed.pc = "stream" /\ ~trigDecode => tasks = <<>> /\ ~haveData
    /\ ui.pc \in {"erased", "task", "free", "rearm", "enqueue"} => \E t \in Traces : ui.todo = {t}
    /\ ui.pc \in {"rearm", "enqueue"} \/ (ui.pc = "task" /\ ui.op = "reset")
          => ui.todo \subseteq traces
    /\ ui.pc = "enqueue" /\ ui.op = "add" => haveData
    /\ ui.pc \in {"rearm", "enqueue"} => ui.todo \cap (Queued \cup feed.todo) = {}
    /\ ui.pc = "end" => feed.pc \in {"ending", "off"}
    /\ ui.pc = "end" /\ ui.flag => ui.todo \cap Queued = {} /\ ui.todo \subseteq traces

\* No capture, or captures of a logic analyser without resets between them.
OneStart == "capture" \notin UserOps \/ (Mode # "DSO" /\ "reset" \notin UserOps)

LEMMA OnceInit == Init => OnceInv
BY EmptyEntries DEF Init, OnceInv, Queued, Idle

\* The steps of the decode thread take entries out of the queue.
LEMMA OnceDecode ==
    ASSUME TypeOK, OnceInv, DecStep \/ DecComplete
    PROVE  OnceInv'
<1> USE DEF OnceInv, Queued, Known, Named, taskVars, stackVars, objectVars, captureVars
<1>1. CASE DecTop
    <2>1. UNCHANGED <<traces, freed, deleteFlag, feed, trigDecode, haveData, ui>>
        BY <1>1 DEF DecTop, OnlyDec
    <2>2. CASE tasks = <<>>
        BY <1>1, <2>1, <2>2 DEF DecTop
    <2>3. CASE tasks # <<>>
        <3>1. ToSet(tasks') \subseteq ToSet(tasks) /\ IsInjective(tasks')
            <4>1. tasks \in Seq(Traces) /\ tasks' = Tail(tasks)
                BY <1>1, <2>3 DEF DecTop, TypeOK
            <4> QED
                BY <2>3, <4>1, TailEntries
        <3> QED
            BY <2>1, <2>3, <3>1
    <2> QED
        BY <2>2, <2>3
<1>2. CASE DecRecheck
    <2>1. UNCHANGED <<traces, deleteFlag, tasks, feed, trigDecode, haveData, ui>> /\ freed \subseteq freed'
        BY <1>2 DEF DecRecheck
    <2> QED
        BY <2>1
<1>3. CASE (DecStep \/ DecComplete) /\ ~DecTop /\ ~DecRecheck
    <2>1. UNCHANGED <<traces, freed, deleteFlag, tasks, feed, trigDecode, haveData, ui>>
        BY <1>3 DEF DecStep, DecCheck, DecBegin, DecStatus, DecOptions, DecStopped,
                    DecNoData, DecReady, DecRead, DecComplete, DecDone, DecLeave, OnlyDec
    <2> QED
        BY <2>1
<1> QED
    BY <1>1, <1>2, <1>3

\* The feed thread queues the traces of the first frame.
LEMMA OnceFeed ==
    ASSUME TypeOK, OneStart, AskedFor, OnceInv, FeedStep
    PROVE  OnceInv'
<1> USE DEF OnceInv, Queued, Known, Named, taskVars, stackVars, objectVars, captureVars
<1>1. CASE FeedFrame
    <2>1. UNCHANGED <<traces, freed, deleteFlag, tasks, ui>> /\ haveData' = TRUE
        BY <1>1 DEF FeedFrame
    <2>2. CASE trigDecode /\ UNCHANGED <<trigDecode, feed>>
        BY <2>1, <2>2
    <2>3. CASE ~trigDecode /\ trigDecode' = TRUE /\ feed' = [pc |-> "frame", todo |-> traces]
        <3>1. tasks = <<>> /\ ui.pc # "enqueue" /\ ui.pc # "end" /\ ui.pc # "rearm"
            BY <1>1, <2>3 DEF FeedFrame, AskedFor, AllOps, OneStart
        <3> QED
            BY <2>1, <2>3, <3>1, EmptyEntries
    <2> QED
        BY <1>1, <2>2, <2>3 DEF FeedFrame, OneStart, AskedFor
<1>2. ASSUME NEW t \in Traces, FeedFrameTrace(t) PROVE OnceInv'
    <2>1. /\ UNCHANGED <<traces, freed, deleteFlag, ui, trigDecode, haveData>>
          /\ feed.pc = "frame" /\ t \in feed.todo
          /\ feed'.pc = feed.pc /\ feed'.todo = feed.todo \ {t}
          /\ tasks' = Append(tasks, t)
        BY <1>2 DEF FeedFrameTrace, AddTask, TypeOK
    <2>2. ToSet(tasks') = ToSet(tasks) \cup {t} /\ IsInjective(tasks')
        BY <2>1, AppendEntries DEF TypeOK
    <2> QED
        BY <2>1, <2>2
<1>3. CASE FeedEnd
    <2>1. /\ UNCHANGED <<traces, freed, deleteFlag, tasks, ui, trigDecode, haveData>>
          /\ feed.pc \in {"stream", "failed"} /\ feed' = [pc |-> "ending", todo |-> {}]
        BY <1>3 DEF FeedEnd, AskedFor, OneStart
    <2> QED
        BY <2>1
<1>7. CASE FeedBadTrigger
    <2>1. /\ UNCHANGED <<traces, freed, deleteFlag, tasks, ui, trigDecode, haveData>>
          /\ feed.pc = "stream" /\ feed' = [pc |-> "failed", todo |-> {}]
        BY <1>7 DEF FeedBadTrigger
    <2> QED
        BY <2>1
<1>4. ASSUME NEW t \in Traces, FeedSkip(t) PROVE OnceInv'
    <2>1. /\ UNCHANGED <<traces, freed, deleteFlag, tasks, ui, trigDecode, haveData>>
          /\ feed'.pc = feed.pc /\ feed'.todo = feed.todo \ {t}
        BY <1>4 DEF FeedSkip, TypeOK
    <2> QED
        BY <2>1
<1>5. CASE FeedUnlock \/ TaskEnd
    <2>1. /\ UNCHANGED <<traces, freed, deleteFlag, tasks, ui, trigDecode, haveData>>
          /\ feed.todo = {} /\ feed'.todo = {} /\ feed'.pc \in {"stream", "ending", "off"}
          /\ feed.pc \in {"frame", "ending"} /\ (feed'.pc = "stream" => feed.pc = "frame")
        BY <1>5 DEF FeedUnlock, TaskEnd, TypeOK
    <2> QED
        BY <1>5, <2>1
<1>6. ASSUME NEW t \in Traces, FeedEndTrace(t) PROVE OnceInv'
    BY <1>6 DEF FeedEndTrace
<1> QED
    BY <1>1, <1>2, <1>3, <1>4, <1>5, <1>6, <1>7 DEF FeedStep, FeedLocked

\* The UI thread queues new traces, traces whose entry it has just removed, and at
\* the END all traces once the queue was emptied.
LEMMA OnceUi ==
    ASSUME TypeOK, WipeInv, OneStart, AskedFor, OnceInv, UiStep
    PROVE  OnceInv'
<1> USE DEF OnceInv, Queued, Known, Named, UiAt, UiGoto, UiCall, Idle,
            taskVars, stackVars, objectVars, captureVars
<1> DEFINE Same == UNCHANGED <<feed, trigDecode, haveData>>
<1>1. CASE UiRemoveTask
    <2>1. PICK t \in ui.todo : RemoveTask(t)
        BY <1>1 DEF UiRemoveTask
    <2>2. UNCHANGED <<traces, freed, deleteFlag>> /\ Same /\ ui.pc = "task"
        BY <1>1 DEF UiRemoveTask
    <2>3. ui.todo = {t} /\ t \in Traces /\ tasks \in Seq(Traces)
        BY <2>1, <2>2 DEF TypeOK
    <2>4. ui'.pc \in {"free", "rearm"} /\ ui'.todo = {t} /\ (ui'.pc = "rearm" => ui.op = "reset")
        BY <1>1, <2>2, <2>3 DEF UiRemoveTask, AskedFor, TypeOK
    <2>5. ToSet(tasks') \subseteq ToSet(tasks) /\ IsInjective(tasks') /\ t \notin ToSet(tasks')
        <3>1. CASE t \notin ToSet(tasks) /\ UNCHANGED tasks
            BY <3>1
        <3>2. ASSUME NEW i \in DOMAIN tasks, tasks[i] = t, tasks' = RemoveAt(tasks, i)
              PROVE  ToSet(tasks') \subseteq ToSet(tasks) /\ IsInjective(tasks') /\ t \notin ToSet(tasks')
            BY <2>3, <3>2, RemoveAtEntries
        <3> QED
            BY <2>1, <3>1, <3>2 DEF RemoveTask
    <2>6. ui'.pc = "rearm" => feed.todo = {}
        <3>1. ui.op = "reset" => feed.pc = "off"
            BY DEF AskedFor, AllOps, OneStart
        <3> QED
            BY <2>4, <3>1
    <2>7. tasks = <<>> => tasks' = <<>>
        BY <2>1 DEF RemoveTask
    <2> QED
        BY <2>2, <2>3, <2>4, <2>5, <2>6, <2>7
<1>2. CASE UiFree
    <2>1. UNCHANGED <<traces, tasks>> /\ Same /\ ui.pc = "free" /\ ui'.pc = "idle"
        BY <1>2 DEF UiFree
    <2>2. freed' \cup deleteFlag' = freed \cup deleteFlag \cup ui.todo
        BY <1>2 DEF UiFree
    <2> QED
        BY <2>1, <2>2
<1>3. CASE UiRearm
    <2>1. UNCHANGED <<traces, freed, deleteFlag, tasks>> /\ Same /\ ui.pc = "rearm"
          /\ ui'.pc = "enqueue" /\ ui'.todo = ui.todo /\ ui'.op # "add"
        BY <1>3 DEF UiRearm, TypeOK, AskedFor
    <2> QED
        BY <2>1
<1>4. CASE UiEnqueue
    <2>1. PICK t \in ui.todo : AddTask(t)
        BY <1>4 DEF UiEnqueue
    <2>2. UNCHANGED <<traces, freed, deleteFlag>> /\ Same /\ ui.pc = "enqueue"
          /\ ui'.pc = "idle" /\ tasks' = Append(tasks, t)
        BY <1>4, <2>1 DEF UiEnqueue, AddTask
    <2>3. ToSet(tasks') = ToSet(tasks) \cup {t} /\ IsInjective(tasks')
        BY <2>1, <2>2, AppendEntries DEF TypeOK
    <2>4. ~(feed.pc = "stream" /\ ~trigDecode)
        BY <2>2 DEF AskedFor, AllOps, OneStart
    <2> QED
        BY <2>1, <2>2, <2>3, <2>4
<1>5. CASE UiClear
    <2>1. UNCHANGED <<traces, freed, deleteFlag>> /\ Same /\ tasks' = <<>>
          /\ ui.pc = "clear" /\ ui'.pc = "join"
        BY <1>5 DEF UiClear, TypeOK
    <2> QED
        BY <2>1, EmptyEntries
<1>6. ASSUME UiJoin \/ \E t \in Traces : UiScanTrace(t) PROVE OnceInv'
    <2>1. UNCHANGED <<traces, freed, deleteFlag, tasks>> /\ Same
          /\ ui.pc = "join" /\ ui'.pc \in {"join", "mark", "wipe"}
        BY <1>6 DEF UiScanTrace, UiJoin, TypeOK
    <2> QED
        BY <2>1
<1>11. CASE UiReadRunning
    <2>1. UNCHANGED <<traces, freed, deleteFlag, tasks>> /\ Same
          /\ ui.pc = "erased" /\ ui'.pc = "task" /\ ui'.todo = ui.todo /\ ui'.op = "remove"
        BY <1>11 DEF UiReadRunning, AskedFor, TypeOK
    <2> QED
        BY <2>1
<1>7. CASE UiMark
    <2>1. UNCHANGED tasks /\ Same /\ ui.pc = "mark" /\ ui'.pc = "idle"
        BY <1>7 DEF UiMark
    <2>2. traces \cup freed \cup deleteFlag \subseteq traces' \cup freed' \cup deleteFlag'
        BY <1>7 DEF UiMark
    <2> QED
        BY <2>1, <2>2
<1>8. CASE UiWipe
    <2>1. UNCHANGED <<traces, freed, deleteFlag, tasks>> /\ ui.pc = "wipe" /\ tasks = <<>>
        BY <1>8 DEF UiWipe, WipeInv
    <2>2. ToSet(tasks) = {}
        BY <2>1, EmptyEntries
    <2>3. CASE ui.op = "capture"
        <3>1. haveData' = FALSE /\ trigDecode' = FALSE /\ feed.pc = "off"
            BY <1>8, <2>3 DEF UiWipe, WipeInv, Clearing
        <3>3. feed' = [pc |-> "stream", todo |-> {}] \/ feed' = feed
            BY <1>8, <2>3 DEF UiWipe
        <3>2. ui'.pc \in {"started", "idle"}
            <4>1. ui' = [ui EXCEPT !.pc = "started"] \/ ui' = Idle
                BY <1>8, <2>3 DEF UiWipe
            <4> QED
                BY <4>1 DEF TypeOK
        <3> QED
            BY <2>1, <2>2, <3>1, <3>2, <3>3
    <2>4. CASE ui.op = "refresh"
        <3>1. haveData' = FALSE /\ UNCHANGED <<trigDecode, feed>> /\ ui'.pc = "idle"
            BY <1>8, <2>4 DEF UiWipe
        <3> QED
            BY <2>1, <2>2, <3>1
    <2>5. CASE ui.op = "end"
        <3>1. Same /\ ui'.pc = "end" /\ ui'.todo = traces /\ feed.pc \in {"ending", "off"}
            BY <1>8, <2>5 DEF UiWipe, WipeInv, Clearing, TypeOK
        <3> QED
            BY <2>1, <2>2, <3>1
    <2> QED
        BY <1>8, <2>3, <2>4, <2>5 DEF UiWipe
<1>9. CASE UiStarted \/ UiStopJoin \/ UiEndDone
    <2>1. UNCHANGED <<traces, freed, deleteFlag, tasks>> /\ Same /\ ui'.pc = "idle"
          /\ ui.pc \in {"started", "stopJoin", "end"}
        BY <1>9 DEF UiStarted, UiStopJoin, UiEndDone
    <2> QED
        BY <2>1
<1>10. ASSUME NEW t \in Traces, UiEndTrace(t) PROVE OnceInv'
    <2>1. UNCHANGED <<traces, freed, deleteFlag>> /\ Same /\ ui.pc = "end" /\ t \in ui.todo
          /\ ui'.pc = "end" /\ ui'.flag = ui.flag /\ ui'.todo = ui.todo \ {t}
        BY <1>10 DEF UiEndTrace, TypeOK
    <2>2. CASE ui.flag
        <3>1. tasks' = Append(tasks, t)
            BY <1>10, <2>2 DEF UiEndTrace, AddTask
        <3>2. ToSet(tasks') = ToSet(tasks) \cup {t} /\ IsInjective(tasks')
            BY <2>1, <2>2, <3>1, AppendEntries DEF TypeOK
        <3> QED
            BY <2>1, <2>2, <3>2
    <2>3. CASE ~ui.flag
        <3>1. UNCHANGED tasks
            BY <1>10, <2>3 DEF UiEndTrace
        <3> QED
            BY <2>1, <2>3, <3>1
    <2> QED
        BY <2>2, <2>3
<1> QED
    BY <1>1, <1>2, <1>3, <1>4, <1>5, <1>6, <1>7, <1>8, <1>9, <1>10, <1>11 DEF UiStep

\* What the user asks for and the messages to the UI thread.
LEMMA OnceUser ==
    ASSUME TypeOK, WipeInv, OneStart, AskedFor, OnceInv, UserStep \/ UiMessage
    PROVE  OnceInv'
<1> USE DEF OnceInv, Queued, Known, Named, UiAt, UiCall,
            taskVars, stackVars, objectVars, captureVars
<1> DEFINE Same == UNCHANGED <<freed, deleteFlag, tasks, feed, trigDecode>>
<1>1. ASSUME NEW t \in Traces, NEW silent \in BOOLEAN, AddDecoder(t, silent) PROVE OnceInv'
    <2>1. /\ Same /\ UNCHANGED haveData /\ traces' = traces \cup {t} /\ ui.pc = "idle"
          /\ t \notin traces \cup freed \cup deleteFlag
          /\ \/ UNCHANGED ui
             \/ haveData /\ ui'.pc = "enqueue" /\ ui'.todo = {t}
        BY <1>1 DEF AddDecoder
    <2> QED
        BY <2>1
<1>2. ASSUME NEW t \in Traces, RemoveDecoder(t) PROVE OnceInv'
    <2>1. /\ Same /\ UNCHANGED haveData /\ traces' = traces \ {t} /\ ui.pc = "idle"
          /\ ui'.pc = "erased" /\ ui'.todo = {t}
        BY <1>2 DEF RemoveDecoder
    <2> QED
        BY <2>1
<1>3. ASSUME NEW t \in Traces, RstDecoder(t) PROVE OnceInv'
    <2>1. /\ Same /\ UNCHANGED <<haveData, traces>> /\ ui.pc = "idle"
          /\ ui'.pc = "task" /\ ui'.todo = {t} /\ t \in traces
        BY <1>3 DEF RstDecoder
    <2> QED
        BY <2>1
<1>4. CASE ClearAllDecoder \/ StartCapture \/ StopCapture
    <2>1. /\ Same /\ UNCHANGED <<haveData, traces>> /\ ui.pc = "idle"
          /\ ui'.pc \in {"clear", "stopJoin"}
        BY <1>4 DEF ClearAllDecoder, StartCapture, StopCapture
    <2> QED
        BY <2>1
<1>5. CASE Refresh
    <2>1. /\ Same /\ UNCHANGED traces /\ ui.pc = "idle" /\ ui'.pc = "clear"
          /\ haveData' => haveData
        BY <1>5 DEF Refresh
    <2> QED
        BY <2>1
<1>6. CASE EndPacketMessage
    <2>1. /\ Same /\ UNCHANGED <<haveData, traces>> /\ ui.pc = "idle" /\ endMsg = "end"
          /\ \/ ui'.pc = "clear"
             \/ ui'.pc = "end" /\ ui'.flag = FALSE
        BY <1>6 DEF EndPacketMessage
    <2>2. feed.pc \in {"ending", "off"}
        BY <2>1 DEF WipeInv
    <2> QED
        BY <2>1, <2>2
<1>7. CASE FeedTimeout
    <2>1. Same /\ UNCHANGED <<haveData, traces, ui>>
        BY <1>7 DEF FeedTimeout
    <2> QED
        BY <2>1
<1> QED
    BY <1>1, <1>2, <1>3, <1>4, <1>5, <1>6, <1>7 DEF UserStep, UiMessage

\* A trace waits in the queue at most once when there are no captures, and with
\* them in the logic analyser's modes as long as no decoder is reset: what
\* remove_decode_task leaves behind can only come from those.
THEOREM QueuedOnceCorrect == OneStart => (Spec => []QueuedOnce)
<1> SUFFICES ASSUME OneStart PROVE Spec => []QueuedOnce
    OBVIOUS
<1>1. Init => OnceInv
    BY OnceInit
<1>2. TypeOK /\ WipeInv /\ AskedFor /\ OnceInv /\ [Next]_vars => OnceInv'
    <2> SUFFICES ASSUME TypeOK, WipeInv, AskedFor, OnceInv, [Next]_vars PROVE OnceInv'
        OBVIOUS
    <2>1. CASE UNCHANGED vars
        BY <2>1 DEF vars, taskVars, stackVars, objectVars, captureVars,
                    OnceInv, Queued, Known, Named
    <2> QED
        BY <2>1, OnceUi, OnceUser, OnceFeed, OnceDecode DEF Next
<1>3. OnceInv => QueuedOnce
    BY DEF OnceInv, QueuedOnce
<1> QED
    BY <1>1, <1>2, <1>3, SpecAskedFor, PTL DEF Spec

-----------------------------------------------------------------------------
(* NoUseAfterFree.                                                         *)

\* Without removals a trace is deleted only by clear_all_decoder, which has
\* emptied the queue and joined the decode thread by then; until then the queue,
\* the thread and the UI thread refer to listed traces only.
FreeInv ==
    /\ (freed \cup deleteFlag) \cap traces = {}
    /\ Queued \subseteq traces
    /\ Holding => dec.task \in traces
    /\ ui.pc \in {"task", "rearm", "enqueue"} => ui.todo \subseteq traces
    /\ ui.pc \in {"join", "mark", "wipe"} => tasks = <<>>
    /\ ui.pc \in {"mark", "wipe"} => ~Alive

\* No removals and no captures: the feed thread, which queues whatever its loop
\* comes across, does not run.
OnlyLists == {"remove", "capture"} \cap UserOps = {}

LEMMA FreeInit == Init => FreeInv
BY EmptyEntries DEF Init, FreeInv, Queued, Idle, Holding, Alive, Decoding

\* Queueing a listed trace, with or without a new thread.
LEMMA FreeAdd ==
    ASSUME TypeOK, FreeInv, NEW t \in traces, AddTask(t), UNCHANGED objectVars,
           ui'.pc = "idle"
    PROVE  FreeInv'
<1>1. ToSet(tasks') = ToSet(tasks) \cup {t}
    BY AppendEntries DEF TypeOK, AddTask
<1>2. UNCHANGED dec \/ dec' = [pc |-> "top", task |-> NoTrace]
    BY DEF AddTask
<1> QED
    BY <1>1, <1>2 DEF FreeInv, Queued, Holding, Alive, Decoding, objectVars

\* A step of the decode thread.
LEMMA FreeDecode ==
    ASSUME TypeOK, FreeInv, DecStep \/ DecComplete
    PROVE  FreeInv'
<1> USE DEF FreeInv, Queued, Holding, Alive, Decoding, taskVars, stackVars, objectVars, captureVars
<1>1. CASE DecTop
    <2>1. UNCHANGED <<traces, freed, deleteFlag, ui>> /\ tasks \in Seq(Traces)
        BY <1>1 DEF DecTop, OnlyDec, TypeOK
    <2>2. CASE tasks = <<>>
        BY <1>1, <2>1, <2>2 DEF DecTop
    <2>3. CASE tasks # <<>>
        <3>1. dec' = [pc |-> "check", task |-> Head(tasks)] /\ tasks' = Tail(tasks)
              /\ dec.pc = "top"
            BY <1>1, <2>3 DEF DecTop
        <3>2. Head(tasks) \in ToSet(tasks) /\ ToSet(tasks') \subseteq ToSet(tasks)
            BY <2>1, <2>3, <3>1, TailEntries
        <3> QED
            BY <2>1, <2>3, <3>1, <3>2
    <2> QED
        BY <2>2, <2>3
<1>2. CASE DecRecheck
    BY <1>2 DEF DecRecheck
<1>3. CASE (DecStep \/ DecComplete) /\ ~DecTop /\ ~DecRecheck
    <2>1. /\ UNCHANGED <<traces, freed, deleteFlag, tasks, ui>>
          /\ dec'.task = dec.task /\ Alive
          /\ dec'.pc \in Decoding \cup {"begin", "status", "options", "done", "recheck"} => Holding
        BY <1>3 DEF DecStep, DecCheck, DecBegin, DecStatus, DecOptions, DecStopped,
                    DecNoData, DecReady, DecRead, DecComplete, DecDone, DecLeave, DecGoto, OnlyDec, TypeOK
    <2>2. dec'.pc \notin {"top", "check", "none"}
        BY <1>3 DEF DecStep, DecCheck, DecBegin, DecStatus, DecOptions, DecStopped,
                    DecNoData, DecReady, DecRead, DecComplete, DecDone, DecLeave, DecGoto, TypeOK
    <2> QED
        BY <2>1, <2>2
<1> QED
    BY <1>1, <1>2, <1>3

\* A step of the UI thread.
LEMMA FreeUi ==
    ASSUME TypeOK, WipeInv, OnlyLists, AskedFor, FreeInv, UiStep
    PROVE  FreeInv'
<1> USE DEF FreeInv, Queued, Holding, Alive, Decoding, UiAt, UiGoto, UiCall, Idle,
            taskVars, stackVars, objectVars, captureVars
<1>1. CASE UiRemoveTask
    <2>1. PICK t \in ui.todo : RemoveTask(t)
        BY <1>1 DEF UiRemoveTask
    <2>2. UNCHANGED <<traces, freed, deleteFlag, dec>> /\ ui.pc = "task"
        BY <1>1 DEF UiRemoveTask
    <2>3. ui'.pc = "rearm" /\ ui'.todo = ui.todo
        BY <1>1, <2>2 DEF UiRemoveTask, AskedFor, OnlyLists, AllOps, TypeOK
    <2>4. ToSet(tasks') \subseteq ToSet(tasks)
        BY <2>1, RemoveAtEntries DEF RemoveTask, TypeOK
    <2> QED
        BY <2>2, <2>3, <2>4
<1>2. CASE UiFree
    BY <1>2 DEF UiFree, AskedFor, OnlyLists, AllOps
<1>3. CASE UiRearm
    BY <1>3 DEF UiRearm, TypeOK
<1>4. CASE UiEnqueue
    BY <1>4, FreeAdd DEF UiEnqueue
<1>5. CASE UiClear
    BY <1>5, EmptyEntries DEF UiClear, TypeOK
<1>6. ASSUME NEW t \in Traces, UiScanTrace(t) PROVE FreeInv'
    BY <1>6 DEF UiScanTrace, TypeOK
<1>12. CASE UiReadRunning
    BY <1>12 DEF UiReadRunning, AskedFor, OnlyLists, AllOps
<1>7. CASE UiJoin
    BY <1>7 DEF UiJoin, TypeOK
<1>8. CASE UiMark
    BY <1>8, EmptyEntries DEF UiMark
<1>9. CASE UiWipe
    <2>1. UNCHANGED <<traces, freed, deleteFlag, tasks, dec>> /\ ui.pc = "wipe"
          /\ ui.op \in {"capture", "refresh", "end"}
        BY <1>9 DEF UiWipe
    <2>2. ui.op = "refresh"
        BY <2>1 DEF AskedFor, OnlyLists, AllOps
    <2>3. ui'.pc = "idle"
        BY <1>9, <2>2 DEF UiWipe
    <2> QED
        BY <2>1, <2>3
<1>10. CASE UiStarted \/ UiStopJoin \/ UiEndDone
    BY <1>10 DEF UiStarted, UiStopJoin, UiEndDone
<1>11. ASSUME NEW t \in Traces, UiEndTrace(t) PROVE FreeInv'
    BY <1>11 DEF UiEndTrace, AskedFor, OnlyLists
<1> QED
    BY <1>1, <1>2, <1>3, <1>4, <1>5, <1>6, <1>7, <1>8, <1>9, <1>10, <1>11, <1>12 DEF UiStep

\* A call of the user, a message, and the feed thread, which is off.
LEMMA FreeOthers ==
    ASSUME TypeOK, OnlyLists, AskedFor, FreeInv, UserStep \/ UiMessage \/ FeedStep
    PROVE  FreeInv'
<1> USE DEF FreeInv, Queued, Holding, Alive, Decoding, UiAt, UiCall,
            taskVars, stackVars, objectVars, captureVars
<1>1. ASSUME NEW t \in Traces, NEW silent \in BOOLEAN, AddDecoder(t, silent) PROVE FreeInv'
    BY <1>1 DEF AddDecoder
<1>2. ASSUME NEW t \in Traces, RemoveDecoder(t) PROVE FreeInv'
    BY <1>2 DEF RemoveDecoder, MayAsk, OnlyLists
<1>3. ASSUME NEW t \in Traces, RstDecoder(t) PROVE FreeInv'
    BY <1>3 DEF RstDecoder
<1>4. CASE ClearAllDecoder \/ StartCapture \/ StopCapture
    BY <1>4 DEF ClearAllDecoder, StartCapture, StopCapture
<1>5. CASE Refresh
    BY <1>5 DEF Refresh
<1>6. CASE UiMessage
    BY <1>6 DEF UiMessage, EndPacketMessage, FeedTimeout, AskedFor, OnlyLists
<1>7. CASE FeedStep
    <2>1. feed.pc = "off"
        BY DEF AskedFor, OnlyLists
    <2>2. PICK t \in Traces : FeedSkip(t)
        BY <1>7, <2>1 DEF FeedStep, FeedLocked, FeedFrame, FeedBadTrigger, FeedEnd,
                          FeedFrameTrace, FeedEndTrace, FeedUnlock, TaskEnd
    <2> QED
        BY <2>2 DEF FeedSkip
<1> QED
    BY <1>1, <1>2, <1>3, <1>4, <1>5, <1>6, <1>7 DEF UserStep

\* Nothing was deleted.
NothingFreed == freed = {} /\ deleteFlag = {}

\* Without removals and clear_all_decoder nothing is ever deleted.
LEMMA NothingFreedNext ==
    ASSUME {"remove", "clearAll"} \cap UserOps = {}, AskedFor, NothingFreed, [Next]_vars
    PROVE  NothingFreed'
<1> USE DEF NothingFreed, UiAt, taskVars, stackVars, objectVars, captureVars
<1>1. CASE UiStep
    <2>1. ~UiFree /\ ~UiMark
        BY DEF UiFree, UiMark, AskedFor, AllOps
    <2> QED
        BY <1>1, <2>1 DEF UiStep, UiReadRunning, UiRemoveTask, UiRearm, UiEnqueue, UiClear, UiScanTrace, UiJoin,
                          UiWipe, UiStarted, UiStopJoin, UiEndTrace, UiEndDone
<1>2. CASE UserStep \/ UiMessage
    BY <1>2 DEF UserStep, AddDecoder, RemoveDecoder, RstDecoder, ClearAllDecoder, StartCapture,
                Refresh, StopCapture, UiMessage, EndPacketMessage, FeedTimeout
<1>3. CASE FeedStep
    BY <1>3 DEF FeedStep, FeedLocked, FeedFrame, FeedBadTrigger, FeedEnd, FeedFrameTrace, FeedEndTrace,
                FeedSkip, FeedUnlock, TaskEnd
<1>4. CASE DecStep \/ DecComplete
    BY <1>4 DEF DecStep, DecTop, DecCheck, DecBegin, DecStatus, DecOptions, DecStopped,
                DecNoData, DecReady, DecRead, DecComplete, DecDone, DecRecheck, DecLeave, OnlyDec
<1>5. CASE UNCHANGED vars
    BY <1>5 DEF vars
<1> QED
    BY <1>1, <1>2, <1>3, <1>4, <1>5 DEF Next

\* The decode thread and its queue never refer to a deleted trace when no trace is
\* removed, and clear_all_decoder and captures do not come together: the traces
\* left to the decode thread by a removal, or visited by the feed thread while
\* the list is cleared, are the only dangerous ones.
THEOREM NoUseAfterFreeCorrect ==
    "remove" \notin UserOps /\ ~({"clearAll", "capture"} \subseteq UserOps)
        => (Spec => []NoUseAfterFree)
<1>1. ASSUME OnlyLists
      PROVE  Spec => []NoUseAfterFree
    <2>1. Init => FreeInv
        BY FreeInit
    <2>2. TypeOK /\ WipeInv /\ AskedFor /\ FreeInv /\ [Next]_vars => FreeInv'
        <3> SUFFICES ASSUME TypeOK, WipeInv, AskedFor, FreeInv, [Next]_vars PROVE FreeInv'
            OBVIOUS
        <3>1. CASE UNCHANGED vars
            BY <3>1 DEF vars, taskVars, stackVars, objectVars, captureVars,
                        FreeInv, Queued, Holding, Alive
        <3> QED
            BY <1>1, <3>1, FreeUi, FreeOthers, FreeDecode DEF Next
    <2>3. FreeInv => NoUseAfterFree
        BY DEF FreeInv, NoUseAfterFree, Queued
    <2> QED
        BY <2>1, <2>2, <2>3, SpecAskedFor, PTL DEF Spec
<1>2. ASSUME {"remove", "clearAll"} \cap UserOps = {}
      PROVE  Spec => []NoUseAfterFree
    <2>1. Init => NothingFreed
        BY DEF Init, NothingFreed
    <2>2. AskedFor /\ NothingFreed /\ [Next]_vars => NothingFreed'
        BY <1>2, NothingFreedNext
    <2>3. NothingFreed => NoUseAfterFree
        BY DEF NothingFreed, NoUseAfterFree
    <2> QED
        BY <2>1, <2>2, <2>3, SpecAskedFor, PTL DEF Spec
<1>3. "remove" \notin UserOps /\ ~({"clearAll", "capture"} \subseteq UserOps)
         => OnlyLists \/ {"remove", "clearAll"} \cap UserOps = {}
    BY DEF OnlyLists
<1> QED
    BY <1>1, <1>2, <1>3
=============================================================================
