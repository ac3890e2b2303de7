---------------------------- MODULE DeviceManager ----------------------------
(***************************************************************************)
(* The device manager of libsigrok4DSL/lib_main.c: the device list, the    *)
(* active device, hotplug and the collect thread, with the stop request of *)
(* sigrok/core.c.                                                          *)
(*                                                                         *)
(* Threads: the application thread that calls the ds_ functions; the       *)
(* hotplug thread (usb_hotplug_process_proc); the collect thread           *)
(* (collect_run_proc); and one short thread for every event posted.        *)
(* libusb's hotplug callback runs in whichever thread handles USB events:  *)
(* the hotplug thread while nothing is collected, otherwise the collect    *)
(* thread, which "owns USB dispatch", and any thread that scans, opens or  *)
(* configures an instrument.  A section under lib_ctx.mutext is one        *)
(* action, and so is one run of the callback.                              *)
(***************************************************************************)
EXTENDS Integers, Sequences, SequencesExt, FiniteSets

CONSTANTS
    Units,      \* the physical USB instruments
    MaxPlugs,   \* bound: how often an instrument is plugged in, altogether
    MaxFiles,   \* bound: how many session files are opened
    Reconnect,  \* CHECK_DEV_RECONNECT_TIMES
    UserOps     \* what the application may call

AllOps == {"activate", "file", "start", "stop", "release", "power", "exit"}

ASSUME ConstantsAssumption ==
    /\ MaxPlugs \in Nat /\ MaxFiles \in Nat
    /\ Reconnect \in Nat \ {0}
    /\ UserOps \subseteq AllOps

VARIABLES
    owner,      \* the instrument behind every libusb device there has been
    bus,        \* the libusb devices that are plugged in
    usbq,       \* notifications libusb has not delivered yet
    insts,      \* every struct sr_dev_inst made so far, the demo device first
    list,       \* lib_ctx.device_list, which is in the order of creation
    active,     \* actived_device_instance
    delay,      \* is_delay_destory_actived_device
    hotflags,   \* the flags between the callback and the hotplug thread
    hot,        \* the hotplug thread
    col,        \* the collect thread
    session,    \* the upstream session and stop_requested
    collecting, \* lib_ctx.collecting
    byDetach,   \* is_stop_by_detached
    events,     \* callback_thread_count
    ui          \* the application thread

world    == <<owner, bus, usbq>>
devices  == <<insts, list, active, delay>>
capture  == <<col, session, collecting, byDetach>>
vars     == <<world, devices, hotflags, hot, capture, events, ui>>

None == 0                     \* the NULL of pointers and handles

\* Handles are addresses: of libusb devices, then of the virtual devices.
DemoHandle == MaxPlugs + 1
FileHandles == (DemoHandle + 1)..(DemoHandle + MaxFiles)

Plugged(h) == h >= DemoHandle \/ h \in bus
HandleOf(i) == insts[i].handle
Listed(h) == {i \in list : HandleOf(i) = h}
ActiveHandle == IF active = None THEN None ELSE HandleOf(active)

HotPC == {"poll", "usb", "attach", "append", "attached", "detach", "take",
          "unlist", "detached", "count", "trans", "reopen", "ending", "ended"}
ColPC == {"none", "start", "check", "run", "end", "clear", "last", "exited"}
UiPC  == {"idle", "open", "remove", "join", "close", "append",
          "exit", "joinHot", "destroy", "wait", "gone"}

HotAt(pc) == hot.pc = pc
HotGoto(pc) == hot' = [hot EXCEPT !.pc = pc]
ColAt(pc) == col.pc = pc
ColGoto(pc) == col' = [col EXCEPT !.pc = pc]
UiAt(pc) == ui.pc = pc
UiGoto(pc) == ui' = [ui EXCEPT !.pc = pc]

First(S) == CHOOSE i \in S : \A j \in S : i <= j

NoThread == [pc |-> "none", dev |-> None, error |-> FALSE]
Idle == [pc |-> "idle", op |-> "none", arg |-> None, found |-> {}]
MayCall(op) == UiAt("idle") /\ op \in UserOps

Fresh(h) == [handle |-> h, unit |-> owner[h], open |-> FALSE, freed |-> FALSE]

\* ds_lib_init: the demo device and what the first scan finds; libusb then
\* reports the instruments that are already there.
Init ==
    /\ \E n \in 0..MaxPlugs :
          /\ owner \in {o \in [1..n -> Units] : IsInjective(o)}
          /\ bus = 1..n
          /\ insts = <<[handle |-> DemoHandle, unit |-> "demo", open |-> FALSE, freed |-> FALSE]>>
                     \o [i \in 1..n |-> Fresh(i)]
          /\ list = 1..(n + 1)
          /\ hotflags = [attach |-> n > 0, detach |-> FALSE, waiting |-> FALSE,
                         times |-> 0, handle |-> None, reopen |-> FALSE]
    /\ usbq = <<>>
    /\ active = None /\ delay = FALSE
    /\ hot = [pc |-> "poll", found |-> {}, arg |-> None]
    /\ col = NoThread
    /\ session = [state |-> "none", stop |-> FALSE]
    /\ collecting = FALSE /\ byDetach = FALSE /\ events = 0
    /\ ui = Idle

-----------------------------------------------------------------------------
(* The world.                                                              *)

Plug(u) ==
    /\ Len(owner) < MaxPlugs
    /\ \A h \in bus : owner[h] # u
    /\ owner' = Append(owner, u)
    /\ bus' = bus \cup {Len(owner')}
    /\ usbq' = Append(usbq, [event |-> "attach", handle |-> Len(owner')])
    /\ UNCHANGED <<devices, hotflags, hot, capture, events, ui>>

Unplug(h) ==
    /\ h \in bus
    /\ bus' = bus \ {h}
    /\ usbq' = Append(usbq, [event |-> "detach", handle |-> h])
    /\ UNCHANGED <<owner, devices, hotflags, hot, capture, events, ui>>

-----------------------------------------------------------------------------
(* Devices: destroy_, close_ and open_device_instance.                     *)

Close(f, S) == [i \in DOMAIN f |-> IF i \in S THEN [f[i] EXCEPT !.open = FALSE] ELSE f[i]]
Destroy(f, S) ==
    [i \in DOMAIN f |-> IF i \in S THEN [f[i] EXCEPT !.open = FALSE, !.freed = TRUE] ELSE f[i]]

\* Only a device that is there and not open yet can be opened, and even then it
\* may fail.  Whether the instance was destroyed nobody looks at.
CanOpen(f, i) == Plugged(f[i].handle) /\ ~f[i].open
Opened(f, i) == [f EXCEPT ![i].open = TRUE]
Openings(f, i) == {f} \cup {g \in {Opened(f, i)} : CanOpen(f, i)}

\* Mutant of AppendFound: what is listed is not looked up.
AppendFoundAgain(found) ==
    \E new \in SetToSeqs(found) :
        /\ insts' = insts \o [k \in DOMAIN new |-> Fresh(new[k])]
        /\ list' = list \cup ((Len(insts) + 1)..(Len(insts) + Len(new)))
        /\ UNCHANGED <<active, delay>>

\* process_attach_event, under the mutex: what the scan found is appended
\* unless its handle is listed.
AppendFound(found) ==
    \E new \in SetToSeqs({h \in found : Listed(h) = {}}) :
        /\ insts' = insts \o [k \in DOMAIN new |-> Fresh(new[k])]
        /\ list' = list \cup ((Len(insts) + 1)..(Len(insts) + Len(new)))
        /\ UNCHANGED <<active, delay>>

\* sr_session_stop: the request is kept, and a running session ends.
RequestStop ==
    session' = [state |-> IF session.state = "running" THEN "stopping" ELSE session.state,
                stop  |-> TRUE]

-----------------------------------------------------------------------------
(* The application thread.                                                 *)

\* Mutant of Activate: the old device is left open.
ActivateLeavesOpen(h) ==
    /\ MayCall("activate") /\ ~collecting
    /\ LET kept == IF delay THEN None ELSE active
           left == IF delay THEN Destroy(insts, {active}) ELSE insts
           back == IF kept # None THEN kept ELSE First(list)
       IN  \/ /\ Listed(h) = {}
              /\ insts' = left /\ active' = kept
           \/ /\ Listed(h) # {} /\ CanOpen(left, First(Listed(h)))
              /\ insts' = Opened(left, First(Listed(h)))
              /\ active' = First(Listed(h))
           \/ /\ Listed(h) # {}
              /\ insts' \in Openings(left, back) /\ active' = back
    /\ delay' = FALSE
    /\ UNCHANGED <<world, list, hotflags, hot, capture, events, ui>>

\* ds_active_device, all of it under the mutex: the active device is closed, or
\* destroyed if that was put off; when the one asked for does not open, the old
\* one or the first is opened instead.  A handle that is not listed leaves the
\* old device active and closed.
Activate(h) ==
    /\ MayCall("activate") /\ ~collecting
    /\ LET kept == IF delay THEN None ELSE active
           left == IF delay THEN Destroy(insts, {active}) ELSE Close(insts, {active})
           back == IF kept # None THEN kept ELSE First(list)
       IN  \/ /\ Listed(h) = {}
              /\ insts' = left /\ active' = kept
           \/ /\ Listed(h) # {} /\ CanOpen(left, First(Listed(h)))
              /\ insts' = Opened(left, First(Listed(h)))
              /\ active' = First(Listed(h))
           \/ /\ Listed(h) # {}
              /\ insts' \in Openings(left, back) /\ active' = back
    /\ delay' = FALSE
    /\ UNCHANGED <<world, list, hotflags, hot, capture, events, ui>>

\* Mutant of OpenFile: the new device is not the last of the list.
OpenFileBeyond(h) ==
    /\ MayCall("file")
    /\ \A i \in DOMAIN insts : HandleOf(i) # h
    /\ insts' = Append(insts, [handle |-> h, unit |-> "file", open |-> FALSE, freed |-> FALSE])
    /\ list' = list \cup {Len(insts') + 1}
    /\ UNCHANGED <<world, active, delay, hotflags, hot, capture, events, ui>>

\* ds_device_from_file: a virtual device is appended to the list.
OpenFile(h) ==
    /\ MayCall("file")
    /\ \A i \in DOMAIN insts : HandleOf(i) # h
    /\ insts' = Append(insts, [handle |-> h, unit |-> "file", open |-> FALSE, freed |-> FALSE])
    /\ list' = list \cup {Len(insts')}
    /\ UNCHANGED <<world, active, delay, hotflags, hot, capture, events, ui>>

\* ds_remove_device, which DSView calls for virtual devices: refused for the
\* device that is collecting.  A device whose destruction was put off is
\* destroyed before the mutex is taken ...
RemoveDevice(h) ==
    /\ MayCall("file") /\ Listed(h) # {}
    /\ ~(ActiveHandle = h /\ collecting)
    /\ IF ActiveHandle = h /\ delay
          THEN insts' = Destroy(insts, {active}) /\ active' = None /\ delay' = FALSE
          ELSE UNCHANGED <<insts, active, delay>>
    /\ ui' = [Idle EXCEPT !.pc = "remove", !.arg = h]
    /\ UNCHANGED <<world, list, hotflags, hot, capture, events>>

\* Mutant of RemoveListed: the removed device stays the active one.
RemoveListedStaysActive ==
    /\ UiAt("remove")
    /\ \/ Listed(ui.arg) = {} /\ UNCHANGED devices
       \/ /\ Listed(ui.arg) # {}
          /\ LET i == First(Listed(ui.arg))
             IN  /\ list' = list \ {i}
                 /\ UNCHANGED active
                 /\ insts' = Destroy(insts, {i})
          /\ UNCHANGED delay
    /\ ui' = Idle
    /\ UNCHANGED <<world, hotflags, hot, capture, events>>

\* ... and a listed one under it.
RemoveListed ==
    /\ UiAt("remove")
    /\ \/ Listed(ui.arg) = {} /\ UNCHANGED devices
       \/ /\ Listed(ui.arg) # {}
          /\ LET i == First(Listed(ui.arg))
             IN  /\ list' = list \ {i}
                 /\ active' = IF i = active THEN None ELSE active
                 /\ insts' = Destroy(insts, {i})
          /\ UNCHANGED delay
    /\ ui' = Idle
    /\ UNCHANGED <<world, hotflags, hot, capture, events>>

\* ds_start_collect: join the thread of the last capture, make a new session ...
StartCollect ==
    /\ MayCall("start")
    /\ ~collecting /\ active # None
    /\ col.pc \in {"none", "exited"}
    /\ col' = NoThread
    /\ session' = [state |-> "new", stop |-> FALSE]
    /\ ui' = [Idle EXCEPT !.pc = "open", !.arg = active]
    /\ UNCHANGED <<world, devices, hotflags, hot, collecting, byDetach, events>>

\* ... open the device unless it is open, and start the collect thread.
OpenForCollect ==
    /\ UiAt("open")
    /\ insts' \in Openings(insts, ui.arg)
    /\ IF insts'[ui.arg].open
          THEN collecting' = TRUE /\ col' = [NoThread EXCEPT !.pc = "start"]
          ELSE UNCHANGED <<collecting, col>>
    /\ ui' = Idle
    /\ UNCHANGED <<world, list, active, delay, hotflags, hot, session, byDetach, events>>

\* ds_stop_collect, also as the first part of ds_release_actived_device and
\* ds_lib_exit: ask the session to stop and join the thread.
StopCollect(op) ==
    /\ MayCall(op) /\ op \in {"stop", "release", "exit"}
    /\ op = "release" => active # None
    /\ IF collecting /\ (op = "stop" \/ active # None) THEN RequestStop ELSE UNCHANGED session
    /\ ui' = [Idle EXCEPT !.op = op,
                          !.pc = IF op = "exit" /\ active = None THEN "exit"
                                 ELSE IF ColAt("none") THEN "close" ELSE "join"]
    /\ UNCHANGED <<world, devices, hotflags, hot, col, collecting, byDetach, events>>

JoinCollect ==
    /\ UiAt("join") /\ ColAt("exited")
    /\ col' = NoThread
    /\ UiGoto("close")
    /\ UNCHANGED <<world, devices, hotflags, hot, session, collecting, byDetach, events>>

\* The rest of ds_release_actived_device.
CloseActive ==
    /\ UiAt("close")
    /\ IF ui.op = "stop" THEN UNCHANGED <<insts, session>>
       ELSE /\ insts' = Close(insts, {active})
            /\ session' = [session EXCEPT !.state = "none"]
    /\ ui' = IF ui.op = "exit" THEN [ui EXCEPT !.pc = "exit"] ELSE Idle
    /\ UNCHANGED <<world, list, active, delay, hotflags, hot, col, collecting, byDetach, events>>

\* ds_close_all_device before the computer sleeps, after the capture of an
\* instrument was stopped ...
Sleep ==
    /\ MayCall("power")
    /\ collecting => ActiveHandle > MaxPlugs
    /\ insts' = Close(insts, {i \in list : HandleOf(i) <= MaxPlugs})
    /\ UNCHANGED <<world, list, active, delay, hotflags, hot, capture, events, ui>>

\* ... and ds_reload_device_list when it wakes: forget what was pending, scan ...
Wake ==
    /\ MayCall("power")
    /\ delay' = FALSE
    /\ hotflags' = [hotflags EXCEPT !.handle = None, !.detach = FALSE]
    /\ ui' = [Idle EXCEPT !.pc = "append", !.found = bus]
    /\ UNCHANGED <<world, insts, list, active, hot, capture, events>>

\* ... and list what is new.
WakeAppend ==
    /\ UiAt("append")
    /\ AppendFound(ui.found)
    /\ ui' = Idle
    /\ UNCHANGED <<world, hotflags, hot, capture, events>>

\* ds_lib_exit: no more hotplug callbacks, tell the hotplug thread to end ...
ExitHotplug ==
    /\ UiAt("exit")
    /\ UiGoto("joinHot")
    /\ UNCHANGED <<world, devices, hotflags, hot, capture, events>>

\* ... join it ...
ExitJoin ==
    /\ UiAt("joinHot") /\ HotAt("ended")
    /\ UiGoto("destroy")
    /\ UNCHANGED <<world, devices, hotflags, hot, capture, events>>

\* Mutant of ExitDestroy: the device whose destruction was put off is forgotten.
ExitDestroyListed ==
    /\ UiAt("destroy")
    /\ insts' = Destroy(insts, list)
    /\ active' = IF delay THEN None ELSE active
    /\ delay' = FALSE /\ list' = {}
    /\ UiGoto("wait")
    /\ UNCHANGED <<world, hotflags, hot, capture, events>>

\* ... destroy every device ...
ExitDestroy ==
    /\ UiAt("destroy")
    /\ insts' = Destroy(insts, list \cup (IF delay THEN {active} ELSE {}))
    /\ active' = IF delay THEN None ELSE active
    /\ delay' = FALSE /\ list' = {}
    /\ UiGoto("wait")
    /\ UNCHANGED <<world, hotflags, hot, capture, events>>

\* ... and wait for the event threads.
ExitDone ==
    /\ UiAt("wait") /\ events = 0
    /\ UiGoto("gone")
    /\ UNCHANGED <<world, devices, hotflags, hot, capture, events>>

Exiting == ui.pc \in {"joinHot", "destroy", "wait", "gone"}

-----------------------------------------------------------------------------
(* hotplug_event_listen_callback, in the thread that dispatches USB.       *)

\* An instrument arrived.  While a reconnection is awaited it takes over the
\* instance of the one that left, which is closed and, if it is active, will be
\* opened again; otherwise it is a new device.
Attached(h) ==
    LET back == hotflags.waiting /\ Listed(hotflags.handle) # {}
        i    == First(Listed(hotflags.handle))
    IN  /\ IF back
              THEN insts' = [insts EXCEPT ![i].handle = h,
                                          ![i].open = (i # active) /\ insts[i].open]
              ELSE UNCHANGED insts
        /\ hotflags' = [hotflags EXCEPT
                          !.attach = hotflags.attach \/ ~back,
                          !.waiting = FALSE,
                          !.handle = IF hotflags.waiting THEN None ELSE hotflags.handle,
                          !.reopen = hotflags.reopen \/ (back /\ i = active)]
        /\ UNCHANGED <<session, byDetach>>

\* Mutant of Detached: the capture goes on.
DetachedGoesOn(h) ==
    /\ IF ActiveHandle = h /\ collecting
          THEN byDetach' = TRUE /\ UNCHANGED session
          ELSE UNCHANGED <<byDetach, session>>
    /\ hotflags' = [hotflags EXCEPT !.waiting = TRUE, !.times = 0, !.handle = h]
    /\ UNCHANGED insts

\* An instrument left: stop its capture, and wait for it to come back.
Detached(h) ==
    /\ IF ActiveHandle = h /\ collecting
          THEN byDetach' = TRUE /\ RequestStop
          ELSE UNCHANGED <<byDetach, session>>
    /\ hotflags' = [hotflags EXCEPT !.waiting = TRUE, !.times = 0, !.handle = h]
    /\ UNCHANGED insts

Callback ==
    /\ usbq # <<>> /\ ~Exiting
    /\ LET n == Head(usbq)
       IN  IF n.event = "attach" THEN Attached(n.handle) ELSE Detached(n.handle)
    /\ usbq' = Tail(usbq)
    /\ UNCHANGED <<owner, bus, list, active, delay, hot, col, collecting, events, ui>>

\* In the application's thread: while a call of it scans, or opens or configures
\* an instrument.
UiCallback ==
    /\ \/ UiAt("append")
       \/ /\ UiAt("open") \/ MayCall("activate")
          /\ \E i \in (list \cup {active}) \ {None} : HandleOf(i) <= MaxPlugs
    /\ Callback

-----------------------------------------------------------------------------
(* The hotplug thread: usb_hotplug_process_proc.                           *)

\* Mutant of HotPoll: the exit flag is not looked at.
HotPollForever ==
    /\ HotAt("poll")
    /\ HotGoto(IF collecting THEN "attach" ELSE "usb")
    /\ UNCHANGED <<world, devices, hotflags, capture, events, ui>>

\* "Acquisition owns USB dispatch until all transfers have drained."
HotPoll ==
    /\ HotAt("poll")
    /\ HotGoto(IF Exiting THEN "ending" ELSE IF collecting THEN "attach" ELSE "usb")
    /\ UNCHANGED <<world, devices, hotflags, capture, events, ui>>

\* In the hotplug thread: while it polls, scans or opens.
HotCallback == hot.pc \in {"usb", "append", "reopen"} /\ Callback

HotPolled ==
    /\ HotAt("usb") /\ (usbq = <<>> \/ Exiting \/ collecting)
    /\ HotGoto("attach")
    /\ UNCHANGED <<world, devices, hotflags, capture, events, ui>>

\* process_attach_event: look at the bus ...
HotScan ==
    /\ HotAt("attach") /\ hotflags.attach
    /\ hot' = [hot EXCEPT !.pc = "append", !.found = bus]
    /\ UNCHANGED <<world, devices, hotflags, capture, events, ui>>

\* ... and list what is new.
HotAppend ==
    /\ HotAt("append")
    /\ AppendFound(hot.found)
    /\ events' = IF list' # list THEN events + 1 ELSE events
    /\ hot' = [hot EXCEPT !.pc = "attached", !.found = {}]
    /\ UNCHANGED <<world, hotflags, capture, ui>>

HotAttached ==
    /\ HotAt("attached")
    /\ hotflags' = [hotflags EXCEPT !.attach = FALSE]
    /\ HotGoto("detach")
    /\ UNCHANGED <<world, devices, capture, events, ui>>

\* process_detach_event: take the handle ...
HotDetach ==
    /\ HotAt("detach") \/ (HotAt("attach") /\ ~hotflags.attach)
    /\ hot' = IF ~hotflags.detach THEN [hot EXCEPT !.pc = "count"]
              ELSE IF hotflags.handle = None THEN [hot EXCEPT !.pc = "detached"]
              ELSE [hot EXCEPT !.pc = "take", !.arg = hotflags.handle]
    /\ UNCHANGED <<world, devices, hotflags, capture, events, ui>>

HotTake ==
    /\ HotAt("take")
    /\ hotflags' = [hotflags EXCEPT !.handle = None]
    /\ HotGoto("unlist")
    /\ UNCHANGED <<world, devices, capture, events, ui>>

\* Mutant of HotUnlist: the destruction of the active device is not put off.
HotUnlistAtOnce ==
    /\ HotAt("unlist")
    /\ \/ Listed(hot.arg) = {} /\ UNCHANGED <<devices, events>>
       \/ /\ Listed(hot.arg) # {}
          /\ LET i == First(Listed(hot.arg))
             IN  /\ list' = list \ {i}
                 /\ delay' = (delay \/ i = active)
                 /\ insts' = Destroy(insts, {i})
          /\ events' = events + 1
          /\ UNCHANGED active
    /\ hot' = [hot EXCEPT !.pc = "detached", !.arg = None]
    /\ UNCHANGED <<world, hotflags, capture, ui>>

\* Mutant of HotUnlist: any detached device raises the flag.
HotUnlistAlwaysDelays ==
    /\ HotAt("unlist")
    /\ \/ Listed(hot.arg) = {} /\ UNCHANGED <<devices, events>>
       \/ /\ Listed(hot.arg) # {}
          /\ LET i == First(Listed(hot.arg))
             IN  /\ list' = list \ {i}
                 /\ delay' = TRUE
                 /\ insts' = IF i = active THEN insts ELSE Destroy(insts, {i})
          /\ events' = events + 1
          /\ UNCHANGED active
    /\ hot' = [hot EXCEPT !.pc = "detached", !.arg = None]
    /\ UNCHANGED <<world, hotflags, capture, ui>>

\* Mutant of HotUnlist: an inactive device is not destroyed.
HotUnlistKeeps ==
    /\ HotAt("unlist")
    /\ \/ Listed(hot.arg) = {} /\ UNCHANGED <<devices, events>>
       \/ /\ Listed(hot.arg) # {}
          /\ LET i == First(Listed(hot.arg))
             IN  /\ list' = list \ {i}
                 /\ delay' = (delay \/ i = active)
                 /\ UNCHANGED insts
          /\ events' = events + 1
          /\ UNCHANGED active
    /\ hot' = [hot EXCEPT !.pc = "detached", !.arg = None]
    /\ UNCHANGED <<world, hotflags, capture, ui>>

\* ... and under the mutex take its device off the list.  The destruction of the
\* active device is put off.
HotUnlist ==
    /\ HotAt("unlist")
    /\ \/ Listed(hot.arg) = {} /\ UNCHANGED <<devices, events>>
       \/ /\ Listed(hot.arg) # {}
          /\ LET i == First(Listed(hot.arg))
             IN  /\ list' = list \ {i}
                 /\ delay' = (delay \/ i = active)
                 /\ insts' = IF i = active THEN insts ELSE Destroy(insts, {i})
          /\ events' = events + 1
          /\ UNCHANGED active
    /\ hot' = [hot EXCEPT !.pc = "detached", !.arg = None]
    /\ UNCHANGED <<world, hotflags, capture, ui>>

HotDetached ==
    /\ HotAt("detached")
    /\ hotflags' = [hotflags EXCEPT !.detach = FALSE]
    /\ HotGoto("count")
    /\ UNCHANGED <<world, devices, capture, events, ui>>

\* Mutant of HotCount: the time-out forgets the detach event.
HotCountForgets ==
    /\ HotAt("count")
    /\ IF hotflags.waiting
          THEN LET late == hotflags.times + 1 = Reconnect
               IN  hotflags' = [hotflags EXCEPT !.times = hotflags.times + 1,
                                                !.waiting = ~late,
                                                !.detach = hotflags.detach]
          ELSE UNCHANGED hotflags
    /\ HotGoto("trans")
    /\ UNCHANGED <<world, devices, capture, events, ui>>

\* 100 ms later: an instrument that has not come back in time has left.
HotCount ==
    /\ HotAt("count")
    /\ IF hotflags.waiting
          THEN LET late == hotflags.times + 1 = Reconnect
               IN  hotflags' = [hotflags EXCEPT !.times = hotflags.times + 1,
                                                !.waiting = ~late,
                                                !.detach = hotflags.detach \/ late]
          ELSE UNCHANGED hotflags
    /\ HotGoto("trans")
    /\ UNCHANGED <<world, devices, capture, events, ui>>

\* A transaction asks to reopen the active device, which is read here ...
HotTrans ==
    /\ HotAt("trans")
    /\ hotflags' = [hotflags EXCEPT !.reopen = FALSE]
    /\ hot' = IF hotflags.reopen /\ active # None
                THEN [hot EXCEPT !.pc = "reopen", !.arg = active]
                ELSE [hot EXCEPT !.pc = "poll"]
    /\ UNCHANGED <<world, devices, capture, events, ui>>

\* ... and opened there, without the mutex.
HotReopen ==
    /\ HotAt("reopen")
    /\ insts' \in Openings(insts, hot.arg)
    /\ hot' = [hot EXCEPT !.pc = "poll", !.arg = None]
    /\ UNCHANGED <<world, list, active, delay, hotflags, capture, events, ui>>

HotEnd ==
    /\ HotAt("ending") /\ events = 0
    /\ HotGoto("ended")
    /\ UNCHANGED <<world, devices, hotflags, capture, events, ui>>

-----------------------------------------------------------------------------
(* The collect thread: collect_run_proc.                                   *)

\* dsl_core_session_start of the active device: the session runs, unless the
\* device fails to start ...
ColStart ==
    /\ ColAt("start")
    /\ \/ /\ insts[active].open /\ Plugged(ActiveHandle)
          /\ session' = [session EXCEPT !.state = "running"]
          /\ col' = [col EXCEPT !.pc = "check", !.dev = active]
       \/ /\ col' = [col EXCEPT !.pc = "end", !.dev = active, !.error = TRUE]
          /\ UNCHANGED session
    /\ UNCHANGED <<world, devices, hotflags, hot, collecting, byDetach, events, ui>>

\* Mutant of ColCheck: an early stop is not repeated.
ColCheckForgets ==
    /\ ColAt("check")
    /\ session' = [session EXCEPT !.state = @]
    /\ ColGoto("run")
    /\ UNCHANGED <<world, devices, hotflags, hot, collecting, byDetach, events, ui>>

\* ... and a stop that came too early is repeated.
ColCheck ==
    /\ ColAt("check")
    /\ session' = [session EXCEPT !.state = IF session.stop THEN "stopping" ELSE @]
    /\ ColGoto("run")
    /\ UNCHANGED <<world, devices, hotflags, hot, collecting, byDetach, events, ui>>

\* In the collect thread: while it starts the device, and while it runs.
ColCallback == col.pc \in {"start", "run"} /\ Callback

\* sr_session_run returns: it was stopped, or the capture is complete or failed.
ColRunEnd ==
    /\ ColAt("run")
    /\ \E error \in BOOLEAN : col' = [col EXCEPT !.pc = "end", !.error = error]
    /\ UNCHANGED <<world, devices, hotflags, hot, session, collecting, byDetach, events, ui>>

ColEnd ==
    /\ ColAt("end")
    /\ events' = IF ~col.error /\ byDetach THEN events + 1 ELSE events
    /\ ColGoto("clear")
    /\ UNCHANGED <<world, devices, hotflags, hot, session, collecting, byDetach, ui>>

ColClear ==
    /\ ColAt("clear")
    /\ byDetach' = FALSE
    /\ ColGoto("last")
    /\ UNCHANGED <<world, devices, hotflags, hot, session, collecting, events, ui>>

ColLast ==
    /\ ColAt("last")
    /\ collecting' = FALSE
    /\ col' = [NoThread EXCEPT !.pc = "exited"]
    /\ UNCHANGED <<world, devices, hotflags, hot, session, byDetach, events, ui>>

\* post_event_proc: an event was delivered.
EventDone ==
    /\ events > 0
    /\ events' = events - 1
    /\ UNCHANGED <<world, devices, hotflags, hot, capture, ui>>

-----------------------------------------------------------------------------
World == (\E u \in Units : Plug(u)) \/ (\E h \in bus : Unplug(h))

\* The application knows the handles that ds_get_device_list ever gave it.
UiCalls ==
    \/ \E i \in DOMAIN insts : Activate(HandleOf(i))
    \/ \E h \in FileHandles : OpenFile(h) \/ RemoveDevice(h)
    \/ StartCollect \/ Sleep \/ Wake \/ UiCallback
    \/ \E op \in {"stop", "release", "exit"} : StopCollect(op)

UiStep ==
    \/ RemoveListed \/ OpenForCollect \/ JoinCollect \/ CloseActive \/ WakeAppend
    \/ ExitHotplug \/ ExitJoin \/ ExitDestroy \/ ExitDone

HotStep ==
    \/ HotPoll \/ HotCallback \/ HotPolled \/ HotScan \/ HotAppend
    \/ HotAttached \/ HotDetach \/ HotTake \/ HotUnlist \/ HotDetached \/ HotCount
    \/ HotTrans \/ HotReopen \/ HotEnd

ColStep ==
    \/ ColStart \/ ColCheck \/ ColCallback \/ ColEnd \/ ColClear \/ ColLast
    \/ (session.state = "stopping" /\ ColRunEnd)

Next == World \/ UiCalls \/ UiStep \/ HotStep \/ ColStep \/ ColRunEnd \/ EventDone

Spec == Init /\ [][Next]_vars

\* The threads run.  What the user and the instruments do is up to them, and a
\* capture need not end by itself.
FairSpec ==
    /\ Spec
    /\ WF_vars(UiStep) /\ WF_vars(HotStep) /\ WF_vars(ColStep) /\ WF_vars(EventDone)

-----------------------------------------------------------------------------
(* Properties.                                                             *)

\* The variables hold values of their types.
TypeOK ==
    /\ owner \in Seq(Units) /\ Len(owner) <= MaxPlugs
    /\ bus \subseteq 1..Len(owner)
    /\ usbq \in Seq([event : {"attach", "detach"}, handle : 1..MaxPlugs])
    /\ insts \in Seq([handle : 1..(DemoHandle + MaxFiles), unit : Units \cup {"demo", "file"},
                      open : BOOLEAN, freed : BOOLEAN])
    /\ list \subseteq DOMAIN insts
    /\ active \in {None} \cup DOMAIN insts
    /\ delay \in BOOLEAN
    /\ hotflags \in [attach : BOOLEAN, detach : BOOLEAN, waiting : BOOLEAN,
                     times : 0..Reconnect, handle : 0..MaxPlugs, reopen : BOOLEAN]
    /\ hot \in [pc : HotPC, found : SUBSET (1..MaxPlugs), arg : Nat]
    /\ col \in [pc : ColPC, dev : {None} \cup DOMAIN insts, error : BOOLEAN]
    /\ session \in [state : {"none", "new", "running", "stopping"}, stop : BOOLEAN]
    /\ collecting \in BOOLEAN /\ byDetach \in BOOLEAN
    /\ events \in Nat
    /\ ui \in [pc : UiPC, op : AllOps \cup {"none"}, arg : Nat, found : SUBSET (1..MaxPlugs)]

\* The device list and the active device never refer to a destroyed instance:
\* whoever destroys one takes it off both, in whatever order the application,
\* the hotplug thread and the callback come.
InUseIsLive ==
    /\ \A i \in list : ~insts[i].freed
    /\ active # None /\ ~Exiting => ~insts[active].freed

\* "Defer destruction until the capture worker exits": the device a capture runs
\* on stays the active one and is not destroyed.
CaptureKeepsDevice ==
    collecting => active # None /\ ~insts[active].freed /\ (col.dev # None => col.dev = active)

\* "The current device will be delayed for destruction": the flag is about the
\* active device, which is no longer listed.
DelayIsForActive == delay => active # None /\ active \notin list

\* Every instance that was not destroyed is listed, or its destruction is put off.
NoInstanceLost ==
    \A i \in DOMAIN insts : insts[i].freed \/ i \in list \/ (delay /\ i = active)

\* One libusb device has one entry in the list.
HandlesDistinct == \A i, j \in list : HandleOf(i) = HandleOf(j) => i = j

\* The device the application switched away from, released or removed is closed: a
\* device that is open without being the active one is one that the hotplug thread
\* has reopened after the application went on.
OpenedActive ==
    ~HotReopen =>
        \A i \in DOMAIN insts' :
            insts'[i].open /\ i # active' => i \in DOMAIN insts /\ insts[i].open /\ i # active
OnlyReopenStrays == [][OpenedActive]_vars

\* When ds_lib_exit returns no thread is left and every device is destroyed.
ExitLeavesNothing ==
    UiAt("gone") =>
        /\ HotAt("ended") /\ col.pc \in {"none", "exited"} /\ ~collecting /\ events = 0
        /\ \A i \in DOMAIN insts : insts[i].freed

\* ds_stop_collect, ds_release_actived_device and ds_lib_exit return, whenever in
\* the life of the collect thread they are called.
StopReturns == UiAt("join") ~> ~UiAt("join")
ExitReturns == UiAt("exit") ~> UiAt("gone")

\* The capture of an instrument that left ends, unless it came back.
DetachEndsCapture ==
    (collecting /\ ~Plugged(ActiveHandle)) ~> (~collecting \/ Plugged(ActiveHandle))

\* Captures do not follow each other for ever, and the library stays in use.
AtRest == <>[](~collecting /\ UiAt("idle"))

\* "Begin to wait the device reconnect, if timeout, will process the detach
\* event": an instrument that left is taken off the list.
DetachProcessed ==
    AtRest => \A h \in 1..MaxPlugs : (Listed(h) # {} /\ ~Plugged(h)) ~> Listed(h) = {}
=============================================================================
