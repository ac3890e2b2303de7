# DSView in TLA+

TLA+ models of DSView, the logic analyser, oscilloscope and data logger
front end for DreamSourceLab hardware, with TLC configurations and TLAPS proofs.
Paths are relative to the repository (`src/`).

## 1. The system

DSView is one process of cooperating threads over three libraries.

| component | source | state it keeps | operations |
|---|---|---|---|
| capture session | `DSView/pv/sigsession.cpp` | work/view data, `_is_working`, `_data_lock`, repeat and refresh timers, `_trigger_*` | start, stop, refresh, repeat, feed-in, device events, messages |
| decode task manager | `sigsession.cpp`, `view/decodetrace.cpp` | `_decode_traces`, `_decode_tasks`, `_is_decoding`, the decode thread | add, remove, reset, clear, take task |
| decoder stack | `data/decoderstack.cpp` | run state, stop flag, options, samples decoded, SPI/UART message tables | begin, stop, decode loop, append/finalize messages |
| protocol decoder library | `libsigrokdecode4DSL/` | decoder sessions, instances, `term/wait` conditions | session send/end/terminate, instance decode, `wait()` |
| device manager | `libsigrok4DSL/lib_main.c` | device list, active device, collect thread, hotplug thread, event threads | activate, remove, start/stop collect, hotplug, exit |
| core adapter | `libsigrok4DSL/core-adapter.c`, `sigrok/core.c` | the upstream session, device bindings, `stop_requested` | session new/start/run/stop/destroy, sources |
| USB transfer engine | `libsigrok4DSL/hardware/DSL/dsl.c` and `dslogic.c`, `dscope.c` | transfers in flight, `status`, `abort` | submit, receive, resubmit, cancel, finish |
| virtual devices | `hardware/demo/demo.c`, `session_driver.c` | playback position, packet buffers | start, receive, stop |
| sample snapshots | `data/{logic,analog,dso}snapshot.cpp` | ring of blocks, mipmap, counts | first payload, append, capture end, edge search |
| store and export | `storesession.cpp`, `ZipMaker.cpp` | progress, cancel flag, archive | save, export, cancel, wait |
| trigger settings | `libsigrok4DSL/trigger.c` | stages of probe patterns | set, get mask/value/edge |
| logger | `common/log/xlog.c` | receivers, level | add/remove receiver, log |
| CLI | `cli/dsview-cli.cpp` | completion flags, counters | capture, decode |
| views, docks, dialogs, toolbars | `DSView/pv/{view,dock,dialogs,toolbars,ui,widgets}` | presentation | |
| decoder scripts | `libsigrokdecode4DSL/decoders/` | the attributes of each script's `Decoder` object | `decode()`, `end()`, `reset()` |

How they meet:

- The **UI thread** runs every user operation, the Qt timers and the messages
  other threads post to it.
- The **collect thread** (`collect_run_proc`) runs the upstream session loop; it
  calls the driver callbacks, and these call `SigSession::data_feed_in`.
  `data_feed_in` holds `_data_mutex`; it starts decoders and posts messages.
- The **decode thread** (`decode_task_proc`) runs one decoder stack after the
  other; a stack calls the protocol decoder library, whose every top instance
  has a Python **decoder thread** of its own.
- The **hotplug thread** watches USB, and **event threads** deliver device events.

What is hard in it: two threads write `_is_decoding`, one of them without the
mutex; `_decode_traces` is written by the UI thread and iterated by the feed
thread with no lock at all; deletion of a trace is split between the UI and the
decode thread; the UI thread waits for the decode thread, which waits for
samples; and the END of a capture travels to the UI thread as a message while
the next operation may already be under way.  In the decoder scripts it is the input: a
transfer may break off after any packet, and what a script has kept of it must not show
up in the next one.

What makes each part correct: a decode task is run once, by one thread, on objects
that live; a decoder script sees the capture as one stream, whatever the chunks,
and what it puts is in order, in the past and over what it shows;
a device instance that is listed, active or captured is alive, and each is destroyed
once; a capture that is stopped, or whose instrument leaves, ends and says so; calls
that join a thread return.

## 2. Modules

### `DecodeTasks.tla` - the decode task manager

State: the queue (`tasks`), the flag (`isDecoding`) and the decode thread
(`dec`), the run state of every stack (`running`, `bStop`, `optChanged`,
`captureEnd`), the life of the trace objects (`traces`, `freed`, `deleteFlag`),
the locks and flags of the capture (`dataMutex`, `dataLock`, `haveData`, `feed`,
`trigDecode`, `isWorking`), the messages it leaves for the UI thread (`endMsg`,
`trigErr`) and the UI thread (`ui`).

A section under `_decode_task_mutex` is one action, and so is every access to
shared state outside of it; a thread's position is its program counter.  The
joins of the code (`add_decode_task`, `clear_all_decode_task`,
`ds_stop_collect`) are guards: the caller does not move until the other thread
is gone.

- UI thread: `AddDecoder`, `RemoveDecoder`/`UiReadRunning`/`UiRemoveTask`/`UiFree`,
  `RstDecoder`/`UiRemoveTask`/`UiRearm`/`UiEnqueue`, `ClearAllDecoder`,
  `StartCapture`, `Refresh` and the END handler, which share
  `UiClear`/`UiScanTrace`/`UiJoin` (`clear_all_decode_task`) and go on with
  `UiMark` or `UiWipe`; `StopCapture`/`UiStopJoin`; `FeedTimeout`.
- feed thread: `FeedFrame`, `FeedFrameTrace`, `FeedBadTrigger`, `FeedEnd`,
  `FeedEndTrace`, `FeedSkip`, `FeedUnlock`, `TaskEnd`.
- decode thread: `DecTop` (`get_top_decode_task`), `DecCheck`, `DecBegin`,
  `DecStatus`, `DecOptions`, the loop of `decode_data` (`DecStopped`, `DecNoData`,
  `DecReady`, `DecRead`, `DecComplete`), `DecDone`, `DecRecheck`, `DecLeave`.

Abstractions: sample values and decoder results are not in the model; a snapshot
holds samples or none (`haveData`).  `decode_data` is a loop of two steps: it finds that
there are samples (`DecReady`), and it reads and decodes a chunk of them (`DecRead`, or
`DecComplete` for the last one); once it has adjusted its end to an ended capture it
relies on that (`tail`).  The scan of `clear_all_decode_task` visits the traces one by one,
in any order.  A DSO frame may leave the data locked (`LockAfterFrame`, `data_lock()` at
the end of a packet that is not of an instant capture).  A bad trigger packet is
`FeedBadTrigger`: only the error is posted, and END follows with an error.  An overflow and
a snapshot without memory end a capture like the user does (`StopCapture`).  A repeated or
triggered DSO capture is a feed thread that may deliver any number of frames.  `MaxTasks`
bounds the queue length at which a producer may start; a producer that has started queues
all its traces.

Properties: the thread flag agrees with the thread (`FlagMatchesThread`), one
stack runs at a time and only inside the thread (`DecodeRunsAlone`), results are
cleared in silence (`QuietWipe`), the samples the decode thread found are there
when it reads them (`SamplesThere`), no deleted trace is in the queue or
in the thread (`NoUseAfterFree`), no trace is queued twice (`QueuedOnce`), every
task is taken (`EveryTaskStarts`), the joins return (`ClearReturns`), the thread
ends when everything else is at rest (`DecodeSettles`).  The joins do not always return
(finding 3); `OrderlyClearReturns` and `DecodeSettles` are about the behaviours that are
`Orderly`: no capture fails, and no decoder is reset while one is at work.  `QuietWipe` is about the
results: `refresh` initialises the LOGIC snapshot before it joins the thread
(`sigsession.cpp:1065`), which is what `SamplesThere` is about.

### `DecoderInst.tla` - a decoder instance and its worker

`DecoderInst` is the hand-over of sample chunks between the thread that calls a
decoder session and the Python worker of the session's top instance
(`libsigrokdecode4DSL/instance.c`, `session.c`, `type_decoder.c`).  State: the
capture (`data`), the instance (`di`: chunk, flags, old pins, conditions), the
`wait()` in progress (`wait`), the worker and the caller.

- caller: `OpenSession`, `RejectChunk`, `SendChunk`/`PushChunk`/`CheckHandled`/`Sent`
  (`srd_session_send`), `SessionEnd`/`TakeGilForEnd`/`EndHook`
  (`ds_srd_session_end`), `Terminate`/`RequestTermination`/`JoinWorker`/`ResetInst`/
  `ResetDone` (`srd_session_terminate_reset`, `srd_session_destroy`);
- worker: `StartDecode`, `CallWait`, `Raise`, `Return`, `ReleaseGil`, `CheckGot`,
  `Scan`, `ReplyMatch`, `ReplyHandled`, `WorkerEnd`, `WorkerExit`;
- `WakeCaller` and `WakeWorker` are spurious wake-ups of the condition variables.

`data_mutex` is a variable of sorts (the worker holds it from its first look at
the chunk to its reply), the interpreter lock too.  The scan of a chunk up to the
next match is one step (`Scan`); `Hits` and `OldPin` are what `find_match` and
`process_samples_until_condition_match` compute with the pins kept from the sample
before and the skip counters.

`WaitConditions.tla` holds the meaning of one condition.  `SampleStream.tla` is
the **abstract specification**: one stream of samples, questions answered by the
first sample at which a condition holds, and no chunks, threads or buffers.
`DecoderInst` implements it: `Stream == INSTANCE SampleStream WITH given <- Given,
ask <- Asked`, and `ChunksInvisible == Stream!Spec`.

Abstractions: one channel, and lists of one-term conditions (a list is an OR);
one instance (stacked ones run inside the worker's callbacks); a script does not
swallow the failure of `wait()`; the session is called by one thread.
`MaxAgain` bounds how often in a row a script may ask for something that is
answered by the sample it already has.

### `DeviceManager.tla` - devices, hotplug and the collect thread

State: the world (`owner`, `bus`, `usbq`), every device instance ever made
(`insts`) with the list and the active one (`list`, `active`, `delay`), the flags
between libusb's callback and the hotplug thread (`hotflags`), the positions of
the hotplug, collect and application threads (`hot`, `col`, `ui`), the upstream
session and its stop request (`session`), `collecting`, `byDetach`, and the number
of event threads.

- world: `Plug`, `Unplug`;
- application: `Activate`, `OpenFile`, `RemoveDevice`/`RemoveListed`,
  `StartCollect`/`OpenForCollect`, `StopCollect`/`JoinCollect`/`CloseActive`
  (`ds_stop_collect`, and as its first part `ds_release_actived_device` and
  `ds_lib_exit`), `Sleep`, `Wake`/`WakeAppend`, `ExitHotplug`/`ExitJoin`/
  `ExitDestroy`/`ExitDone`;
- hotplug thread: `HotPoll` ... `HotEnd`, one action per section between two
  accesses to shared state of `usb_hotplug_process_proc`;
- collect thread: `ColStart` ... `ColLast`;
- `Callback`, libusb's hotplug callback, runs in whichever thread handles USB events:
  the hotplug thread while it polls, scans or reopens (`HotCallback`), the collect thread
  while it starts and runs the device (`ColCallback`), and the application's thread while
  it scans, or opens or configures an instrument, which synchronous control transfers
  do (`UiCallback`); `EventDone` ends an event thread.

Abstractions: a section under `lib_ctx.mutext` is one action and so is a run of
the callback, which therefore comes before or after a section that opens a device (that the
code may lock itself out there is a hazard of its own); handles, which are addresses in the
code, are never reused; opening a device may fail, and a device that is open or unplugged
cannot be opened, while nobody looks whether it was destroyed;
one application thread calls the API, in any order; the callbacks an event
thread runs are DSView's and are not modelled here; one poll handles all pending
notifications before it returns; `ds_remove_device` is called for virtual devices,
which is all DSView does.

Properties: the list and the active device refer to no destroyed instance (`InUseIsLive`), a
capture keeps its device (`CaptureKeepsDevice`), a destruction is put off for the active
device only (`DelayIsForActive`), every step but the hotplug thread's reopening leaves no other
device open than the active one (`OnlyReopenStrays`), no handle is listed twice
(`HandlesDistinct`), no instance is lost (`NoInstanceLost`), nothing is left after
`ds_lib_exit` (`ExitLeavesNothing`); the calls that join a thread return (`StopReturns`,
`ExitReturns`), an instrument that leaves ends its capture (`DetachEndsCapture`) and is taken
off the list (`DetachProcessed`).  `MaxPlugs`, `MaxFiles` and `Reconnect` (the length of the
reconnect window, in rounds) are bounds.

### `DecoderScripts.tla` - the decoder scripts

The scripts that are stacked on another one (all but `spi_tpm`), and four that read
samples but step from clock edge to clock edge or from bus cycle to bus cycle: 67 of them.

`DecoderScript.tla` is what they share.  State: which script runs (`script`), the
attributes of its object that outlive a call (`pd`), where the layer below stands in its
grammar (`line`), how many packets it has handed over (`count`), and, of the last call,
the annotations (`put`) and how it ended (`outcome`); `tail` is where, in each row, the
annotations of the last call that put any there start.  Samples are counted in packets: packet n takes eight samples, so that
the bits of a byte have places of their own.  An annotation is its row, its span and the
bytes its text shows, each by the sample at which it was sent; the text itself is left out.
One call of `decode()` is one action: `Return` with new attributes and annotations, `Fail`
when the code raises, `Hang` when it never returns.  The library logs an exception and
hands the next packet over; what a script does after one is not followed.

| module | scripts |
|---|---|
| `I2CPackets` | grammar: what the I2C script hands over, in every order a bus can produce |
| `I2CRegisters` | rtc8564, ds1307, mxc6225xu, tca6408a, pca9571, nunchuk |
| `I2CDevices` | lm75, mlx90614, hdcp, ltc26x7, i2cfilter, i2cdemux |
| `I2CMemories` | eeprom24xx, xfp, atsha204a, edid |
| `SPIPackets` | grammar: bytes and chip select, with or without one, and whole transfers |
| `SPIRadios` | cc1101, st25r39xx_spi, nrf24l01, a7105 |
| `SPIMemories` | spiflash, sdcard_spi |
| `SPIRegisters` | mrf24j40, ade77xx, adns5020, max7219, adxl345, enc28j60 |
| `SPIChips` | nrf905, avr_isp, adf435x, ad79x0, ssi32, x2444m, ltc242x, nes_gamepad, rfm12, ad5626, rgb_led_spi |
| `UARTPackets` | grammar: frames, pauses, invalid frames and breaks |
| `UARTSerial`, `UARTBuses`, `UARTTrace` | midi, modbus, amulet_ascii; lin, sbus_futaba, pan1321, ufcs; arm_tpiu, arm_itm, arm_etmv3 |
| `Z80Script`, `USBScripts`, `OneWireScripts` | z80; usb_packet, usb_request; onewire_network, ds243x, ds2408, ds28ea00 |
| `JTAGScripts` | jtag, cjtag, cjtag-oscan0; jtag_ejtag and jtag_stm32 together with jtag, in the order in which its `put()` calls them |
| `LinkScripts` | pjon, sipi, eeprom93xx, ook_oregon, ook_vis, cfp |
| `DecoderRows` | the annotation rows every script declares |

`DecoderScripts` chooses a script and lets the layer below hand it anything of its
grammar.  Constants choose the inputs (`Slaves`, `Bytes`, `Runs`), the options and tables a
script depends on (`FilterOptions`, `EepChip`, `EdidDescriptors`, `EdidExtensionBlock`) and
the length of the behaviours (`MaxCalls`).

Properties, of what DSView does with annotations: they go to declared rows (`TypeOK`), start
in order within a row (`StartsInOrder`: the rows are searched by bisection), end after they
start and in the past (`SpansOfThePast`), lie over the bytes they show (`ShownInSpan`) and
apart from those put with them (`DrawnApart`); and nothing of a transfer is left when it has
ended (`FreshAtRest`, for the 22 scripts that keep nothing on purpose).

## 3. What TLC checks

Twelve runs; every property of a passing run has a mutant, a plausible bug in a
named definition that makes TLC find the property violated.

| run | instance | shows |
|---|---|---|
| `decode_tasks_dso` | DSO, 2 traces, all user operations, 3.7 million states | types, thread flag, one running stack, quiet wipe, the samples a decoder reads |
| `decode_tasks_idle` | no capture, 2 traces, queue of 2 | no use of a deleted trace, no double entry |
| `decode_tasks_settle` | a streamed LOGIC capture that may fail, resets, fair, 148,000 states | quiet wipe; unless a capture fails or a decoder is reset under one, joins return and the thread ends |
| `decode_tasks_stranded` | BUFFER mode, fair | **violated**: a task that nobody starts |
| `decode_tasks_remove` | add and remove | **violated**: a trace deleted under the thread |
| `decode_tasks_hang` | END with an error, 1 trace, fair | **violated**: a join that never returns |
| `decoder_stream` | every capture of 3 samples, every way to cut it, fair | the buffer's owner, success means consumed, no lost wake-up, one continuous stream, every call returns |
| `decoder_midstart` | sessions that start at sample 1 | **violated**: the first sample is skipped |
| `device_life` | 1 instrument plugged twice, capture, sleep and exit, 6.9 million states | no destroyed device in use, a capture keeps its device, only the reopening leaves an inactive device open |
| `device_returns` | 1 instrument, 1 file, reconnect window of 2, fair | one entry per handle, none lost, nothing left after exit; stop and exit return, unplugging ends a capture and is noticed |
| `device_overtaken` | 2 instruments, reconnect window of 2, fair | **violated**: the first of two detaches is forgotten |
| `decoder_scripts` | 67 scripts, up to 40 calls each, 301,000 states | rows, order, spans, contents and remains of what they put |

Bounds and why they are enough.  Two traces are one that is decoded and one that
waits or is removed; a third adds nothing the code distinguishes.  A queue of one
(two in `decode_tasks_idle`) still grows to three, because a frame queues every
trace.  Three samples are one before, at and after a chunk boundary, with skip
counts up to 2, so that a count, an edge and a `noedge` each span a boundary, and
empty chunks are included.  One instrument that is plugged in twice has two libusb
handles, which is what the reconnect window is about; two instruments are needed
only where they compete for it.  The window itself is 1 or 2 rounds (5 in the
code): what matters is that it can be open when the next event comes.  A script gets one
byte of every kind it tells apart at each place of a message, and enough calls for a
longest message and the beginning of the next one.

Fairness.  All threads are operating-system threads that are scheduled, hence weak
fairness of the steps of each of them.  What is *not* assumed: that a user does
anything, that an instrument is plugged or unplugged, that a DSO or device capture
ends by itself (`FeedEnd` in DSO mode and `ColRunEnd` are fair only once a stop was
asked for or the trigger failed; a LOGIC capture has a sample limit), that a condition variable wakes
spuriously, that a script ever calls `wait()` in a way that advances (hence
`MaxAgain`, without which `SendReturns` is false, as it should be).  The UI thread gets to the
error messages as to the others.  `DecComplete` is strongly fair, because a decoder has a
finite number of chunks to read: between two of them it is not enabled.  One that is fed in
real time reads its last chunk only after the capture's end was announced to it.

Scope of the liveness properties: `DetachProcessed` asks the library to come to rest
(`AtRest`), because scans are suspended as long as captures follow each other.

Larger instances.  With a second plug of the instrument and a wake-up `HandlesDistinct`
fails (a scan lists the newly attached instrument and the hotplug thread gives its handle to
the instance that is leaving); with power management `NoInstanceLost` and
`DetachProcessed` fail as well.  Their lines are hazards in `PROJECT.json`, and
`device_returns` is without the second plug and without sleep.  Section 5 has
`HandlesDistinct` and `NoInstanceLost` proved for any number of plugs, with what each of them takes.  An attach reported
during a scan is forgotten, but no property of the runs is about that.  `QueuedOnce` fails
when a decoder is reset during a streamed capture and in a DSO capture, `NoUseAfterFree`
with `remove` and with `clearAll` during a capture.  `SamplesThere` fails in a streamed
capture that ends with an error: `refresh` sets the sample count of the LOGIC snapshot to 0
(`sigsession.cpp:1065`) before it joins the decode thread, which may be between its look at
the count and `get_samples`; hence `decode_tasks_dso` and the assumption of
`SamplesThereCorrect`.  Without `Orderly`, a reset between the END message and the end of the
collect thread, or after a capture that ended before `start_capture` raised `_is_working`,
re-arms a stack as if the capture went on (`sigsession.cpp:1719`), and it polls for ever.  An
instrument that comes back within the reconnect window lets the hotplug thread open what it
read before (`lib_main.c:1540`): next to a session file TLC finds it opening an instance the
application has had destroyed in between.

### What the scripts do not keep

The sets `OutOfOrder`, `NotOfThePast`, `OutOfPlace` and `Overlaid` of `DecoderScripts` name
the rows in which TLC found a promise broken; the properties hold of all other rows.  Two
of the cases take more calls than the run allows, and were found by one run per script with
three times its calls: the second warning of eeprom24xx, which takes a page of nine bytes,
and the bits of cjtag-oscan0.

- **A later annotation starts earlier** (30 rows). A warning is put when a later packet
  shows it, over a span that began before: a7105, nrf24l01, max7219, z80. The fields of a
  word, a register or a scan are put in the order of a table or from the lowest bit on,
  which came last: adf435x, adxl345, ds1307 (`bits`), nunchuk and sdcard_spi, jtag_ejtag
  (control fields), jtag_stm32, ook_oregon in version 1. Something that is put late began
  early: the delayed texts of arm_itm, the word address eeprom24xx has kept, the `compare`
  row ook_vis fills in, a request of usb_request that was open while one of another endpoint
  ended, the pause modbus reports before the field it falls into, a header lin kept over a
  break, a first byte lm75 kept over a STOP, an access jtag_ejtag takes from a scan that had
  none, a field or section of edid whose reading was interrupted. A checksum that reaches
  into the data: usb_packet, of a packet with an odd number of bits. A warning with span 0
  to -1: ufcs (a wrong checksum).
- **A span ends before it starts, or in the future** (4 rows). The command of spiflash may
  take its end from an earlier one; `level2` of ook_vis runs backwards with an offset before
  the first bit; jtag_stm32 is handed a bit that ends at -1; ufcs as above.
- **A text shows bytes its span does not cover** (17 rows). Bytes of an earlier message:
  amulet_ascii (an address), arm_itm (a packet broken off by a pause), ds1307 (a date of
  which not all registers were seen), rtc8564 (the same, of a transfer that wrote none),
  edid (after a new offset), cjtag and cjtag-oscan0 (bits kept from before the activation),
  jtag_ejtag (an address of an earlier scan). Bytes next to it: xfp
  (flags a byte too early, characters all on the first byte), arm_tpiu (the lowest bit,
  which comes at the end of the frame), ufcs (eight bytes of a message that has fewer), z80
  (after `EX (SP),HL`, which takes bytes that are not its own).
- **Annotations of one call overlap in a row** (28 rows). The same span twice or more:
  amulet_ascii, avr_isp, jtag_ejtag (`regs`), jtag_stm32 (`commands`: an ABORT scan always
  has a warning), lin (a break out of place), eeprom24xx (a page write that is too long and
  crosses a page has two warnings), lm75, edid, spiflash and st25r39xx_spi,
  pan1321, xfp. A whole and its parts: arm_etmv3, nrf905, ook_oregon in version 1,
  sbus_futaba, z80. One byte, bit or nibble too far: atsha204a, ook_vis, usb_packet. Two
  texts of arm_itm that were sent at the same time; modbus, jtag_stm32 (`fields`) and ufcs
  as above.

34 scripts raise on an input of their layer: a7105, amulet_ascii, arm_etmv3, arm_itm,
atsha204a, avr_isp, cc1101, edid, eeprom93xx, hdcp, i2cdemux, jtag_ejtag, jtag_stm32, lin,
ltc26x7, mrf24j40, mxc6225xu, nrf24l01, nrf905, ook_oregon, ook_vis, rfm12, rtc8564,
sdcard_spi, sipi, spiflash, ssi32, st25r39xx_spi, tca6408a, ufcs, usb_packet, usb_request,
x2444m, xfp: messages that are shorter than expected, register numbers beyond the last one, and
names that do not exist.  ltc26x7 loops for ever on an address below its lowest
(`ltc26x7/pd.py:84`); edid would on a data block of length 31, which the run's extension
block reaches only when it is already cut off.

Some things are in the model as the code does them and no property is about them.  jtag
hands over one bit position more than bits and announces UPDATE-DR before the bits of the
scan (`jtag/pd.py:212`): jtag_ejtag finds no 32-bit scan of its control register and names
the scan before, unless the port paused.  Without a chip select the SPI script says so in
its first packet, and the radios and nrf905 raise on it.  hdcp passes over message numbers
from 20 on.  adxl345 joins a high byte with the low byte of an earlier transfer, rgb_led_spi
the bytes of two transfers.  An invalid frame silences sbus_futaba until a break.  pjon never
gets to the end checksum when the payload is empty.

tca6408a and pca9571 register an output of type `OUTPUT_LOGIC`, which the module the library
gives to scripts does not define (`module_sigrokdecode.c:60`): their `start()` always raises
and DSView cannot run them.  Their `decode()` is modelled as if `start()` had returned, without
the logic levels pca9571 hands to that output (`put_logic_states`).

What the layers below hand over is that of the scripts `1:spi`, `1:i2c`
and `1:uart`; those named `0:` hand nothing over.  The I2C script also warns of an incomplete
byte at every regular STOP and repeated START, which no stacked script looks at.
`UARTPackets` leaves out glitches (an invalid start bit with the invalid frame that follows).

Some declared rows never get an annotation in the model: st25r39xx_spi `status`, mrf24j40
`tx-retries-2` and `-3`, nrf905 `warnings`, ufcs `warnings` and `text`, arm_itm `location` and
`function`, arm_etmv3 `data`, `instruction`, `source`, `location` and `function` (they need an
ELF file), ook_oregon `bits`, ook_vis `bits` and `ref_*`.

## 4. Findings

1. `sigsession.cpp:2040` - the decode thread looks at the queue under the mutex and
   clears `_is_decoding` later without it.  A task added in between is pushed, no
   thread is started, and it stays in the queue until the next task.
2. `sigsession.cpp:1681` - `remove_decoder` decides from a stale `IsRunning()` that
   it may delete the trace.
3. `sigsession.cpp:1971` - `clear_all_decode_task` stops only traces that run; one
   that is about to run and then waits for samples hangs the UI thread after an END
   packet with an error status.
4. `type_decoder.c:937` - a `wait()` without conditions skips the first sample of a
   session that does not start at 0.
5. `lib_main.c:1363` - a second detach within the reconnect window makes the first
   be forgotten.

## 5. What TLAPS proves

All for any value of the constants: any number of traces and any mode, captures of
any length and any condition lists.

**`DecodeTasksProofs`.**  `TypeCorrect` needs `HoldsTrace` (a thread past its look
at the queue holds a trace, not the NULL of an empty queue), because `TypeOK` alone
lets `running` receive NULL.  `FlagCorrect` and `RunsAlone` are inductive together with
the type invariant: the flag is set together with the creation of the thread and is
reset by its last statement, and `Alive` is what `add_decode_task` waits for.
`QuietWipeCorrect`, which is about the results of the decoders, needs `WipeInv`, which says why nobody can start a thread at the
moment of the wipe: a refresh owns `_data_mutex`, which every producer of the feed thread
needs; a new capture starts after the collect thread has ended; the END handler runs after
the last packet.  `QuietWipe` is not inductive without it: any state with a feed thread
inside `data_feed_in` would break it.
`SamplesThereCorrect` is about the samples: of a DSO capture, or of one whose packets carry
no error, no snapshot is emptied while the decode thread is between its look at the samples
and the read.  It rests on the same argument, and on `refresh` initialising the snapshot of
another mode only when an error made it run; without its assumption it is false
(section 3).

Two invariants are true for some of the user operations only, and the theorems name them;
with the others TLC finds a counterexample.  `AskedFor` carries the restriction through
the steps: the UI thread is inside an operation only if the user may ask for it, and
without captures the feed thread never runs and no END arrives.
`QueuedOnceCorrect` assumes `OneStart`: no captures, or captures that are not of an
oscilloscope and no resets.  Four places queue a trace, and `OnceInv` says why each knows that it is not
waiting: a new trace is not among those ever created (`Known`), a reset has taken the entry
out before, the frame that starts the decoders is the first with data, until when the queue
is empty, and the END handler finds the queue empty or its traces not yet queued.
`NoUseAfterFreeCorrect` assumes that the user removes no single trace and does not both
clear all and capture.  With captures alone nothing is ever deleted; with `clearAll`
alone, `FreeInv` says that listed traces are not deleted, that the queue, the thread and
the UI thread know only listed ones, and that the deletion comes after the queue was
emptied and the thread joined.

**`DecoderInstProofs`.**  `HandOver` is the inductive invariant of the hand-over:
`ThreadPart` (a worker exists while the thread handle is set), `WantPart` (who raised the
termination flag), `WorkerPart` (what each position of the worker knows of the chunk),
`ChunkPart` (a chunk that is not handled is the caller's current one, and `cur` is inside
it), `PushPart` (the chunk about to be pushed is the next one) and `CallerPart` (the caller
goes on only when the chunk is handled or the worker is gone).  `BufferCorrect`, `ConsumedCorrect`,
`EndCorrect` (the `end()` hooks run beside a worker that awaits input) and `WakeupCorrect`
follow from it.
`ChunksInvisibleCorrect` is the refinement `Spec => Stream!Spec`: `StreamPart` adds what the
scan has established of the question: nothing asked yet, answered, searching (no sample
from the question's start up to `cur` matched, and the skip counter and old pins agree
with the whole stream), or matching.  Every step of `DecoderInst` then maps to a step of
`SampleStream` or a stutter.

**`DeviceManagerProofs`.**  For any instruments, any number of replugs and session files,
and any choice of calls.  `Types` is `TypeOK` with what each position of a thread adds: the
handles a scan found are known ones, the reconnect counter is below its limit while a
reconnection is awaited, and the device to open or to reopen is a device.  `Safe` is the
inductive invariant of the devices in use: `Threads` (the collect thread counts as
collecting, knows the active device only, and is gone when the application closes or
destroys devices), `Removing` (what `ds_remove_device` is about to remove is a virtual device
that is not being captured) and `Devices` (`InUseIsLive` and `DelayIsForActive`).
`CaptureCorrect` cannot do without `Threads` and `Removing`: between its two critical
sections `ds_remove_device` relies on the check before the first one.  `InUseCorrect`
cannot do without `DelayIsForActive`: who destroys a device that was put off clears the
active device but not the list.
`NoInstanceLostCorrect` and `ExitCorrect` assume that the application makes no
power-management calls (`"power" \notin UserOps`): `ds_reload_device_list` clears the flag
of a destruction that was put off, and the instance is then lost (a hazard at its line in
`PROJECT.json`).  `ExitCorrect` adds `Ending`: the hotplug thread, which could list another
device or post another event, has ended before the devices are destroyed.

`OnlyReopenStraysCorrect` holds of every behaviour, replugs within the reconnect window
included: a step that leaves a device open without its being the active one is the hotplug
thread's reopening of what was active when it looked, or found that device so.
`SwitchesNext` sorts the steps: those that open, close and destroy listed devices
(`Switches`: the old active device is closed, only the new one is opened), those that append
closed devices (`Joined`), the callback and the reopening.  `Safe` is needed for
`ds_start_collect`, which opens a device it took from the active pointer before.

`HandlesDistinctCorrect` is about the behaviours in which every
step satisfies `PluggedWhenQuiet`: no instrument is plugged in while a detach
is pending or the return of an instrument awaited; afterwards any number may be.  `NoReturn`
is what this gives: attach notifications come before detach notifications, and no device is
given another handle.  `HandlesDistinct` is then inductive, because whoever appends what a scan
found passes over the handles that are listed by then.  With a replug inside the
reconnect window it fails (section 3).

**`ScriptProofs`, `I2CScriptsProofs`, `DecoderScriptsProofs`, `ScriptOrderProofs`.**  The promises of
twelve of the sixteen scripts stacked on I2C: rtc8564, ds1307, mxc6225xu, tca6408a, pca9571, nunchuk,
lm75, mlx90614, hdcp, ltc26x7, i2cfilter and i2cdemux, for any slave
addresses, any bytes and any number of packets.  Every theorem is of the form
`Spec /\ script \in ProvedI2C => []X`: `script` never changes, and the other scripts'
behaviours are not restricted in any way.  `TypeOK`, `SpansOfThePast`, `ShownInSpan` and
`DrawnApart` follow from one inductive invariant, `ScriptInv`: the annotations of the last
call keep the promises (`Fine`), and the attributes are what a prefix of some transfer
leaves (`Known`).  The promises alone are not inductive: an annotation put at a STOP spans what the attributes kept
from the packets before.  `Known` says for each script where the samples it keeps lie: in
the past, in the order in which the script will draw them, and each byte it collected inside the
block it will be shown in.  A script that begins a block with whatever packet comes
next, or keeps a byte across a STOP, has no such invariant: those are the rows that the properties
exempt, and `Known` leaves their attributes open.
`ScriptProofs` has what the proofs share (the ends of packets, what `Fine` takes
of one annotation, of two, of a concatenation), `I2CScriptsProofs` a lemma per script and
per step of its state machine, `DecoderScriptsProofs` the invariant.  `RestCorrect` is
`FreshAtRest` of the three scripts whose STOP clears everything; the others keep a part of
their attributes, which the property leaves out row by row and a run checks.
The assumptions are `I2CBytes` (what the two clocks decode as BCD are bytes) and `CallBounds`
(the bound of the calls is a number).

`OrderCorrect` (`StartsInOrder`) needs to know more of the past than `ScriptInv` says.
`OrderInv` adds where the annotations that `tail` remembers start: not after the packet that
is next, and, in a row that is drawn over several packets (the blocks of `Since`), not after
the mark the next annotation will start at (`ss_block`, the first byte kept, the first packet
kept).  It is inductive because a mark never moves back and nothing is put before it: each
script has a lemma that says so (`Mlx90614Order` and the like), and `OrderStep` is what they share.

**Only model-checked.**  All liveness properties (TLAPS cannot reason about fairness and
ENABLED).  The promises of the other
55 scripts.  The five violations.

## 6. What is not modelled

The reasons are in `PROJECT.json` under "components".  In short: drawing and dialogs
(presentation), floating-point mathematics, archives and configuration files (I/O), the
logger, the CLI and the virtual devices.  Of the decoder scripts: `spi_tpm`; those that read
the samples themselves, whose control is the `wait()` of `DecoderInst` and whose data are
pulse widths and bit patterns; all texts; and the other options of the layers below.  Of the device
manager: a callback that is dispatched inside a section under `lib_ctx.mutext`, and the
configuration calls, but for the callback they may dispatch.

## 7. Plan

Next modules, in this order; each is written to be proved about (recursive functions
or folds, no RECURSIVE operators).

1. `DecodeLoop` - `decode_data` against a growing snapshot: range, chunks, capture end,
   stop, `bEndTime`; the SPI/UART message history.  Hazards: a caught-up decoder ends
   without `srd_session_end`; the history at its limit.  It uses `DecoderInst` only
   through `SampleStream` (supply chunks, end).  To prove: the chunks sent are
   consecutive and stay inside the snapshot, so `RejectChunk` is never taken by DSView.
2. `DslTransfer` - transfers in flight.  To prove: `submitted_transfers` is their number,
   END is sent once and with none in flight.
3. `SigCapture` - the session's timers, collect modes, mode switches and device events,
   composed with an abstract device (`CaptureDevice`: start, packets, END) that
   `DeviceManager` and `DslTransfer` are shown to implement.
4. `CoreSession` - `sigrok/core.c` and `core-adapter.c`: event sources, stop requests, USB
   dispatch, with sections under the mutex in steps; the home of the attach flag that is
   cleared too late and of the lock a callback may wait for.
5. `StoreBlocks` - `save_logic`: the blocks written against the reference "the samples of
   the aligned range".
6. `RingBlocks` - the ring of leaf blocks of `LogicSnapshot`.

Runs: one passing run for each, at two to three elements per set; where a
disagreement shows, a violation run replaces one of those above, or passing runs of one
module are merged.  Theorems still worth proving: the
promises of the remaining I2C scripts (eeprom24xx, xfp, atsha204a, edid) and of the other
groups, SPI first, each with its `Known` and its marks.
