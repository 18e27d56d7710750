# Verification of the environmental monitoring device (Hi3861)

TLA+ models, TLC model checks and TLAPS proofs for the firmware in `src/`: the
MQTT client, the Wi-Fi station, the panel with its display and reports, the
firmware upgrade, the NV of the boot loader and the UART driver. Paths below are relative to
`src/` unless they name a module.

## 1. The system

The repository is the Hi3861 SDK with the application of an environmental
monitoring station. `build/config/usr_config.mk` selects
`CONFIG_ENVIRONMENTAL_MONITORING`, `CONFIG_COMPRESSION_OTA_SUPPORT`, no flash
encryption, no factory-test mode; the models are of this build. The operating
system (LiteOS), the Wi-Fi driver and wpa_supplicant, and the kernel's own NV
are binary libraries; paho, lwIP and mbedTLS are vendored.

```
 keys (interrupt)     app_main: environment_func          sensors
       |                 |  draws the screen of               |
       +--> g_current_mode, g_menu_select <-------------+     |
                         |  read every second           |     |
                     DemoEntry (task IOTDEMO)     DemoMsgRcvCallBack
                         | IotSendMsg                   ^  | IotSendMsg
                         v                              |  v
                 [ queue of 16 ] ---> ProcessQueueMsg (task IoTMain)
                         ^                  | publish
   MsgRcvCallBack -------+                  v
   (thread of paho)                  MQTT session  <--- gate wifi_second_connected
                                                              |
   WpaEventCB (task of the driver) --- iot_sta.c globals --- WifiStaReadyWait
                                                             (task IOTDEMO)

   application --> hi_upg_* (kernel) --> flash areas A, B, two NV items
                                              ^
   execute_upg_boot (boot loader) ------------+--> hi_factory_nv_* (two blocks)
```

### 1.1 Components with behaviour of their own

| component | state | operations | what is hard |
|---|---|---|---|
| **MQTT client** `app/demo/src/iot_main.c` | the queue, heap blocks of messages, the callback pointer, the local variables of a session (client handle, credentials) | `IoTMain`, `IoTSetMsgCallback`, `IotSendMsg`, `MsgRcvCallBack`, `ProcessQueueMsg`, `MainEntryProcess`, `MainEntry` | a message changes its owner between three tasks; the handler of a command sends into the queue only its own task drains; every step of a session may fail and has its own exit label |
| **Wi-Fi station** `app/demo/iot_demo/iot_sta.c` | `gLwipNetif`, `gScanDone`, `wifi_first_connecting`, `wifi_second_connecting`, `wifi_second_connected` | `hi_wifi_start_sta` (from two tasks), `WifiStaReadyWait`, `WpaEventCB`, `wifi_reconnected`, `hi_wifi_stop_sta` | no lock; the driver delivers one event at a time and drops the next one after about a second, while `wifi_reconnected` waits inside an event for an address without a limit |
| **Panel** `app_demo_environment.c`, `app_demo_multi_sample.c`, `app_demo_mq2.c`, `iot_demo/app_demo_iot.c` | `g_current_mode`, `g_menu_select`, `g_menu_mode`, gas value and buzzer | `environment_func` and its `show_*`, `gpio5_isr_func_mode`, `mq2_get_data`, `DemoEntry`, `DemoMsgRcvCallBack` | four actors share `g_current_mode` without a lock and read it more than once in a round |
| **Upgrade, kernel side** `platform/system/upg/` | the context `g_upg_ctx`, NV items 0x3 and 0xa, area B | `hi_upg_init`, `hi_upg_transmit`, `hi_upg_transmit_finish`, `hi_upg_finish`, `.._save_cache`, `.._with_cache`, `hi_upg_get_content`, `hi_upg_stop` | every erase, write and NV item can be the last thing before the power goes, or can fail |
| **Upgrade, boot loader side** `boot/flashboot/upg/` | area A, NV item 0x3 | `execute_upg_boot`, `boot_head`, `change_area`, `boot_upg_kernel_process` | it erases the only kernel before it has unpacked the next one |
| **Factory NV** `boot/flashboot/common/nvm/hi_nvm.c` | two flash blocks with a sequence number and a checksum; `g_s_nv_ctrl` | `hi_factory_nv_init`, `hi_factory_nv_write`, `hi_factory_nv_read` | a write of 4 KB that is cut or fails half way, twice per call |
| **UART driver** `platform/drivers/uart/` (`hi_uart.c`, `uart.c`, `uart_drv.c`) | per port two circular buffers, an event object, `receive_tx_int` and the mask of the transmit interrupt; the timer of a timed read | open, close, `hi_uart_read`, `hi_uart_read_timeout`, `hi_uart_quit_read`, `hi_uart_write`, `hi_uart_set_attr`, both interrupts | task and interrupt copy the pointers of a buffer under a lock, move bytes without it and publish one pointer each; the transmit interrupt masks itself while a task decides whether to use it; one event object carries data, time-out and quit |

What makes each correct: messages have exactly one owner and are handled once, in
order; a session releases what it took and a lost connection ends it; only one
task rebuilds the station, the gate is never left closed, the device comes back
online; the screen, the report and the alarm follow the mode; the device can be
started after any power cut, starts only what was approved, and keeps its
settings in step with the kernel; an NV file changes atomically and durably; a port
delivers what it accepted, once, and wakes whoever waits for it.

### 1.2 Interactions

* Application tasks and paho's thread meet IoTMain in the queue (messages by
  pointer) and in the registered callback, which IoTMain runs.
* `iot_main.c` reads `wifi_second_connected` before it creates a client; that flag,
  the interface under the TCP connection, and the fact that `DemoEntry` calls
  `IoTMain` only after `WifiStaReadyWait` returned are all that ties it to `iot_sta.c`.
* `environment_func`, the key interrupt, `DemoEntry` and the command handler meet
  in the panel's globals; the reports go to the queue.
* Kernel and boot loader meet in flash and in factory NV, across restarts. The
  boot loader's NV is `hi_nvm.c`; the kernel's code for the same structure is a
  binary library.

* The UART driver serves the AT commands, the shell and the log; the application of this
  build does not call it. Its callers and its peer are an environment that may do anything.

The rest of the repository (the other drivers, samples of other boards, AT commands,
loader boot, build tools, vendored libraries) is listed in `PROJECT.json` with the reason
why it is not modelled.

## 2. Modules

| module | lines of code it is about | |
|---|---|---|
| `MsgChannel` | | abstract: a bounded lossy FIFO with offers, answers, one message in hand |
| `IotMain` | `iot_main.c` | one action per step of the three kinds of tasks; labels of `MainEntryProcess` are values of `pc` |
| `WifiSta` | `iot_sta.c` | both callers of `hi_wifi_start_sta` as processes over the shared flags; driver and lwIP as environment |
| `IotSystem` | both | `IotMain` (extended) and `WifiSta` (instance) as each other's environment |
| `Panel` | the panel's files, `app_main.c:516-541` | start, display loop, key interrupt, DemoEntry, command handler |
| `AtomicUpgrade` | | abstract: one kernel, replaced at once while none runs by the file accepted last |
| `UpgStorage` | partition table, NV items | flash in erase blocks, the two NV items, what writes and failures do |
| `FlashBoot` | `boot/flashboot/upg` | the boot loader from reset to the jump |
| `UpgApi` | `platform/system/upg` | the `hi_upg_*` calls in the steps between which power may fail |
| `Upgrade` | both | their composition, power cuts, history variables, properties, the mapping to `AtomicUpgrade` |
| `UpgradeLive` | both | the same under a power supply that becomes steady |
| `NvStore` | | abstract: a file that changes atomically and durably |
| `FactoryNv` | `hi_nvm.c` | the two blocks, rounds of copies, failures and cuts |
| `ByteStream` | | abstract: a bounded stream that gets bytes in, in order, and out again, once |
| `CircBuf` | `uart_drv.c:26-215` | the circular buffer as operators: what a side copies and what it publishes |
| `UartRx` | `uart.c`, `hi_uart.c`, receiving | the reading task, the receive interrupt, the timer, `hi_uart_quit_read` |
| `UartTx` | `uart.c`, `uart_drv.c`, sending | the writing task, the transmit interrupt, the FIFO |
| `Uart` | all three | opening, closing and setting up; the properties of both directions |
| `MC*` | | the instances for TLC |
| `*Proofs` | | the theorems |

Order of work: client, station, their composition; then the upgrade; then the
panel; then the NV under the upgrade; then the UART driver.

### 2.1 How state and actions correspond to the code

*IotMain.* A message is the heap block that holds it: `kind[b]` says what it is,
`outbox[t]` is the pointer a sender still owns, `queue` the pointers in the
LiteOS queue, `hand` the local `msg` of `ProcessQueueMsg`. `Report`, `Enqueue`,
`SendFail` are `IotSendMsg`; `TakeMsg`, `Publish`, `HandleRecv`, `IgnoreRecv`,
`HandlerReturns` are `ProcessQueueMsg`; `PrepareCredentials` to `FreeClientID` are
`MainEntryProcess` with its labels. `hi_sleep` and `MQTTClient_yield` only pass time.
A failed `hi_malloc` changes nothing and is a stutter, except in the handler
(`SkipReply`). Payloads and topics are left out: nothing depends on them.

*WifiSta.* `pc` of `Demo` and `Handler` walk through the same `hi_wifi_start_sta`.
`event` is the event in the callback, `posting` the one the driver is delivering;
the driver does nothing else meanwhile. `Faults` names what may go wrong: `"call"`
(a driver call returns an error), `"join"` (an association is refused), `"link"` (a
link is lost before it is complete), `"event"` (an event is dropped because no task
could be created). lwIP calls with a NULL interface are harmless errors, and
`netifapi_dhcp_start` zeroes the address. `wifi_status` is written and never read.

*IotSystem.* `socketAlive` says whether the interface under the client's connection
still has its address. A connection that lost it is noticed only by the keep-alive.

*Panel.* `watched` is the local copy of the mode in a `show_*` function, `drawn` what
is on the OLED, `todo` the setup functions a round of `DemoEntry` has still to call, whichever of
its three menus is selected. `g_current_mode` has four kinds of writers and all are actions: the key,
the command handler before (`ReceiveCommand`) and in (`StoreOption`) `oc_*_app_option`, and the
`setup_trfl_*` functions, which store the mode they report (`setup_trfl_module`), called by the
handler (`SetupOption`) as well as by `DemoEntry` (`ReportModule`). Where the code reads the global
again after it stored it, the model takes either value.
The debounce of the key is abstracted: a filtered interrupt is a stutter.
`g_current_type`, `g_key_down_flag` and `oc_beep_status` are written and not acted on
in this build. The ADC is taken to answer.

*Upgrade.* Lengths count erase blocks. A file is a model value; `Images` are the files
that pass the signature check, `BadInner` those whose unpacked kernel fails it.
`approved` and `saved` are history variables. A power cut loses the RAM and leaves the block in work as it was
or `Junk`; the erase of a whole area is a loop over `pos` or `cursor`. Reads do not
fail, NV items can always be read, a check gives the same verdict when it is
repeated, and calls of the module do not overlap (the code locks only
`is_upg_process`, so this is an assumption on the application, which is not in
the repository).

*FactoryNv.* A block whose checksum or magic is wrong is `Torn`. `hi_flash_write` is ROM
code: when it fails or is cut the block may be untouched, torn or complete. One
round of `nv_common_write` is `Copied`, `CopyFails` or `CopyUnread`. Reads at a start
are taken to succeed: if the newest block cannot be read, the start silently takes
the older one. The 32-bit sequence number would wrap after more writes than
the flash survives.

*Uart.* `reader` and `writer` are the places of the two tasks in `uart_read` and `uart_write`.
A call takes its pointers under the lock (`SnapRead`, `SnapWrite`), copies bytes outside of it
(`CopyRead`, `CopyWrite`) and publishes its own pointer under the lock (`PublishRead`,
`PublishWrite`); interrupts, timer and `hi_uart_quit_read` come between any two of these. The
event object is one for both directions in the code; as the bits are disjoint, each direction
keeps its own (`rd_events`, `wd_event`). Bytes are numbered in the order in which
they are accepted, so that loss, repetition and change of order can be told. The FIFO and the
raw transmit interrupt are external. Polling tests the FIFO (`TestFifo`) and then writes to it
(`PutFifo`); the interrupt may fill it in between, and the byte is lost. `setter` is a task in
`uart_drv_ioctl`, whose four steps (`uart_ioctl`, `ClearStep`, `ReadStep`, `WriteStep`) the writer and the interrupt
interleave; `imsc` is its copy of the mask register. Two history variables name the
races that the code has: `overtakes` (the write in progress began to poll while the buffer held bytes) and
`overwritten` (the last write of the mask took the transmit interrupt's bit away from the writer). The interrupt is taken some time after it is pending, not
before the next instruction, which allows more than the hardware does. `uart_open` passes the two buffer sizes
crosswise (`uart.c:83`): `RxSize` is `act.tx_buffer_size`.

## 3. Runs

A run is TLC on a module and a `.cfg`; all pass but the three marked *violated*.

| run | states | checks |
|---|---|---|
| `iotmain` | 22 234 | `TypeOK`, `MessagesOwned` (no leak, no dangling pointer, one owner), `SessionResources`, `ChannelSafe` (implements `MsgChannel`), and under fairness `LostSessionIsClosed`, `QueuedIsTaken`, `ChannelLive` |
| `sta` | 131 | `OneBuilder`, `GateHeld`, `CompleteIsUsable`, `ScanIsAwaited`, `LossIsNoticed` with failing calls and refused associations |
| `system_live` | 49 219 | `ComesBackOnline` (the station), `ServiceIsRestored` (station and MQTT session together) |
| `upgrade_safety` | 2.15 M | `Bootable`, `RunningKernelIntact` with a faulty flash and boot loader files |
| `upgrade_nv` | 2.36 M | `NvMatchesKernel`, `SavedSurvives` with NV writes that fail |
| `upgrade_live` | 67 350 | `OnlyApprovedInstalled`, `InstalledAtomically` (implements `AtomicUpgrade`); under fairness `KernelRuns`, `AcceptedIsInstalled` |
| `upgrade_stop` | *violated* | `StopRecovers`, what the comment on `upg_stop` promises |
| `panel_live` | 208 852 | `ModeHasScreen`, `ChangeIsDrawn`, `ReporterFollows`, `AlarmFollowsGas` |
| `panel_screen` | *violated* | `ScreenFollowsMode`, "in step with the hardware" |
| `factory_nv` | 1 054 | `CurrentIntact`, `RestartFindsFile`, `StoreSafe` (implements `NvStore`) |
| `uart` | 227 464 | `NothingStranded`, `NoLostWakeup`, `EachByteOnce`, `RxStream` (implements `ByteStream`); under fairness `ReadReturns`, `WriteReturns` |
| `uart_timeout` | *violated* | `TimedReadReturns`, "Reads data in specified timeout time" |

Each passing run of a component also checks its type invariant.

### 3.1 Bounds

* `iotmain`: `QueueLen = 2` and four blocks. Two slots give a queue that is empty, partly
  full and full; the fourth block is one in hand and one refused. `QueueLen` of the
  code is 16; nothing depends on it but full and empty. One reporter stands for
  several: they share nothing but the queue, which the other two senders (paho and the handler)
  contend for too. The handler replies at most once, so that both a reply that
  fits and one that finds the queue full occur. (Three slots and five blocks
  were run once: 210 086 states, no error.)
* `system_live`: one slot, two blocks, which still lets a session be busy when the link
  breaks; `Faults = {}` leaves only losses of complete links.
* `Upgrade_*`: three blocks for areas A and B, one for a boot loader; kernels of one
  and two blocks, files of one and two, so that kernel and file fill the areas
  exactly (`FitAssumption` tight) and one file is too long while the other kernel
  runs. `MaxOffset = 2` bounds offsets of packets (one more than any file has) and
  the cache of a session that `upg_stop` could not end. `MaxCnt = 3` is the code's.
* `Panel_*`: the modes 0 to 3 are all that the reports distinguish; `FourModes`
  keeps the order of the menus' limits (8, 4, 9, 6 in the code). `AllModes` are the
  code's own numbers, in the violated runs. The commands of `panel_live` come from the other two
  boards: one for the lamp, one for the traffic light, whose reports store the mode.
* `uart`: buffers of two bytes against bursts and lengths of up to three, so that both pointers
  wrap, the buffers fill up, the receiver drops bytes and a blocking write is cut in
  pieces; a FIFO of three with trigger level one; five bytes are written in all, more than
  FIFO and buffer hold. That is enough for the two races: a byte polled into a full FIFO, and a
  set-up that masks the interrupt under bytes in the buffer or under a waiting writer. The directions share only the opening and closing of the port, so a
  session of the model uses one of them (`OneDirection`). The code's buffers are given by its
  callers, its burst is 64; the proofs are for all sizes.
* `factory_nv`: two blocks as in the code, two items so that a write must not disturb the
  other, three writes (`MaxSeq = 6`), so each block is reused at least once.

### 3.2 Fairness

* LiteOS runs ready tasks of equal priority in turn, and every call they block in has a
  time-out: weak fairness of IoTMain's step and of each blocked send (`IotMain`), of the
  display loop, of IOTDEMO and of a started handler (`Panel`), of both tasks of the station.
* `WifiSta`, `IotSystem`: a scan ends, an association that does not fail succeeds, DHCP
  answers, the driver delivers or drops an event, the keep-alive expires. In `IotSystem` the broker
  and the heap do not fail for ever: strong fairness of the *success* of the four
  steps of a session, since each may fail many times.
* `UpgradeLive`: the processor runs while it has power. When the application calls the
  upgrade module is up to it; `steady` is the event after which no power cut happens.
* `Uart`: the two tasks, the timer's callback and the transmit interrupt are weakly fair, and the
  line, which has no flow control in the model, moves. Received bytes, `hi_uart_quit_read` and
  the setting of attributes are not fair, nor is a set-up that has begun sure to end. `WriteReturns`
  supposes that the port is not set up again for ever, since each time resets `receive_tx_int`, and that the
  mask does not stay overwritten: after a set-up that took the interrupt from the writer nothing but another write helps.
* Nothing is assumed of reporters, keys, commands, the gas, the OLED, or the time of a loss.
* `ComesBackOnline` and `ServiceIsRestored` are checked with `Faults = {}` only: nothing in
  `iot_sta.c` retries a failed association, see section 5.

`WifiSta.cfg` turns the deadlock check off because the device really stops there: after a
refused association the driver has nothing to report and no task retries. All other
runs check for deadlock.

## 4. Proofs

All theorems hold for every value of the constants that the named assumptions admit.

| module | theorems | argument |
|---|---|---|
| `WifiStaProofs` | `StaTypeCorrect`, `OneBuilderSafe`, `GateHeldSafe`, `CompleteIsUsableSafe`, `ScanIsAwaitedSafe`, `LossIsNoticedSafe` | `StaInv` relates the flags to the two program counters, `WayInv` what the driver knows to the event that is still on its way. Proved for **every** set of faults (the last two properties exclude theirs themselves), TLC runs `{"call", "join"}` |
| `IotProofs`, the client | `TypeCorrect`, `SessionResourcesSafe`, `MessagesOwnedSafe`, `ImplementsChannel` | `ControlInv` (where `hand`, `replies` and the handler's message may be set) and `ResourceInv` (what is held at each label) make the invariants inductive; the refinement follows from them and the lemmas on `Append` and `Tail` |
| `IotProofs`, the system | `ImplementsStation`, `ImplementsMain`, `SystemMessagesOwned`, `SystemSessionResources`, `SystemChannel`, `SystemStationWhole`, `SystemStationAwaited` | a step of the system is a step of the one component and an environment step of the other, so every safety property of the client alone and of the station alone holds of the device |
| `UpgradeProofs` | `UpgTypes`, `KernelStaysIntact`, `NvIsRefreshed`, `SavedKernelSurvives` | `CoreInv`, below, inductive for **every** set of faults; the last two of a device that is sent kernels only (`BootFiles = {}`), `NvIsRefreshed` with flash that can be written |
| `UpgradeInstallProofs` | `AlwaysBootable`, `KernelReplacedAtOnce`, `SavedFileSurvives`, `StopRecoversWithNv`; `ApprovedIsInstalled`, `ImplementsAtomicUpgrade`, `LiveInstallsAtomically` | `UpgInv`, below: all assume `"nv" \notin Faults`, the last three also `BootFiles = {}` |
| `PanelProofs` | `PanelTypeCorrect`, `ModeAlwaysHasScreen` | the limits of all menus and the modes of all commands lie within the modes with a screen (`MaxModeAssumption`, `CommandAssumption`), and wrapping stays there; `ModesHaveScreens` adds the copies of the mode that are still to be stored, the handler's argument and the reports to come |
| `CircBufProofs` | lemmas on the buffer for every size | what a task copied of the pointers stays good while the interrupt moves the other one (`ReadSeen`, `WriteSeen`); which cells are held before and after a copy and a publication |
| `UartProofs` | `UartTypeCorrect`, `ReceivingIsAStream`, `NoByteStranded`, `NoWakeupLost`, `BytesKept` | `RxInv`, `TxInv`, `TxBytesInv`, below |
| `FactoryNvProofs` | `FactoryNvTypes`, `CurrentStaysIntact`, `RestartAlwaysFindsFile`, `FactoryNvImplements` | `NvInv`: the checked invariants and what a write in progress relies on |

The upgrade stands on two inductive invariants. `CoreInv` is what survives any failure, NV
writes included: `NvAboveKernel` (the address in NV lies behind every kernel in area A),
`KernelInv` (the kernel that runs is whole and knows its length), `SessionCore` (a session
erases and writes behind that kernel only, whatever `upg_stop` could not undo), `BootCore` (the
boot loader works with the address in NV and only jumps to what it checked), `WaitKnown` (if a file
waits, both NV items say where; an item that could not be cleared keeps its flag, which keeps
another file from being put aside), `StartFree` (no file begins where a kernel does). `RunningKernelIntact`
is one of its consequences and not inductive: the address in NV may be from a call that failed.

`UpgInv` adds what is only true while NV can be written: `HeadAtHome` (the head of a file is only
found where `upg_get_backup_write_addr` puts that file, so by `FitAssumption` behind the kernel it
holds), `WaitIsNv` (both NV items speak of the same file), `BootInv` (the boot loader touches
area A only while the file it unpacks is complete), `SessionInv` (the first packet of a session goes
where the file belongs). The assumption is needed: with NV writes that fail, `Bootable`, `OnlyApprovedInstalled`
and `StopRecovers` are false (5.1), and `SavedSurvives` is, too, once there are boot loader files: a `StopSave`
that stores its value and reports failure leaves the session on, and what it then puts aside may be of the other type.

On these stand the rest. `SavedInv`: from the moment both NV items are written, starts
lead back to the kernel and no step touches the file; of kernels because every file has the type
KERNEL (`KernelFiles`) and mode UPGRADE_WAIT is saved together with a count of starts of 0
(`CountReset`), of both types because the head's type is the type the module knows (`HeadKind`) and a kernel that
runs has reset the count (`Uncounted`). `RefreshInv`: the user NV area fits, or NV says it is to
be refreshed. `ApprovedInv`: a head at the address in NV is the approved file's in mode UPGRADE, while area A
holds no kernel, and once the boot loader is on its way to it; in mode UPGRADE a session is on that
writes no more first packets (`Upgrading`). The last two are false with a boot loader file, see 5.2.

`ImplementsAtomicUpgrade` maps the abstract kernel to the one in area A or, when there is none, to the
file at the address in NV (`KernelToRun`). A running kernel is kept (`RunningIsKept`, from
`CoreInv`); an erase, a write or a cut in area A leaves it or makes it the file being unpacked
(`UnpackReplaces`, from `UpgInv`), which is the approved one (`ApprovedInv`): that step is `Install`, all others
before and after it stutter. `KernelReplacedAtOnce` is what of this holds with boot loader files, too.

In the UART, the two sides share only pointers, so each invariant says what a side
may still rely on in the middle of its call. `RxInv`: what the task read of the pointers is a part of what
the buffer holds, and a read that found it empty has its event pending if bytes
have come since. `TxInv`: bytes are in the buffer only if the interrupt is unmasked or about
to be, or its mask has been overwritten, and the hardware is above its trigger level or wants to be served (`Alive`); a full buffer
stays as it was seen until the event says otherwise. `TxBytesInv`: the accepted bytes are those in the FIFO
and in the buffer, and while a write polls that did not begin with bytes in the buffer none get there, so that the FIFO
has still the room that the test found. The refinement maps received, taken and last given byte to `ByteStream`.

`FactoryNvImplements` uses the mapping: the file is that of the current block, or at power-off that of
the newest; `spare` are the files of blocks newer than the RAM knows of, which only a
write that failed leaves behind.

### 4.1 Only model-checked

* Liveness (everything under fairness) and `ENABLED`: out of the prover's reach.
* The unproved properties of the runs are `LostSessionIsClosed`, `QueuedIsTaken`, `ChannelLive`,
  `ComesBackOnline`, `ServiceIsRestored`, `KernelRuns`, `AcceptedIsInstalled`, `ChangeIsDrawn`, `ReporterFollows`,
  `AlarmFollowsGas`, `ReadReturns`, `WriteReturns`, and the violated `ScreenFollowsMode` and `TimedReadReturns`: all are of
  this kind. Every invariant and every safety refinement of a passing run is proved.

Before they were proved, the inductive invariants were checked by TLC as invariants of the runs' instances:
`CoreInv` also with `Faults = {"nv", "flash"}` (complete searches of 11.5 and 5.5 million states, too long for a
run that is repeated), `InstalledAtomically` with `{"flash"}` (125 830 states), the action property of `KernelReplacedAtOnce`
on the instance of `upgrade_safety` (2.15 million).

No module has a recursive operator, and no theorem needs induction over data.

## 5. What the checks showed

### 5.1 Disagreements between code and its documentation (violated runs)

* `upgrade_stop`: `upg_stop` (`upg_common.c:519`) returns when NV cannot be written, before it
  recovers the local state as its comment promises. The session goes on. With it, the
  next file's packets are written at the old address over a head that has just been
  erased while NV still says UPGRADE.
* `panel_screen`: the show functions read `g_current_mode` once more after the switch of
  `environment_func` has (`app_demo_environment.c:67`). A key in between is never noticed.
* `uart_timeout`: the timer ends a timed read by an event, but `uart_read` (`uart.c:138-140`) takes
  it for one only if it comes alone. A byte read without waiting leaves its own event pending;
  if the timer expires before the read waits, both come together, the read goes round and waits with no
  event left, until a byte arrives or for ever.

### 5.2 Where a property needs its premise

Met while modelling; each is a hazard of `PROJECT.json` without a property, or the
reason for a run's `Faults`:

* a re-association that fails once leaves the device offline until reset
  (`iot_sta.c:45`): the callback waits for an address for ever with the gate closed;
* a link lost between the reading of the address and the setting of
  `wifi_first_connecting` is never noticed (`iot_sta.c:251`): `LossIsNoticed` excludes the fault `"link"`;
* a user NV refresh that fails is forgotten (`upg_common.c:160`): `upgrade_nv` is without `"flash"`;
* after a boot loader upgrade `change_area` may start a kernel file that was downloaded but
  never finished (`boot_start.c:54`): `OnlyApprovedInstalled` is run without boot loader files;
* `reset_cnt` counts starts that the power supply cut short: three of them drop an accepted
  file, the premise of `AcceptedIsInstalled`;
* a key between the two assignments of `app_main.c:539-540` selects the NFC menu, and the
  reports stop: the premise of `ReporterFollows`;
* an NV write that fails may surface at the next start, and one that finds its value
  unchanged says nothing about that (`hi_nvm.c:383`): `NvStore` says so in `NothingToDo`. `UpgStorage`
  takes a failed write to be visible at once or not at all; the third case is not composed;
* `hi_uart_read_timeout` that finishes in time may leave its quit event behind; the next
  blocking read then returns nothing. `ReadReturns` promises only that a read returns;
* bytes of one `hi_uart_write` may overtake those of an earlier one when `receive_tx_int` changes between
  (`uart.c:172`): `EachByteOnce` promises order within the buffer only;
* such a write may also lose a byte: the interrupt moves bytes of the earlier write into the FIFO between the test of
  UART_FR and the write of UART_DR (`uart_drv.c:740-741`), which then meets a full FIFO. `EachByteOnce`
  says that this happens only if the write began to poll while the buffer held bytes (`overtakes`);
* setting a port up ends with an unlocked read and write of UART_IMSC (`uart_drv.c:760`, 244-245). A writer that
  unmasks the transmit interrupt in between has its bit taken away: its bytes stay in the buffer, a blocking write
  sleeps, until some write unmasks the interrupt again. It is the premise (`overwritten`) of `NothingStranded`, of the writer's half of
  `NoLostWakeup` and of `WriteReturns`;
* a press of the mode key is lost when the handler, or a report of the traffic light, stores the mode it began
  with (`app_demo_iot.c:146`, 593, 668, 696): nothing says which writer should win.

## 6. Not modelled

Of the 755 000 lines of C most are vendored or upstream (wpa_supplicant, lwIP, mbedTLS, paho,
cJSON, LiteOS headers); they are not this project's program and the models stand on how it
uses them. The share of all lines that is mapped is therefore small and will stay so; of the
code with behaviour of its own (1.1) nearly all that changes state is.

* SPI, I2C and flash drivers; the flash protection timer.
* In the UART: `hi_uart_write_immediately`, which polls past the buffer on purpose; DMA; the
  failures of opening, which leak; closing during a call; low power and the statistics.
* In the upgrade module: the versions in efuse (`g_upg_updating_ver` and its handshake with the
  NMI), the copy of a new boot loader into the boot area, encrypted files, factory-test mode,
  overlapping calls.
* Contents of reports (`iot_profile.c`), HMAC, sensors' arithmetic: data without control.
* The kernel's NV, LiteOS, the Wi-Fi driver: binary. They are modelled as the code uses them.
* Start-up of peripherals, samples of other boards, AT commands, loader boot, build tools.

## 7. Plan

1. Extend `UpgApi` by the efuse handshake and by `upg_refresh_boot`; `Upgrade` over `NvStore` in the
   place of its atomic NV items.
2. Compose `Panel` with `IotMain`: its reports as the reporters of the queue, its handler as the callback.
3. Flash driver: read-modify-write of a sector and the unlocking of protection.
4. SPI and I2C transfers under their semaphores; YModem of the loader boot.

Runs that ask about the same component are merged into one `.cfg` where their constants agree.
