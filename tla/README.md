# Verification of the STM32-Advanced firmware

STM32-Advanced is a workspace of firmware for the STM32F746-Discovery board: board
support and libraries shared by all programs (`_bsp`, `_libs`, `_common`), RTOS tasks
the programs are put together from (`_apps`), and one directory per program.  This
directory holds TLA+ models of the code that is the workspace's own or that it adapted,
the TLC runs that check them, and proofs.

## 1. Inventory

| Component | State | Operations | Interacts with |
|---|---|---|---|
| SD disk driver: `_libs/FatFs/sd_diskio_dma_rtos.c`, `diskio.c`, `ff_gen_drv.c` | driver table, `Stat`, `SDQueueID` and its messages | link/unlink, initialize, status, read, write, ioctl, completion interrupts | FatFs above (volume lock), BSP/HAL and the card below, RTOS queue and tick |
| TFTP server: `lwip_TFTP/Src/tftpserver.c`, `tftputils.c` | one `tftp_connection_args` per transfer, *one* `file_SD`, `file_CR`, `filesystem` for all | request, read/write process, data and ACK callbacks, clean-ups | lwIP UDP callbacks (one thread), FatFs |
| FreeModbus RTU slave: `_libs/FreeModbus/mb.c`, `rtu/mbrtu.c`, `port/*.c`, `_apps/app_modbus.c` | receiver/sender state, one buffer for both, one event slot, timer, holding registers | character interrupts, T3.5 timer interrupt, `eMBPoll`, register callback | UART and TIM interrupts, the MODBUS task |
| Modbus registers: `_libs/FreeModbus/functions/mbfuncholding.c`, `_apps/app_modbus.c` | 40 holding registers, date and time | read, write one, write many, read/write, refuse | `eMBPoll`, RTC |
| Slide show: `_apps/app_slideshow.c` | two frame buffers, arrays of addresses, places and sizes on the task's stack, DMA2D semaphore | blend a picture, clip and blend an icon, show, transfer complete/error | DMA2D, LCD, run-time clock's timer |
| Run-time clock: `_common/hr_gettime.c` | TIM2, count of its wraps | start, interrupt, read | kernel's context switch, tasks' statistics; slide show and ADC monitor program TIM2 too |
| Wave player: `Audio_*/Src/waveplayer.c` | player state machine, `BufferCtl`, `FilePos` | process, volume, half/full transfer interrupts | SAI DMA, FatFs on USB, touch screen |
| Ethernet interface: `_common/ethernetif.c` | DMA descriptor rings, receive semaphore | init, output, input task, receive interrupt | ETH DMA, lwIP |
| DHCP client task: `_apps/app_eth_dhcp.c`, `lwip_TFTP/Src/app_ethernet.c` | `DHCP_state`, tries, interface address | periodic step, link callback | lwIP DHCP, Telnet task |
| ADC damage monitor, display and Telnet: `_apps/app_adc.c`, `app_viewString.c`, `CLI/CLIconsole_TCP.c` | circular sample buffer, means, `strToView`, `TelNetConn` | window complete, average, judge, format, send; accept, answer, delete | ADC DMA, LCD, lwIP netconn |
| UART console: `_apps/CLI/CLIconsole_UART.c` | queue of characters, line and last line, tx mutex and semaphore | receive, echo, edit, execute, send with time-out, output for other tasks | UART interrupts, HAL, FreeRTOS+CLI |
| USB and UDP consoles, UART task: `CLIconsole_USB.c`, `CLIconsole_UDP.c`, `_common/usbd_cdc_if.c`, `app_uart.c` | as above | as above | started by no program |
| Buttons and encoder: `_apps/app_btn.c`, `app_encoder.c` | press timer, suspended tasks, position | EXTI interrupt, task step | UART and MODBUS tasks, message queue |
| SD card task and RTC: `_apps/app_uSD.c`, `app_rtc.c` | detection, open files | card inserted/removed, write | FatFs, RTC alarm |

Left aside: vendored or generated code (`_bsp`, `_libs/FreeRTOSv10.0.0`, `_libs/FatFs/ff13b`
and `ffsample`, `_libs/STM32_Audio`, `_libs/TraceRecorder`, `usbh_conf.c`), the `CPP_*`, `STM32F7_Workshop_*`
and `Performance*` demos, graphics demos, images and fonts.  lwIP, the ST middleware and, but for
the copy of the Ethernet driver named in section 3, the HAL are not in the repository; the models take them from how the code uses them
(`"external"` in `PROJECT.json`).  FatFs is; what TFTP uses of it is mapped to `ff13b`.

### What is hard in each part, and what makes it correct

* **SD driver.** A read or write is a thread, an interrupt and a card that finish in any order, with two time-outs:
  one in the kernel, one computed by hand on a wrapping counter.  A late message must not be taken for a later
  transfer's.  Correct: RES_OK means *this* transfer ended; the queue's put, which nobody checks, always finds room;
  every call returns.
* **TFTP server.** Datagrams are lost, late and repeated; all transfers share two file objects and one volume, the last
  acknowledgement leaves before the file is closed, and clean-up code goes on after it freed what it uses.  Correct: no holes,
  repetitions or foreign blocks in the file of a transfer that shares it with no other; no acknowledgement ahead of the data; pcbs come back.
* **Modbus slave.** Interrupts and a task that polls every 20 ms share one buffer and one event slot.  Correct: the
  two state machines exclude each other; a request is executed once, whole, for this slave only; its reply leaves intact.
* **Wave player.** The DMA plays one half of a buffer while the main loop refills the other; touch, end of track,
  failures and a lost USB key change the player's state at any point.  Correct: halves are heard in order, the
  position is what was read, the output never runs behind the player's back, a track ends.
* **Modbus registers.** A request is executed register by register, with limits and addresses of 16 bits, and every write
  also sets the clock.  Correct: to the master it is a register file: all or nothing, and reads return what was written.
* **Slide show.** The DMA2D interrupt and the task hand over frame buffers; starts are not checked, waits have no
  time-out, icons are clipped at four edges, and an array is written past its end.  Correct: what is displayed is complete, transfers stay inside screen and
  picture, no wait lasts for ever.
* **Run-time clock.** A counter and the count of its wraps are read without a lock, sometimes with the interrupt masked.
  Correct: while nobody else takes the counter, the time lies between call and return.
* **Ethernet and DHCP.** Frames come faster than buffers are free; the client's task shares the interface with the
  stack's thread.  Correct: no frame is stranded; a bound address is never erased.
* **UART console.** Transmissions end late, starts are refused, keys and other tasks' messages come at any time.  Correct:
  the commands executed are those typed; a text is lost only to a wait that expired.
* **ADC monitor, display, Telnet.** Samples, the text and the connection, on which two tasks write, are shared without locks.  Correct: no alarm
  without damage; a text that is ready reaches the client unless a write fails.

`PROJECT.json` lists under `hazards` where each of these bites, line by line.

## 2. Plan

| # | Modules | Abstract specification | Run | Theorems | State |
|---|---|---|---|---|---|
| 1 | `SdDiskio` | `DiskTransfer` | `sd`, `sd_poll_timeout` | types, queue bound, RES_OK, poll window, refinement | done |
| 2 | `TftpServer`, composed with clients and network in `TftpTransfer` | `FileCopy` | `tftp_upload`, `tftp_mixed`, `tftp_resend`, `tftp_write_error` | types, all invariants of the runs, refinement | done |
| 3 | `ModbusRtu` | – | `modbus`, `modbus_foreign` | types, assertions, executed once, reply intact | done |
| 4 | `WavePlayer`, `MCWavePlayer` | – | `wave_player` | types, output, position, order of what is heard | done |
| 5 | `EthernetIf` | – | `ethernet`, `ethernet_output` | types, wake-ups, pbufs, order in both directions | done |
| 6 | `HrTime` | the time itself | `board` | reading is time | done |
| 7 | `UartConsole` | what a sequence of keys means (`Meaning`) | `board` | lost texts, lines executed as typed | done |
| 8 | `SlideShow` | "what is drawn is what is visible" | `board` | clipping, display | done |
| 9 | `ModbusRegs` | `RegisterFile` | `board` | the refinement | done |
| 10 | `DamageMonitor` | – | `board` | no alarm without damage | done |
| 11 | `Board`, `MCBoard`: modules 6 to 10, one observed at a time | – | `board` | types | done |

The order follows how much depends on a part: the disk driver is under every program with a card, TFTP and Modbus speak
to the outside, the player is in eleven programs.  No module uses RECURSIVE operators, so each can be proved about.

## 3. What models what

**`SdDiskio`** - the driver table (`ff_gen_drv.c`), the dispatch (`diskio.c`) and the interrupt-driven driver
(`sd_diskio_dma_rtos.c`).  `pc` is where the calling thread is: outside, in `osMessageGet` (`"get"`) or in the loop
that asks the card (`"poll"`); one thread at a time, because FatFs locks the volume (`FF_FS_REENTRANT` 1).
`InitializeReady/NotReady/Fails/Again` are the ways through `disk_initialize`, `TransferStart`, `GetExpected`,
`GetOther`, `GetTimeout`, `PollReady`, `PollExpire` the steps of `SD_read` and `SD_write`, `CpltCallback` and
`TransferError` the interrupts, `CardSettles` and `Tick` the card and the kernel.  The tick counter wraps at `TickMod`.
`clean` is history: no call gave up on a running transfer of this queue.

**`TftpServer`** has one action per outcome of each callback of `tftpserver.c` (`ReadStart`, `RrqNext`, `RrqEnd`,
`WrqStore`, `WrqFail`, ...), **`TftpTransfer`** adds clients after RFC 1350 and a network.  A callback is one step, but for the one that
ends an upload: its acknowledgement leaves (:409) in one step and `CleanupWr`, `tftp_cleanup_wr` with its `f_close`, is another, before which client
and network may do anything and no other callback begins (`"closing"`).  A file is a sequence of
blocks; `file_SD` and `file_CR` are the shared FIL objects with the FatFs rule (`validate`, `ff.c`) that mounting or unmounting the volume
invalidates them.  Any client may start at any time, so transfers overlap, also two of one direction in one FIL: the second request empties or
rewinds it under the first, and both go on in it, which leaves in `file_CR` blocks of both in any order and more of them than a file has.  An ERROR
packet on an upload's port is taken for DATA if its code is the awaited number.  What the code does with arguments it has freed is a choice over what the build can do (the packet
leaves or not).  History: `harmed`, the clients a failing card or another transfer's clean-up got in the way of; `shared`, the clients whose pcb
stood beside another of its direction (`Sharing`); `peer`, who asked for each port.

**`ModbusRtu`** - each interrupt handler is one action; the task's steps (`EventGet`, `EventClear`, `FrameReceive`,
`ExecutePost`, `Execute`, `Send`, `SendAborts`) are cut where an interrupt can come between.  A frame's bytes name
their frame and position, and the CRC holds exactly when they are all of one frame.  Noise loses bytes.  `pending`,
`ran`, `patient` and `torn` are history: a master that waits for its answer, and an event posted between the two
statements of `xMBPortEventGet`.

**`WavePlayer`** - `PlayCall`, `Read`, `Refilled`, ... are the steps of `AUDIO_PLAYER_Process` in PLAY between which an
interrupt matters; the other cases of the switch are one action each, and `AUDIO_PLAYER_Start` is an operator with its
three outcomes (unsupported file, error, playing).  Sound is counted in halves of the DMA buffer and `buff` holds
which half of the track is in each; `heard`, `glitch` and `excused` are history: what the speaker played, and whether an
interrupt or refill was lost.  Display, volume and effect settings are left out; that a call of the effect can fail is kept.
`AUDIO_MenuProcess` calls the player up to three times per loop; a USB event between two of them is allowed too, which
only adds behaviours.

**`EthernetIf`** - the input task is `Wait`, `GetTestsLock`, `GetLocks`, `GetFinds` (together `HAL_ETH_GetReceivedFrame_IT`), `Copy`,
`Release` and `Input`, the receive interrupt two steps between which a frame may arrive, and `low_level_output` four steps of the stack's
thread.  The threads interleave freely: TCPIP_THREAD_PRIO 3 is osPriorityRealtime, the input task's own priority.  The HAL is not in the
repository; its handle lock and descriptor handling are taken from the copy FreeRTOS+TCP carries
(`_libs/FreeRTOSv10.0.0/.../NetworkInterface/STM32F7xx/stm32f7xx_hal_eth.c`), with the test and the setting of the lock as separate steps.
`cut` is history: the task went to sleep with a frame waiting, because it met the lock or found no pbuf.  Frames are numbered as they come, so order is
said of pairs: of two frames left in a ring, the one whose descriptor comes first (`Ahead`) has the smaller number.

**`HrTime`** - `GetTime`, `ReadSlowCount`, `ReadCountAgain` and `ReadFirstAgain` are the reads of the loop in
`ullGetHighResolutionTime`; `Count` is the timer, which raises its update flag when it wraps, `SetMask` the kernel.
`ProgramTIM2` is what `TimeMeasureInit` of the slide show and `MX_TIM2_Init` of the ADC monitor do to the same timer: another period, a counter that begins anew, a pending update;
`others` are those still to come, any subset of `OtherPeriods` at the start (prescalers are left out: they change how fast `now` passes), and `Own` says that none has come.  An interrupt that is
not masked is taken before the caller's next instruction (`Runs`).  `now`, `begun` and `missed` are history.

**`UartConsole`** - `step` is where a thread stands inside `xSerialPutChar` or `vSerialPutString` (before the HAL's start, inside it
with the handle locked, in the wait), `stage` what it is putting or waiting for.  `Transmit`, `TransmitStarts` and `WaitEnds` are common to the console and
to tasks that call `vOutputString`; the rest are the statements of `prvUARTCommandConsoleTask` between two waits.  A wait may expire
at any time: 512 bytes take 44.4 ms and the wait is 44 ticks; a character gets what is left of one tick.  The text being sent is named by the place it
belongs to, so that `Left` can tell a buffer changed under the transmitter.  A line that fills `cInputString` has no terminator: `ProcessCommand` and
`CommandEnds` choose between what the build may find behind it.  `typed`, `spelt`, `executed`, `astray`, `overrun`, `late`, `dropped`,
`garbled` and `unguarded` are history; `spelt` is what the keys typed so far mean after each of them: the command being typed and the
commands complete, by the operator `Meaning`, which knows nothing of queue or threads.

**`SlideShow`** - `show` is where the task stands; `Cut`, `Clip` and `Hidden` are `myClip`; `Start` is the interrupt-driven blend, whose refusal while another runs is
kept.  A transfer records its frame buffer, its name, the address it reads from and its clipped rectangle.  The task's arrays are on its stack: `local` holds their words (the pictures'
addresses, the icons' addresses, columns, rows, widths and heights, all of which the drawing reads), and `behind` is the word the compiler put behind `imagesAlpha`, any of them or
`Elsewhere`.  `AlphaIncrement` adds 2 to the two lowest bytes of that word in turn, each wrapping by itself (`ByteUp`), for as many pictures as there are beyond the array.  `imagesAlpha` takes
one aligned word, so the two bytes are in one word; the scalars of the task and saved registers are taken to be elsewhere.  `due` and `drawn` are history.

**`ModbusRegs`** - a request is a record of the fields of its frame, from `RegRequests`.  `Rejected`, `Reads`, `Writes` are the functions' checks up to the
callback, `WriteRegister` and `ReadRegister` one turn of its loops, `AllWritten` and `AllRead` what follows.  Addresses and counts keep their width, and
the count of a read keeps only its low byte as in the code.  What lies behind the last register, which the copy into the clock reads, is a choice.
**`RegisterFile`** is what a master sees.  The refinement mapping shows the registers as they will be when the write at hand has ended (`Pledged`), so the
first action of a write is the abstract commit, and the loop stutters.

**`DamageMonitor`** - `Convert` is one conversion and the DMA; the ADC task adds one sample per step, so the DMA can overtake it.  `strToView` is torn while it is
formatted, `StringCatAndView` completes it and releases the semaphore.  `TelNetConn` is null, live or deleted; it is tested in one step and read again in
another.  `netconn_write` is a call and a return: `CallWrite` and `CallAnswer` (the welcome and the answers of CLI_TCP on the same connection) enter it, `WriteText` and `WriteAnswer` leave it when the
client reads.  lwIP keeps one write under way per connection and refuses the other; a write may fail (`WriteFails`) and nobody looks; a write on a deleted connection, or
one under way when it is deleted, uses memory that is free (`WriteDangles`): it returns, hangs for ever or stops the board.
While the ADC task has suspended all others (`Suspended`) only interrupts and clients act.  `viewStarted` tells programs that start STR_VIEW from those
that do not; in the latter a damage ends in `configASSERT` (`Halted`).  `outOfRange`, `intact`, `unseen` and `failed` are history.

**`Board`** holds these five and observes one of them at a time, the one `observed` picks, while the others stand still; the states of one run are a sum rather than a product.
No variable is of two parts.  What parts do share is in the part it matters to: TIM2, which the show and the ADC monitor program, is among the clock's steps, and neither of those two
depends on its period in its model, since transfers and conversions may take any time.  The processor is shared too, and no part says how fast it runs.  `Board` composes the parts for
one run and proves of them together only the types; each part's promises are theorems about the part.  `MCBoard` gives the icons' geometry and the requests.

## 4. Runs

| Run | Shows | Bounds and why they are enough |
|---|---|---|
| `sd` | the unchecked put never overflows; RES_OK means that this call's transfer ended; the poll loop gives up early only when its deadline wrapped; until a call gives up on a running transfer the driver implements `DiskTransfer`; every call returns | queue 3 (the bound proved is 2), time-out 2 ticks, counter modulo 5: late interrupts from two calls, wrap inside a poll; proofs cover all values |
| `sd_poll_timeout` (violation) | `sd_diskio_dma_rtos.c:207`: near the wrap of the tick counter a finished transfer is answered RES_ERROR without a wait, against the comment at :208 | as above |
| `tftp_upload` | with loss, duplication, delay and re-sending an upload is a `FileCopy`: no hole, no repetition, no early ACK; a client that is done has its file on the card or in the hands of the callback that closes it; it reaches the card | 3 blocks, the last partial, block numbers modulo 5, two ports: a datagram can be two blocks old, and a second connection exists |
| `tftp_mixed` | two uploads and a download that start at any time, over one another, failing card and heap, uploaders that give up with an ERROR numbered like their next block: those that shared no file get and store the right blocks in order, downloads not got in the way of are complete, ports come back | three clients, two pcbs: two transfers of one direction overlap, and a request finds no pcb; 2 blocks, the last partial: a block and an end; error code 2 is the number of the last block; a card that has failed may still do any single call but is not trusted again (`Recover`, which the theorems leave open). 3.5 million states |
| `tftp_resend` (violation) | `tftpserver.c:349`: after an unexpected ACK new data is sent under the old block number, against the comment at :333 | one reader, 3 blocks |
| `tftp_write_error` (violation) | `tftpserver.c:409`: after a failed write the block is acknowledged all the same, against the comment at :385 | one writer, 3 blocks |
| `modbus` | the handlers' assertions; a waiting master's request is executed once, whole, and answered intact; it is served | three frames (own, broadcast, foreign in any order) of 3 bytes, buffer of 3: bursts reach the bound, a frame overtakes another at each step |
| `modbus_foreign` (violation) | `mb.c:372`: the PDU is taken 20 ms after the address check; another slave's frame can be executed, against the comment at mb.c:363 | as above |
| `wave_player` | output, order, position and end of track as in section 1 | four files (exact header, header longer than data as in plain wave files, no data, unsupported), one failure anywhere, any touches and reconnections |
| `ethernet` | the stack gets frames once and in order, the DMA sends them once and in order, pbufs are conserved, no frame waits without a wake-up unless the lock or an empty pool cut the loop short | 2 descriptors each way, 2 pbufs, mailbox of 1, 4 frames in, 3 out: ring, pool and mailbox are each full while another frame comes |
| `board` | the clock's answer is a time between call and return, or one period late, until another part takes its timer; texts are lost only to expired waits; the commands executed are those typed; what is displayed is whole and the show goes on; handlers and callback are a `RegisterFile`; no false alarm, and a text reaches its client unless a write fails | clock: period 3, 10 counts: up to three wraps during a call, masked or not; one other part, period 2. Console: 3 keys, queue and line of 2, one other writer, one expired wait: queue and line are full, a text is refused. Show: 5 by 6 pixels, icons across all edges, a margin that hides them, three pictures with one alpha value, bytes of base 8: increments carry an icon's size, place and address through all their values. Registers: 3 registers, bytes of base 3, requests inside, at the edge of and beyond the file, wrapping address, two bad lengths, a broadcast. Damage: one channel, window of 2, levels in and out of range. 406,314 states |
| `ethernet_output` (violation) | `ethernetif.c:239`: a frame the HAL refuses because the handle is locked is answered ERR_OK, against the comment at :178 | 2 frames each way |

Deadlock is checked in `sd` and `wave_player`.  `Board` stops where a history has reached its bound (time, keys), at a transfer error and in
`configASSERT`; `TftpTransfer`, `ModbusRtu` and `EthernetIf` really stop: the clients are finished, or the
line has carried `MaxFrames` frames (a bound of the model) and the task finds no event or sleeps on its semaphore.

**Fairness.**  `sd`: the tick never stops; a thread that can leave `osMessageGet` is scheduled; the poll loop is strongly
fair, since its body takes microseconds against a tick of a millisecond.  `tftp_upload`: clients do re-send, and a datagram
sent again and again arrives (the assumption of every protocol over a lossy network); the server is a callback, which runs
with the arrival and to its end (`CleanupStep`).  `modbus`: enabled interrupts are served, the running timer expires, and the task of high priority runs.
`wave_player`: the main loop never blocks and a running DMA reaches the end of its half.  `ethernet`: interrupts are served and the input task is
scheduled; nothing is assumed of the stack's thread.  `board`: a DMA2D transfer that runs ends (with success, or the show stops in the error callback), and the
show's, ADC and STR_VIEW tasks are scheduled; nothing is assumed of the Telnet task, the clients, the converter, the console or its writers.  No fairness is put on touch,
connections, failures, losses or masters.

**Timing.**  Four places use a bound the hardware gives.  `fresh` (Modbus): the task's delay of 20 ms is longer than T3.5, so a timer that
runs when the delay begins has expired when it ends, unless a byte came.  `struck` (player): a half of the buffer lasts longer than a pass of the
main loop that refills nothing.  `Count` (clock): a wrap is not left pending for a whole period of ten seconds.  `Pause` (damage analyser): the 100 ms of `osDelay`
are longer than what STR_VIEW, of the same priority, has left to do, unless it waits for its client.  Everything else may take any time.

## 5. Proofs

All theorems hold for every value of the constants that meets the named assumptions; TLAPS checks them to the last leaf.

* `SdDiskio_proofs` - the inductive invariant is `IInv`: the types; no messages without a queue; inside a call `call` is what was asked for; the
  bound of the queue; and `CleanInv`, which says that until a call gave up a message or running transfer belongs to the call that waits.
  `QueueNeverOverflows` is not inductive without `NoQueueInv` (initialising drops the messages), nor
  `OkMeansTransferred` without `CleanInv`.  From it: `TypeCorrect`, `QueueBounded`, `OkIsOwnTransfer`; `PollWindowCorrect` by arithmetic
  modulo `TickMod`; `StepRefinement` (every step maps to one of `DiskTransfer` or a stutter while `clean`) and `Refinement` (an
  environment that meets the time-out: `PromptSpec => Promise!Spec`).
* `TftpTransfer_proofs` - for any number of clients, blocks and ports.  `RouteInv` needs no assumption: a request gets a port of its own, an answer goes where the
  request came from, and a port is of one client.  From it `TransferTyped` and two inductive invariants, one for each direction.
  All of them let any number of transfers overlap, and speak of a client that is not in `shared`.
  `UploadInv` says what each packet under way may carry and that the open file holds exactly the blocks the transfer has counted (`FileKept`).  From it `StoredInOrder`.
  `DoneInv` adds, for a client neither harmed nor shared, that what it was told is stored (`Acked`); without `Complete` - the file is kept, or whole and about to be closed by the pcb in
  `"closing"` - it is not inductive, since the last acknowledgement is ahead of the close.  From it `DoneIsStored`; with nothing in the way (`Calm`) `AckedIsStored` and
  `UploadCopies`, the refinement of `FileCopy` action by action, in which keeping the copy is a step behind the client's knowledge of the last block.
  `DownloadInv` says that the block a client waits for is the last its
  transfer sent and that only one of the two has the next move (`Sent`, `AckOut`), because the server reads on whatever arrives; from it `TransfersNeverMix` and
  `DoneIsReceived`.  `PortsComeBack` is about all transfers, those that share a file included, and says who holds each pcb: a client that goes on, or a datagram that will end the transfer (`WriteHeld`, `ReadHeld`).
  The hypotheses are what the code needs, and the observations below say what happens without them:
  `Numbered` (`StoredInOrder`, `TransfersNeverMix`) - a file has fewer blocks than there are block numbers (`args->block` is an int);
  `OneRequest` (`DoneIsStored`) - and write requests are not repeated (each opens another transfer of the file);
  `AskedOnce` (`TransfersNeverMix`, `DoneIsReceived`) - block numbers again, and neither read requests nor acknowledgements are repeated (a second request opens a second stream of
  the one file, and every packet makes the server send a further block);
  `Alone` (`AckedIsStored`, `UploadCopies`) - `OneRequest`, one client, no failure, and no error code that is a block number (`Harmless`), since a download or a failure closes the file under
  the upload and a packet may be acknowledged all the same, and a client that gave up would leave its ERROR packet in the file;
  `LongEnough` (`UploadCopies`) - the file is not empty, since a copy of nothing has nothing to do;
  `RequestsOnce` and `~Lossy` (`PortsComeBack`) - a repeated request opens a transfer its client does not know of, and there is no time-out in the server.
* `ModbusRtu_proofs` - `Assertions`: `AssertsHold` follows from `Exclusive`, which relates the enabled interrupts to both states:
  while TXE is enabled the receiver is idle and deaf and the timer is off.  `SlaveTyped`, `ExecutedOnce` and `ReplyLeavesWhole` follow from `RequestInv`, which adds `Course`: as
  long as the master is patient, either nothing is asked and what the buffer holds is not taken for a request (`Quiet`), or the request is in the buffer, whole and not executed
  (`Asked`), or it was executed, the reply is whole and no event is left that could execute it again (`Answered`).  The event under way - posted, copied out by the task but still in the
  slot, handled - is part of each, because an interrupt between two statements of the task posts a second one.
* `WavePlayer_proofs` - `TypeCorrect`, in two halves because the SMT back end takes values and Zenon truth values;
  `NoUnknownOutput` from `Speaker`: a pass that stands inside PLAY is in PLAY, or has found the end and stopped the output;
  `PositionFollows` from `Followed`: the output belongs to the file of the list at `FilePos`, which has data.  That first part is why a restart that
  reads nothing cannot leave a paused output with another position.  `TrackHeardInOrder` from `InStep`: while the output runs, each half of the buffer holds the next half of the
  track after what was heard, except the one owed a refill, for which a flag is set or a call of the main loop is under way.
* `EthernetIf_proofs` - `NoFrameForgotten`: `NotForgotten` with `HandlerGave` (while the handler runs the semaphore is still given, which is why a
  flag cleared after the callback loses nothing).  `PbufsConserved`: `PbufsKept` with `Counts` (the hand is empty where a frame is copied) and
  `Descriptors` (what the task may copy is filled), since an empty hand and frame 0 must not be confused.  `FramesInOrder` and `SentAsOutput`: a ring is a queue whose
  filled descriptors lie together, from the oldest to the writer's, with increasing frames (`Queue`; lemmas for an item put in and taken out).  `RxInv` and `TxInv` are that
  queue for each direction, with what has been delivered before it.  `InterfaceTyped` collects the types.
* `Board_proofs` - clock, console and damage analyser, each for its own specification, and the board's types.
  `ClockReadsTime`: as long as TIM2 is the clock's own, the invariant relates the registers to the time (`now` is wraps counted, the pending one included, times
  the period, plus `CNT`) and each of the reader's copies to a moment of the call: `ulSlowCount` is the count then or, when the interrupt came since, one less,
  in which case the counter has fallen below `ulCounts0` and the loop goes round.
  `LossIsPaid`: unless `unguarded`, one thread at a time puts a text (who holds the mutex, or the welcome), and `dropped` never exceeds `late`
  less the transmission still running and the semaphore given too early; that account is the invariant.
  `LinesExecutedAsTyped` from `ConsoleInv`: the queue is the end of what was typed (`Queued`), `spelt` follows `Meaning` key by key, and the console's line, last line and
  commands are those of the keys it has taken (`InStep`, one conjunct for each place it can stand at).
  `AlarmHasCause` from `MonitorInv`: as long as no sample was out of range the buffer the task averages holds only samples in range, each partial sum lies between as many
  samples at the limits, and so does their quotient.
  `BoardTyped`: whichever part is observed, the types of all.  That is all that is proved of the parts together: since one is observed at a time, a theorem about the board would
  only repeat those about the parts.
* `SlideShow_proofs` - `ClipIsVisible` by arithmetic on one dimension, lifted to rectangles and to the offset of each pixel; `DisplayIsWhole` from the
  invariant that `due` is `drawn` plus the transfer that runs, that the semaphore is given exactly when a transfer has ended whose wait has not, and that every word of the task's arrays
  but the rows, the columns and the one `behind` still is what it was given (`Kept`).  No assumption is made on which word is hit; the claim that an icon is drawn right leaves out the one whose own address, width or
  height was, and the claim that a picture comes from its place leaves out the one whose own address was.
* `ModbusRegs_proofs` - `HandlersAreARegisterFile`: `MbSpec => File!Spec`.  The invariant `RegsInv` keeps the callback's index, count and words
  in step (`Underway`); each action is shown to be the abstract action of its name or to leave the mapped variables alone.

Beside the assumptions on the constants, which each module names and TLC evaluates on every run, the theorems have no hypotheses except those of TFTP
and the environment of `Refinement` above.

**Only model-checked:** liveness - `CallReturns`, `UploadStored`, `RequestServed`, `TrackEnds`, `FrameServed`, `ShowGoesOn`, `TextArrives` - which needs fairness and ENABLED,
outside TLAPS.  Every safety property of a passing run is stated by a theorem.

**What the properties leave out.**  Some of the failures below happen in the models, and a history variable or a condition takes them out of the properties, which would otherwise say
what the code does not do: `clean` (late messages of the card), `harmed` and `shared` (TFTP transfers that cut each other off, mix, or meet a failing card), `patient` and `torn` (bytes behind a checked
request, a lost event), `excused` and `CanEnd` (lost refills, plain wave files), `cut` (the Ethernet task put to sleep), `Own` and `missed` (the clock's timer), `astray` and `overrun` (lost keys,
a full line), `Spoilt` (the slide show's arrays), `failed` (the analyser's writes).  The hazards of `PROJECT.json` list only the properties that would catch them, and name what is
excused.  `ImplementsRegisterFile` takes the checks of a request (`Verdict`, `ReadCount`) from the code, so it is about what happens behind them and would not find them wrong.

## 6. Observations without a run of their own

Found while modelling; each is visible in the models but contradicts no sentence of the sources, or needs a part that is left out.

* SD: CTRL_SYNC answers RES_OK while the DMA of a write that timed out still runs (`sd_diskio_dma_rtos.c:303-305`); when the queue could not
  be made the driver reports success and the interrupt puts to NULL (:346-350; `fault` in the model); a volume is initialised once, with or without success.
* TFTP: the ACK of the last block closes a download whatever it acknowledges (`tftpserver.c:337-348`); an ERROR packet on an upload's port is
  taken for data (:375-377) when its code is the awaited number, and written into the file; there is no re-send timer (:71-73); block numbers wrap at 2^16; a failing `f_opendir` strands a pcb.
  Two uploads at once are written into one `file_CR`, two downloads read on in one `file_SD` (:78, :495, :538): their blocks mix, and the clients are told all is well (`shared`); each
  request's mount and each clean-up's unmount cuts off the other direction (:571, :591), whose download looks complete and is not (`harmed`).  The result of the `f_close`
  behind the last acknowledgement is ignored (:274): a client may be done and the card have nothing.
* Modbus: `rtu/mbrtu.c:157` asserts less than the 256 bytes :270 accepts, harmless only because `assert` is an empty macro in `port.h`; an
  event posted inside `xMBPortEventGet` is lost (`torn`); no program of the workspace starts the task (`freertos.c:37`).
* Player: a plain wave file never reaches its end, since `fptr` counts the data behind the 44-byte header while FileSize counts the file
  less 8 (`waveplayer.c:279`, :242; the model's second file); pausing can drop an interrupt, and the half is heard twice; after a failed read or a
  lost key the state stays PLAY with the output off; the last halves read are not heard; ByteRate is 0 at :341 when no header was ever read.
* Ethernet: a frame left behind by `cut` waits for the next frame's interrupt, and when all descriptors are full then no frame can be received
  and none will interrupt again.  It takes a time slice that ends inside the HAL's lock for each of them, or an empty pbuf pool.

* Run-time clock: when a task switch reads the time with the interrupt masked and a wrap pending, the answer is a period of ten seconds behind (`missed`), and the
  kernel's unsigned difference becomes huge once.  `TimeMeasureInit` (`app_slideshow.c:327-339`) and `MX_TIM2_Init` (`app_adc.c:280-306`) program the same TIM2 with another period and prescaler, in a program that
  uses the clock and the show (`ADC_MultiChan_TCP_CLI/Src/freertos.c:43`, :55): from then on the clock's answers are wrong, which the model has and `ReadingIsTime` leaves out (`Own`).
* UART console: `HAL_UART_ErrorCallback` (`CLIconsole_UART.c:333`) re-arms nothing and a refused `HAL_UART_Receive_IT` (:310) is ignored: either leaves the console deaf.
  512 bytes take 44.4 ms, the wait is 44 (:238).  The echo waits for at most one tick (:231).  CR LF executes the last command a second time, since LF finds an empty line;
  the test for `\r` at :119 is never reached.  A full line (:132) has no terminator.
* Slide show: the last column and row are never drawn (`myClip` compares with the size less one), :282-288 can never be taken, `FillBuffer` (:351) hands an
  uninitialised handle to the HAL, and `imagesAlpha` is two elements short (:79): each turn of the show changes two bytes of whatever lies behind it (:107).  Where that is a picture's or an icon's
  address, or an icon's width or height, the transfer reads memory that is not the picture's (`Spoilt`); it never leaves the screen, and the show goes on.
* Modbus registers: the high byte of a read's count is lost (`mbfuncholding.c:185-186`), so 0x0102 registers are read as 2; a combined request that is too short is echoed as a
  success (:247, :305), and one whose read is refused has written; a write of register 35 or above sets the clock from behind the array (`app_modbus.c:119-126`).
* Damage analyser: `FreeRTOS_v10_TCP_CLI_ADC6ch/Src/freertos.c:16-20` starts the ADC task but not STR_VIEW, so the first damage releases a NULL semaphore and the board
  stops in `configASSERT`; opposite extremes within a window cancel out in the mean.  The display task may write on a connection that CLI_TCP is deleting or has deleted
  (`app_viewString.c:58-60`, `CLIconsole_TCP.c:137-139`; `dangling`), which may hang the task or stop the board; a text or a part of an answer is lost without a word when both tasks
  write at once.
* DHCP task: after the time-out the static address is set but no Telnet task is started (`app_eth_dhcp.c:152-162`), and a cable plugged in later is never noticed (:167-171).

## 7. Not modelled

See the components with status `not_modelled` in `PROJECT.json`.

* The DHCP task is a polled switch over what lwIP's client and timers say; lwIP is not in the repository, and what could go wrong is between the two.
* The USB and UDP consoles, the UART, button and encoder tasks and the two disk tasks are started by no program (some name a variable, `AP`, that no file declares); their line editing is that of the
  modelled console.
* The CLI commands format what library calls return; graphics demos draw; Modbus ASCII and TCP are selected by no program; the drivers without interrupts are sequential.
* Of the repository's 1.16 million lines nearly all are pictures, icons and fonts in C arrays (`_apps/img*.h`, `icon_*.h`, `button.c`) and vendored or generated code, one copy per
  program.  The parts modelled here are the workspace's own logic, a few thousand lines.
