# drDRO firmware: verification

TLA+ models, model-checking configurations and machine-checked proofs for the drDRO STM32F411
firmware: the application (`app/`), the dual-bank bootloader (`bootloader/`), the settings and
handshake they share (`shared/`), the host updater (`tools/dro_update.py`) and the real-time kernel the
application runs on (`app/lib/FreeRTOS`, with its CMSIS-RTOS2 wrapper).

## 1. Inventory

### The parts

| Part | Code | State it keeps | Operations |
|---|---|---|---|
| Settings store | `shared/Settings.h`, `app/src/SettingsStore.c`, `bootloader/src/flash.c` (`flash_write_settings`) | two 16 KB flash slots, each one struct with CRC, used size and sequence number | load (pick the newest valid slot), prepare and seal, erase the older slot, program it word by word |
| Boot decision and banks | `bootloader/src/main.c`, `flash.c` | Exec region, bank 0, bank 1, the settings core (`active_bank`, `loaded_bank`, `boot_mode`, `bank_crc[]`), `BOOT_FLAG` in `.noinit` RAM | decide between CLI and boot, trust a bank, copy it into Exec, record it, jump |
| Bootloader CLI | `bootloader/src/bl_cli.c` | (none of its own) | `bank`, `boot.mode`, `erase`, `flash`, `copy`, `boot`, `rollback`, `reset`; read-only: `version`, `info`, `crc`, `help` |
| YMODEM receiver | `bootloader/src/ymodem.c` | expected block number, bytes written | handshake, data loop, EOT handshake |
| Host updater | `tools/dro_update.py` | position in the update cycle, target bank | `update`, `info`, `flash` + YMODEM send, `bank`, `boot`, `version`, with retries and timeouts |
| Line protocol | `app/src/Protocol.c` | line buffers shared by the UART interrupt and a task, last command | byte feed (interrupt), service (task), `get`/`set`/`save`/`load`/`bank`/`rollback`/`update`/`reset` |
| Motion | `app/src/Ramps.c`, `app/src/Scales.c` | scale positions, sync remainders, desired and current steps, index and jog ramps | 100 kHz interrupt, `updateSpeedTask`, `servoEnableTask` |
| Hand-off | `app/src/main.c` | `BOOT_FLAG`, the RAM vector table | `EnterBootloader`, start-up order |
| Heartbeat LED | `bootloader/src/main.c` (`bl_led_service`), `userLedTask` | blink phase | blink |
| Scheduler, tick, notifications | `tasks.c`, `list.c`, `port.c`, thread calls of `cmsis_os2.c` | ready, delayed and pending lists, tick count, suspension depth, priorities, a notification state and value per task | delays, yield, lock, notify, thread flags, suspend/resume, priority, create/delete, tick and switch |
| Queues, semaphores, mutexes | `queue.c`, `semphr.h`, `cmsis_os2.c` | ring of items, two event lists, two locks, holder and recursion | send, receive, take, peek, give (also from interrupts), reset, delete |
| Event groups | `event_groups.c`, `cmsis_os2.c` | bits and their waiters | set, clear, wait, meet, delete |
| Stream and message buffers | `stream_buffer.c` | ring with head and tail, one waiting task per end, trigger level | send, receive (also from interrupts), next length, reset, delete |
| Software timers | `timers.c`, `cmsis_os2.c` | two lists of running timers, a command queue | start, stop, reset, period, delete, pend a function, the timer task |
| Memory pools | `cmsis_os2.c` | counting semaphore and free list | allocate, free (also from interrupts) |
| Heap | `heap_4.c` | free blocks, bytes left and the least there was | `pvPortMalloc`, `vPortFree` |
| Ownership of memory | the create and delete functions of all of these | which part of an object is whose | create with all, none or some memory given, delete, cleanup by the idle and the timer task |
| Co-routines | `croutine.c` | none: `configUSE_CO_ROUTINES` is 0 | |
| Peripheral glue, tooling | `tim.c`, `gpio.c`, `usart.c`, `*_it.c`, `syscalls.c`, `make_factory.py`, `build-release.sh`, CI | | |

### How they interact

* Application and bootloader never run at the same time. They meet in flash (settings, banks,
  Exec) and in `BOOT_FLAG`, and hand over by a jump, so RAM survives the hand-off and only a
  loss of power clears it.
* Both programs read-modify-write the whole settings struct. They may be of different versions:
  the bootloader is flashed once, the application is updated and rolled back.
* The host talks to whichever of the two answers on the same serial line. `bank`, `rollback`,
  `reset` and `version` are commands of both.
* The bootloader calls the YMODEM receiver, which programs flash as blocks arrive; `cmd_flash`
  then checks the vectors and records the CRC of the region.
* In the application the UART interrupt fills a line buffer and wakes the protocol task; the
  task writes the variables the motion interrupt reads.
* The application's tasks sleep with `osDelay` and wait for thread flags the UART interrupt sets: the
  part of the kernel the firmware leans on. Everything else of the kernel meets in the task lists:
  an object has event lists, and who waits is on one of them and on a list of delays at once.
* Three of the kernel's services use others: timers send their commands through a queue, and set
  event bits for interrupts; pools count with a semaphore; buffers wake with notifications.

### What is hard

* Power may go at any word of any flash operation: settings slots, Exec copy, bank transfer.
* Trust in a bank rests on two facts that are recorded at different times (vectors in the first
  block, CRC after the last), and `loaded_bank` is a cached claim about the content of Exec.
* The line loses and damages bytes in both directions, and both sides act on timeouts.
* Sequence numbers are compared modulo 2^32 and builds disagree on the size of the struct.
* An interrupt, a task and a slow flash operation share the protocol's buffers; three tasks and
  an interrupt share the motion variables.
* The kernel's calls do their work in several critical sections, or under a suspended scheduler that
  interrupts go on under: wake-ups are deferred by locks and by the pending list, and delays
  are compared across the wrap of the tick count.
* A mutex lends priorities, and a time-out takes them back while others may still be waiting.
* Reader and writer of a stream buffer share a ring without any lock.
* An object is made of several blocks of the heap, any of which may not be to be had, and may be freed by a
  task other than the one that deletes it.

### What makes each part correct

* Settings: the two slots are one atomic register; a save that reports success is what is read;
  a save keeps the fields it did not mean to change.
* Boot: what runs has run before, or is a complete copy of a bank whose CRC is recorded (that this is of a whole image
  the code does not ensure: see the findings); a boot ends in the application or in the CLI; Exec holds the
  active bank when the application starts; `BOOT_FLAG` is one-shot.
* Update: until a new bank is selected the old firmware starts; every interrupted copy is
  repeated; a quiet update ends with the new file running.
* YMODEM: what is programmed is a beginning of the file, success means all of it, both sides end.
* Protocol: a line sent once is executed once, whole, and none is left unanswered.
* Motion: no encoder count and no step is lost in the arithmetic, and the motor follows.
* Scheduler: the most urgent ready task runs; a delay ends at its tick; no wake-up is lost.
* Services: a queue is a bounded FIFO; nobody sleeps on what is there; priorities are lent and given
  back; bytes arrive in order; a timer expires once, in its time; the heap is a partition and
  every block in use has one owner.

## 2. Plan

The order is by how much depends on the part and how far its failures are from a test bench.

| | Module | Extends / instances | Answers |
|---|---|---|---|
| 1 | `SettingsRegister` | | what the settings store promises: one atomic register |
| 2 | `Settings` | instances `SettingsRegister` as `Register` (refinement) | how two ping-pong slots keep that promise |
| 3 | `Bootloader` | instances `SettingsRegister` as `Store` | boot decision, banks, CLI, application commands, faults |
| 4 | `DroUpdate` | extends `Bootloader` | the same system driven by the updater |
| 5 | `Ymodem` | | the transfer that `Bootloader` abstracts to `ReceiveBlock`, `ReceiveDone`, `ReceiveShort`, `ReceiveFails` |
| 6 | `Protocol` | | interrupt, task and client of the line protocol |
| 7 | `Sync`, `Servo` | `Ratio` (integer division) | encoder counts to steps; steps, ramps and pins |
| 8 | `TaskLists`, `Sched` | `Sched` extends `TaskLists` | the kernel's lists; tasks, interrupts and switches in turn |
| 9 | `Notify`, `Kernel` | `Kernel` extends `Notify` extends `Sched` | the scheduler as its tasks see it |
| 10 | `Objects`, `Fifo`, `Queue` | `Objects` extends `Sched`; `Queue` instances `Fifo` as `Promise` (refinement) | queues, semaphores, mutexes |
| 11 | `EventGroup`, `StreamBuffer` | `Objects` (and `Notify`) | the services that wait without a queue |
| 12 | `SoftTimers`, `MemoryPool` | `Queue` (and `EventGroup`) | the services built on queues |
| 13 | `Heap`, `Ownership` | `Ownership` extends `Objects`, `Heap` | memory, and whose it is |
| 14 | `Requests` | `SoftTimers`, `StreamBuffer`, `MemoryPool`, `Ownership` | what a program may ask of them |
| 15 | `Services` | `Requests` | all of them on one scheduler and one heap |

`SettingsMC`, `BootloaderMC`, `DroUpdateMC`, `MotionMC`, `KernelMC` and `ServicesMC` hold the instances for
TLC that a `.cfg` cannot write (functions, negative numbers, programs); `Ymodem` and `Protocol` need
none. The proofs are in `BootChain_proofs` (`Bootloader`, `DroUpdate`, `Settings`), `Ymodem_proofs`,
`Application_proofs` (`Sync`, `Servo`, `Protocol`), for the kernel in `TaskLists_proofs` (what each operation on
the lists does) and `Kernel_proofs` (the invariant of the scheduler), and for the services in `Services_proofs` (the invariant they all
keep) and `Promises_proofs` (what they promise, from that invariant); `Folding` is what these need to know of a fold.

`Settings` and `Bootloader` meet in `SettingsRegister`: the first is shown, by TLC and by proof, to
implement it, the second is written against it (`Store!Begin`, `Store!Commit`, `Store!Abandon`), so
the boot chain need not carry two slots and their words. `Queue` is shown, by TLC and by proof, to implement `Fifo`
in the composition `Services`, whatever the other services do.

All of these are written, and checked by the runs below. What a continuation would take up:

1. Proofs of the services' remaining properties, on `ServicesSound`: see the end of section 6 for what each of them needs.
2. `Servo`: `MotorReaches` needs a measure of the ramp, of which only the safety half is in TLAPS' reach.
3. `Sync` and `Servo` composed with two scales asking in one interrupt.
4. Deletion of a pool and of an event group under their users, once it is decided what the code should do.

## 3. Modules and code

### Settings (`shared/Settings.h`, `SettingsStore.c`, `flash.c` `flash_write_settings`)

| Model | Code |
|---|---|
| `slot[n]` = image and number of its words that are in flash | a sector: header, fields, CRC |
| `image.seq`, `image.used`, `image.field` | `seq`, `used_size`, the fields in append-only order |
| `SettingsValid` | magic, size and CRC accepted by `settings_valid` |
| `NewestSlot`, `SeqNotOlder` | `settings_pick`, `(int32_t)(a - b) >= 0` |
| `SettingsLoad(b)` | `settings_load_one` by build `b`: known prefix, the rest from the defaults |
| `BeginSave(b)` | load, assign the fields of one caller, `settings_prepare`, `settings_seal` |
| `EraseSlot`, `ProgramWord`, `FinishSave` | erase, word loop with read-back, return 0 |
| `FlashError`, `SavePowerLoss` | any of them failing, a brown-out |

`Owned[b]` is the set of field sets that the callers of build `b` assign in one save: the board
core (bank selection, boot, CRC) or the application's payload. An image is valid when all of its
words are there: the CRC is taken to detect every incomplete image.

### Bootloader (`bootloader/src/main.c`, `bl_cli.c`, `flash.c`; `app/src/Protocol.c`, `main.c`)

`exec` and `bank` are the three regions, as functions from chunk to the file the chunk came from;
`settings` is the record `settings_load` returns (or `None`), `pending` the one a save is writing;
`flag` is `BOOT_FLAG`; `pc`, `cmd`, `arg`, `file` and `off` say which operation the processor is in
and how far. `Main` and the three `Boot...` actions are `main` and `bl_boot_app` up to the first
flash operation; `EraseSector`, `CopyChunk`, `CopyDone` are `bl_load_bank`; `ReceiveBlock`,
`ReceiveDone`, `ReceiveShort`, `ReceiveFails` are `cmd_flash` around `ymodem_receive`. The transfer may end with
`YM_OK` at any point, before the first block and its erase included, because `ymodem_receive` breaks on EOT
without comparing `written` with `filesize`: `ReceiveDone` is that end after the whole file, `ReceiveShort`
(an early EOT, an empty file) any other. Both run the same handler, `ReceiveOk`: it checks the vectors and records
`RegionCrc`, the CRC of what the bank then holds. `SaveOk`, `SaveFails` with
`SaveReturns` are the ends of every save and what each caller does with the result, ignored results
included. Each CLI command that changes state is an action `Cmd...`, each command of the
application one of `App...`. `info`, `crc`, `version` and `help` change nothing.
`FlashFails` and `PowerLoss` are the faults; `Torn` is what an interrupted erase may leave.

### DroUpdate (`tools/dro_update.py`)

`host` is the exchange the tool is at; the device is `Bootloader`. `Host...` actions send a command
or take a reply; `Hears` is the reply that the end of a device handler produces. `HostTimeout`,
`HostInfoLost`, `HostNoBoot` and `HostDies` are lost replies, `--no-boot` and an interrupt.
`running`, `selected` and `misled` are history for the properties; `quiet` is chosen at the start: nothing
disturbs a quiet update. `--bank` is there for the inactive bank, which is also what the tool picks by itself.

### Ymodem (`ymodem.c`, `ymodem_send` of `dro_update.py`)

`spc` and `rpc` are where sender and receiver wait, one state per read with its timeout.
`toDevice` and `toHost` are what is on the line. A packet is its block number and the part of
the file it carries. `Loses` drops or damages, `Misreads` turns a packet that lost its first byte
into the headers its payload may look like. A timeout is possible at any time; one that comes while the
other side still has something to read or to answer is recorded in `faults` as `early`.

### Protocol (`app/src/Protocol.c`)

`line`, `pendEOL`, `ready`, `readyFlag`, `txActive`, `last`, `resetPending` are the static variables
`sLine`, `sPendEOL`, `sReady`, `sReadyFlag`, `sTxActive`, `sLast`, `sResetPending`; `woken` is the
thread flag; `pc` the place of `protocolTask`, with one step for every access the receive interrupt
can fall between (`Wait`, `TakeLine`, `MarkBusy`, `ProtocolProcessLine`, `Transmit`, `Answered`).
`RxCplt` with its four `Feed...` cases is `HAL_UART_RxCpltCallback` and `ProtocolFeedByte`. The rest
is a client that waits for its answers, may end a line with CR, LF or CR LF, may give up, and loses
bytes. `clean` counts the exchanges since the last fault, so that the properties can say when the
board must be in step again.

Two facts about time enter as guards. `Urgent`/`late`: the task outranks the others and needs a few
instructions from its wake-up to `sTxActive = 1`, a byte takes 87 us, so one byte fits in between
and never two. `BusSettled`: `PROTOCOL_TX_SETTLE_MS` lasts 23 byte times, so the LF of a CR LF has
come before the answer is composed.

### Ratio, Sync (`Ramps.c` 106-112, 233-254; `Scales.c`)

One scale. `count` is the timer, `seen`, `position`, `oldPosition`, `error`, `num`, `den`, `syncEnable` the
fields of the same role. `Turn` moves the encoder, `SyncTick` is one pass of the loop in
`SynchroRefreshTimerIsr`, `SetPosition`, `SetRatio`, `SetSyncEnable` are `set` commands, which may fall
between any two ticks. `place`, `unseen`, `owed`, `written` are history. `Quot` and `Rem` of `Ratio` are C's division,
and the Cortex-M4's for a divisor of zero.

### Servo (`Ramps.c` 114-218, 256-286, 321-377)

`Tick` is the rest of the interrupt: the ramp of the mode (`Rest`, `Indexed`, `AtTarget`, `Jogged`),
then the pulse slot (`Slot`) or its absence. `UpdateSpeed` is the cadence set by `updateSpeedTask`;
`EnableTest`, `EnableWrite` and `EnablePin` are `servoEnableTask` cut where the protocol task can come
between.
`ServoClient` is any `set` of the servo's variables. `lag` is `desiredSteps - currentSteps`, the only
thing the code reads the two for.

`MotionMC` puts the two side by side in one run: in every behaviour one of them moves. They meet in a
number of steps only: a tick of `Servo` takes any of `Requests`.

### The kernel: TaskLists, Sched, Notify, Kernel (`tasks.c`, `list.c`, `port.c`, `cmsis_os2.c`)

| Model | Code |
|---|---|
| record `k` | the static variables of `tasks.c` and the fields of the task control blocks |
| `k.ready`, `.delayed`, `.overflow`, `.events["pending"]`, `.suspended`, `.dead` | the state lists; lists that the code keeps sorted are sequences in that order, the others keep their ring order |
| `k.tick`, `.ovf`, `.unblock`, `.pended`, `.susp` | `xTickCount`, `xNumOfOverflows`, `xNextTaskUnblockTime`, `xPendedTicks`, `uxSchedulerSuspended` |
| `k.pendsv`, `.missed` | the PendSV bit, `xYieldPending` |
| `pc[t]`, `frame[t]` | the place of a task in a call, and the call's arguments and locals |
| `Moves(from, to, next)` | what the running task does inside one critical section |
| `SysTick`, `PendSV` | `xPortSysTickHandler`, `xPortPendSVHandler` with `vTaskSwitchContext` |

`TaskLists` has the operations on lists as functions from kernel to kernel (`IncrementTick`, `ResumeAll`,
`AddCurrentToDelayed`, `RemoveFromEventList`, `Inherit`, `DisinheritAfterTimeout`...), so that a call composes as many as its
critical section holds. `Sched` has the turns: the running task steps only when no switch is pending; an interrupt
may come between any two steps; PendSV goes before the next SysTick. `Notify` has
`xTaskGenericNotify` and its kin, `Kernel` the thread calls, each cut at every point where interrupts
are enabled. `program` says which calls which task may make, in any order and for ever: the kernel is checked
under programs, not under one schedule. `Sensible` says what a program may ask for: calls with arguments the wrapper and the kernel
take, on tasks of the program, and nobody stops the idle task. A notification of a task that stands in an event list fails a `configASSERT` (`Misplaced`); then the kernel
stands still (`NotifyAsserts`). `left` and `systicks` are references that count what the
kernel's clock should show.

### The services: Objects, Queue, Fifo, EventGroup, StreamBuffer, SoftTimers, MemoryPool, Heap, Ownership, Services

`obj` is a function from the name of an object to its record; `Objects` has the ends that calls share.

* `Queue`: the wait loop of send, receive, take and peek is one loop over the steps `try`, `suspend`,
  `lock`, `place`, `unlockTx`, `unlockRx`, `resume`, `final`; `CopyIn` and `CopyOut` are the ring with its read and
  write positions; `SendsFromISR` and its kin count deferred wake-ups in `tx` and `rx`, which `UnlockTx` and
  `UnlockRx` make good. `TryAsserts` is the `configASSERT` that can fail (see Findings). `Fifo` is the abstract
  specification; `Promise` maps the ring to the sequence it stands for.
* `EventGroup`: the scheduler is suspended while the waiters are gone through, and interrupts do not
  touch a group, so going through them is one step: `Releases` is the fold of `Release` over the waiters that `Judged`
  picks. `rounds` counts meetings for the property. `EventFlags` are the bits that programs use, apart from the control bits.
* `StreamBuffer`: one step per access to the shared ring (`data`, `copy`, `tell`...), because no
  lock makes more of them one. Bytes are numbered in the order they are sent.
* `SoftTimers`: the timer task step by step around its samples of tick and queue (`TimerLook`, `SwitchOne`,
  `Await`, `SleepUntil`, `NextCommand`, `SampleTime`, `Act`, `Expire`), and the commands of tasks and
  interrupts, which are items of the queue `tq` of module `Queue`.
* `MemoryPool`: `Allot` and `Free` are the critical sections after and before the semaphore of `Queue`.
* `Heap`: `pvPortMalloc` and `vPortFree` as one step each (both suspend the scheduler); the address-ordered
  list of free blocks is the set of them, with the first fit as the one of lowest address.
* `Ownership`: one step for every `pvPortMalloc` and `vPortFree` of a create or delete function, with what is given
  back when a part is not to be had; the idle task frees a thread that ended, the timer task a timer.
  `FromHeap` is what of an object's parts came from the heap, in order; `ForItself(b)` a block that a task has allocated for itself, with no object.
* `Requests`: `Sensible` says of a program that its calls have arguments the wrappers and the kernel take (a `configASSERT` or a check of
  a parameter stands behind each conjunct), on objects of the right sort; interrupts do not use a mutex, only a queue of one item is overwritten, and an
  object is made by one task (`OneMaker`: it has no handle for another before it is made).
* `Services`: all of them, with tick, switch and heap. A run starts shortly before the tick count wraps
  and is followed for a few ticks.

## 4. Runs

| Run | Instance | States | Shows |
|---|---|---|---|
| `settings_mixed` | bootloader and old application with 2 fields, application with 3; two values; seq modulo 4 | 53,388 | the two slots are one atomic register, also across the wrap of seq and with faults at every word; a save keeps the fields its build knows |
| `settings_oldboot` | the same | violation | a save by the shorter build drops the longer build's field |
| `boot_all` | one bootable file, one that is not; two chunks | 456,519 | no mixture; a recorded CRC changes only by a flash that ended well, to that of what the bank then holds; one-shot flag; every boot ends |
| `boot_partial_exec` | two files and a bad one, no flash faults | violation | a partial image can be run |
| `boot_stale_exec` | the same | violation | `boot` can run an old Exec |
| `update` | two files; quiet or with every fault but those of the flash | 896,279 | driven by the updater, what starts ran before or is a complete copy of a bank with its recorded CRC, and an interrupted copy is made again; the old firmware starts until another is selected; a quiet update ends with the new file running |
| `ymodem` | files of 0 to 3 blocks, region of 2, 2 tries, 3 packets or replies on the line | 123,623 | what is programmed is a beginning of the file; success is true on both sides; a clean transfer completes; the sender ends |
| `ymodem_stall` | the same | violation | the receiver never returns after the sender gave up |
| `protocol` | plain, checked and jumping command, lines of 2 bytes | 149,441 | a line sent once runs once; no echo; one pause resynchronises; every line is answered |
| `motion` | 16-bit as 2 bits, position of 2 laps, positive, negative and zero den; speeds up to 3 half steps per tick, targets either way, two jogs, 3 writes | 302,450 | no count lost, every movement owed until paid, debt below one step; pulses follow DIR; the motor comes to rest where it should |
| `kernel` | 10 programs for three tasks and idle: the firmware's own pattern, equal priorities, delays across the wrap, flags, notification values, suspension, resumption by an interrupt, priorities, creation and deletion | 264,267 | the most urgent ready task runs; lists are sound; no tick, delay or wake-up is lost |
| `services` | 34 programs over queues, mutexes, groups, buffers, timers, pools, heap and ownership | 330,059 | a queue is a bounded FIFO; nobody sleeps on what is there; priorities are lent and given back; bytes in order; timers on time; memory accounted for |

Each property and what it is made of:

* `SuccessIsTrue`: `OkMeansWhole` (YM_OK: the whole file is in flash) and `DoneMeansOk` (a sender that ends in peace is right).
* `LineSound`: types and `NoEcho`. `ListsSound`: types, `OneList` (a task is in one list, where the search for the next
  task finds it), `DelayedAhead` (the delayed lists are ordered and on their side of the wrap), `Accounted` (what is
  enumerated is what there is, in the state that is reported).
* `PrioritiesPrevail`: `UrgentFirst`, `MutexHeld`, `InheritancePrevails`, `PriorityRestored`. `GroupsSound`:
  `NobodyWaitsInVain`, `NobodyLaps` (who meets stays within a round of the others). `TimersOnTime`: `NeverEarly`,
  `NoneMissed`. `MemoryAccounted`: `NothingLeaks` (every block in use has one owner), `BytesCounted`.

Why the bounds are enough:

* *Chunks = 2*: the first chunk holds the vectors and the rest does not; the code treats all the
  chunks after the first alike.
* *Files*: old and new in the update (alike, so that `MCSpec` starts with the first); in `boot_all` a mixture
  needs two files, one of which may be the bad one. A file the bootloader refuses is `boot_all`'s matter; in
  the update it ends like a failed transfer, and the theorems hold for every set of files.
* *Three fields, three builds*: core, old payload, appended field; a writer shorter and one longer
  than the reader.
* *SeqHalf = 2*: two valid slots are one apart, so a modulus of four shows every wrap. The proofs
  hold for every width.
* *Ymodem*: one block more than the region shows the refusal; a file of 0 blocks the end without
  data; `BlkMod = 5` is as in the code larger than the number of blocks (a bank has 128 KB, 128
  blocks, so the number does not wrap). Two tries tell the first from the last; three packets on a
  line hold a late answer, its repetition and one more.
* *Protocol*: a checked command needs two bytes, so `LineMax = 2` makes over-long lines easy to reach.
  `Settle = 2`: the line after the pause may be lost with the remains of the one before, the next
  must not be.
* *motion, Sync*: the timer wraps after four counts and the position after eight, so every wrap meets
  every state; num and den of both signs that do not divide each other carry a remainder.
* *motion, Servo*: half a step and one and a half steps per tick (capped at one by `updateSpeedTask`) give carried
  fractions; three writes in a row suffice to turn a move round in mid-ramp and stop it; the
  lag wraps at 3, which jogging faster than the pulse rate reaches.
* *kernel*: the tick count has 6 values and every delay is shorter than that, so a delay that crosses the wrap meets
  every state of the others; `MaxPended = 2` ticks may be held back, so that working them off wakes tasks of
  two different ticks; `MaxNesting = 2` tells an inner resume from the outer one; three levels of
  priority and two equal tasks give preemption and time slices. `MaxLate` bounds how long `osDelayUntil`
  is kept from running between reading the tick and suspending the scheduler.
* *services*: each program takes the fewest tasks, slots and calls that reach the interleaving it is about,
  with the tick at 6 of 8 when it starts so that time-outs cross the wrap within the ticks it is followed for (4, or fewer where the waits are shorter).
  `MaxLock = 1`: one wake-up deferred by a lock, a second interrupt waits. A heap of 10 units holds one thread,
  and not every part of two. `Numbers = 4` is more than fit in a buffer.
* A program is not every program: what two services do to one another beyond the scheduler, the heap, the
  queue of the timers and the semaphore of a pool is not asked for. They share nothing else.

Deadlock is checked except where the system may stop: when a transfer is over (`ymodem`,
`ymodem_stall`) and when a damaged Exec runs (`boot_stale_exec`), whose behaviour is open.

### Findings

* **`settings_oldboot`**: `settings_load_one` cuts a stored image to the loading build's own size and
  `settings_seal` stores that size. `Settings.h:6-7` promises that "the other side's fields survive".
* **`boot_partial_exec`**: a partial image is run, in either of two ways. `ymodem_receive` returns `YM_OK` on EOT
  without comparing `written` with `filesize` (`ymodem.c:128-149`), so after a transfer that an EOT ends early, or after an
  interrupted one followed by `flash` of an empty file, `cmd_flash` records the CRC of the partial bank and every later
  check confirms it (`ReceiveShort`). And a first transfer into a bank leaves, when interrupted, valid vectors and no
  recorded CRC; `bl_bank_trusted` accepts that, and `rollback` (or `copy`) runs it. TLC shows one of the two, which
  are equally long. `bootloader_todo.md` promises otherwise in lines 22 and 31. The updater avoids the second way; the
  first (after a misread or late answer on the line, see `SuccessIsTrue`) it does not see: the `size=` it prints is that of
  the header, and it does not compare `crc=`.
* **`boot_stale_exec`**: neither `flash` nor `erase` resets `loaded_bank`, so `boot` after flashing the
  bank that is loaded starts the old content of Exec.
* **`ymodem_stall`**: after the header every timeout is answered by NAK without a bound; a sender that
  gives up leaves the bootloader there, although `ymodem.h:18` lists "stalled" as a return.

Observed while modelling, without a run of its own:

* When every reply to `info` is lost the updater takes the active bank for 0 and flashes bank 1,
  active or not (`dro_update.py:196`, against its help at 181). `misled` marks this in `DroUpdate`, and
  `UnselectedStartsOld` is only claimed without it; the other properties of `update` hold with it.
* A `set servo.mode` that falls between the test and the write of `servoEnableTask` is undone.
* `set scales.den <i> 0` is accepted. No step is then made and none is forgotten: the movement is kept until there is
  a ratio again (`DebtKept`).
* After a slot with nothing to do, `servoPreviousDirection` is 1 whatever the pin says: the first step
  forward after a move back sets DIR and STEP in one interrupt. `PulsesFollowDir` states the half that
  holds (a step back never comes in the interrupt that turned the pin).
* An answer of the YMODEM receiver that comes after the sender's timeout shifts all later answers by
  one block: `SuccessIsTrue` is claimed only without that, and without a payload that was
  read as headers.

Observed in the kernel and its wrapper (vendored code; of it the firmware itself uses delays, thread flags and one-time creation):

* `queue.c:1504-1509` asserts that a waiter that lent its priority cannot find the mutex taken again after its time-out.
  It can: the holder gives, the waiter wakes late, a third task takes the mutex, the waiter loses its race
  and times out on the second round (program `stolen`). The kernel then stops; the model has that end (`TryAsserts`).
* `tasks.c:4853`, `4982` and `5070` assert that a task that waits for a notification is in no event list. It can be: a task that waits for ever is
  in the suspended list, where `prvTaskIsTaskSuspended` takes it for suspended, so `xTaskResumeFromISR` puts it on the
  pending list while the scheduler is suspended, and a notification before `xTaskResumeAll` fails the assertion
  (program `resumed`). The kernel then stops; the model has that end (`NotifyAsserts`).
* After `xTaskPriorityDisinherit` with a less urgent waiter left, no switch is asked for, so for a moment a more
  urgent ready task waits: `UrgentFirst` claims preemption only where no mutex lends priorities.
* `stream_buffer.c:848` asserts that a message's bytes are there when its length is; a reader between the writer's two
  writes fails it. The model has that end (`NextMessageLength`); the programs ask it only of a stream.
* `timers.c:529`, `812` and `925` assert that the timer task's own re-post of a late reload fits in its queue. A full queue fails
  them, and the model has that end (`Sends`).
* A stop that reaches the queue before the timer task's own re-post of the same timer is undone by it
  (`timers.h:520` against `timers.c:528`, `811`, `924`).
* A one-shot timer that expires while the lists are switched, or while a late command is processed, keeps its ACTIVE status.
* `osTimerDelete` frees the callback record before the timer task has handled the delete; `osMemoryPoolDelete` frees a pool
  that woken waiters still use; `vEventGroupDelete` frees a group that a timed-out task has still to look at.
* `xTaskCatchUpTicks` adds to `xPendedTicks` with interrupts enabled; `osThreadFlagsClear` reads and
  writes back in two calls, and loses a flag an interrupt sets in between (`FlagsClear`, `FlagsWriteBack`);
  `osThreadTerminate` deletes on a state it read earlier.
* `osThreadFlagsWait` with `osWaitForever` becomes a finite wait after a wake-up that did not bring all flags.
* `xQueueReset` with several senders asleep wakes one. `ulTaskNotifyValueClear` returns the value of the calling task.
* `osMemoryPoolNew` uses a block buffer that is too small when its control block comes from the heap. `osThreadEnumerate`
  returns the number of threads with the array unfilled when its own allocation fails. `vTaskGetInfo` and
  `eTaskGetState` disagree about a task that waits for a notification without a limit. `osKernelRestoreLock(0)` on a running
  scheduler fails the assertion in `xTaskResumeAll`.

## 5. Fairness

* `Bootloader!FairSpec`: weak fairness of `BootStep` and `FlashStep`. The processor keeps executing: a boot or a flash
  operation that can go on does. Commands, transfers and faults need not happen. `BootSettles` is
  claimed for behaviours in which the power eventually stays on.
* `DroUpdate!UpdateSpec`: weak fairness of the tool and of the device, in a quiet update only: one in which every
  reply arrives, every transfer is of the whole file and nothing fails. `UpdateSucceeds` is claimed of those.
* `Ymodem!Spec`: weak fairness of both sides: each read ends with a byte or a timeout. Strong
  fairness of the sender's timeout: its deadlines count from the start of a wait
  (`dro_update.py`), so bytes it skips in the meantime do not put them off.
* `Protocol!Spec`: weak fairness of the task (highest priority) and of the bytes of a line that the client has begun.
  Nothing is assumed of the client's next line, of the faults, or of `ProtocolStart`.
* `MotionMC!MotionSpec` (as `Servo!ServoSpec`): weak fairness of the timer interrupt and of the two periodic tasks.
* `Kernel!Spec`: strong fairness of the tick: the timer interrupt stays pending until it is taken, so a tick that
  can be taken again and again is taken. Weak fairness of PendSV, which has the processor to itself once it is pending, and of the step
  of a task in the middle of a call: the processor keeps executing. A task need never call anything: `DelaysEnd` and
  `FlagsDelivered` hold against peers that keep the processor in their own code for ever.
* `Services!Spec`: none; its properties are safety.

## 6. Proofs

All are checked by TLAPS, from the assumptions on the constants in the modules.

**`BootChain_proofs`**, `Settings` (for every number of builds, fields, values and every width of seq):
`SettingsTypeCorrect`, `OneApart`, `SavedStays`, `ImplementsRegister`, `KnownFields`. None of the
properties is inductive: that the slots stay one apart depends on where the save in progress is
aimed. The strengthening `SaveInv` adds `Aimed` (while saving, the target is the slot that is not the newest and the
image's number is one past the stored one) and `Merged` (the image is the stored one except in
the fields its writer assigns), both for as long as the last word is not there. The lemmas about
sequence numbers show that one step is newer under the signed comparison also where it wraps.
`ImplementsRegister` then maps `BeginSave` to `Begin`, the step that programs the last word to `Commit`,
a fault to `Abandon`, and every other step to a stutter; `KnownFields` reads the step off `Merged`.

**`BootChain_proofs`**, `Bootloader` (for every set of files and every number of chunks): `TypeCorrect`,
`Unmixed`, `CrcOfTheBank`, `CrcOfWhole`, `OneShot`. `CrcOldOrNew` needs to know of a save, when it is committed or cut,
what was put into it many steps before. The strengthening `IInv` adds
`Job`, what a job in progress knows of its region (the bank being received is a prefix of the file,
`off` chunks long; Exec being copied is a prefix of the bank; an operation that is to erase has
written nothing), and `Carried`, that the record a save is writing has the CRCs of the stored
one, but for that of the bank a flash has received. `CrcOfWhole` is the theorem a reader would want, under the
condition it needs: `Spec /\ [][~ReceiveShort]_vars => []RecordedMeansWhole`, a recorded CRC is that of a whole
bootable image *if no transfer ends early*. The code does not ensure the condition, and without it the
conclusion is false. `PrefixSteps` carries the loops, `TornRegion` the interrupted erase, and three lemmas (`RestIInv`,
`SaveIInv`, `StartIInv`) the three ways a handler ends, which is what most actions come to.

**`BootChain_proofs`**, `DroUpdate` (for every set of files and number of chunks): `UpdateIsBoot`, `HostTypeCorrect`, `CopiesRepeatable`, `OldOrRecordedStarts`,
`OldFirmwareStarts`, and, again for behaviours in which no transfer ends early, `WholeImagesRun`. `UpdateIsBoot` shows every step of the updated system to be a step of
`Bootloader` or a stutter, so that what is proved there holds here. The invariant `HInv` then says what the tool
adds: `Saves` (there is a record to store exactly while a save runs, and the tool leaves `boot_mode` alone), `Recorded` (the active bank is trusted on its vectors
alone only while it is erased), `Works` (which bank and which record each job of the device is about), `Knows` (what the tool's place says of the device: it selects
only a bank whose CRC is recorded), `Recopied` (while Exec is not what was last run, it is on its way to be copied again from an active bank that has its recorded CRC, or
that copy is complete, and nothing else is done meanwhile), `Runs` (what was last run has valid vectors), `OldStays` (unless misled, nothing is to be copied before a selection, and the bank that is flashed is not the active one).

**`Ymodem_proofs`** (for every size of file and region that a byte can count, every number of retries and every length of the line):
`TypeCorrect`, `BeginningOfFile`, `SuccessIsKnown`. For the second, `Counted`: the expected number is one past the blocks programmed, which
never wraps, and a packet's number names its part. For the third, that the two take turns: as long as no timeout comes before its answer
and no payload is read as headers, a packet and its answer are never on the line together, and what is under way is the
packet the sender waits on or one of six answers (`Turns`); so each place of the sender says what the receiver has done (`Stage`).

**`Application_proofs`**, `Protocol` (for every length of line and set of commands): `LinesAreSound` and, from `Settle >= 2`, `ExactlyOnce`. The first rests on
`Deaf`: while the task has an answer to send, `sTxActive` is set, so the interrupt drops its echo. The second needs to know where in an exchange client
and board are: `Resting`, `Sending`, `Complete` or `Answering`, with what is in the line buffer a beginning of the line that is sent
(`InStep`), for as long as `clean` says that the last fault is an exchange ago.

**`Application_proofs`**, `Sync` (for every width, ratio and sequence of writes): `TypeCorrect`, `CountsKept`, `NothingForgotten`, `DriftFree`.
The invariant `Tracked` ties the history to the program: the counter is `(seen + unseen) %
CountMod`; unless the position has been written, it is the one last seen; and what is owed is
`error + num * unseen`. `DeltaIsUnseen` shows that the 16-bit difference is the number of counts, by
the fact that fewer than half a range come between two interrupts; `RemainderBound` that
a division towards zero leaves less than the divisor, for all four combinations of signs.

**`Application_proofs`**, `Servo` (for every value of the constants): `DirLeads`. The invariant `PinAgrees` is that
`servoPreviousDirection = -1` implies that the pin is reset. The converse is false, which is the
observation above.

**`Promises_proofs`**, `Heap` (for every size of heap and unit): `HeapIsSound`. That the blocks cover the heap without overlap is kept by a split
and by a join; that no two free blocks touch is kept because a freed block is joined on both sides (`Whole`, which the invariant `IInv` states
of any two sets of blocks, so that the lemmas about splitting and joining can speak of the sets in between).

**`TaskLists_proofs`** (for any tasks, priorities, event lists and range of the tick): what the operations of the kernel on its lists do. `Good(k)` is the
part of the kernel's invariant that speaks of the lists: `Sound` (a ready list is a ring of its end marker and tasks of its priority, at or
below `uxTopReadyPriority`), `Single` (a task is in one state list at most), `Timed` (both delayed lists are ordered, on their side of the
tick, and the alarm is not late). Each operation has a lemma that says it keeps `Good`, whom it moves and what it leaves alone (`Moved`, `Concerns`,
`AsWas`), so that the proof of a call need not look into a ring or a sequence. Three operations go through a list: the tasks that are due, the pending list, the
ticks held back. They are folds, and what a fold does is an induction; the library's induction theorems cannot be used here, so `Folding` proves
once, from the existence of a least counterexample, that a fold of a CONSTANT operator (`Fold`, which is what `FoldLeft` is defined to be) is the last of a chain of states each of which is made from
the one before (`FoldTrace`). It is instantiated for each fold, and the induction along the chain is an induction over a set of numbers (`SetInduction`).

**`Kernel_proofs`** (for any tasks, priorities, programs that are `Sensible`, range of the tick and bounds): `KernelInvariant`, and from it
`MostUrgentRuns`, `ListsAreSound`, `DelaysAreExact`, `TicksAreConserved`, `NoWakeupIsLost`: every safety property the run `kernel` checks. The invariant `IInv` has four parts.

* `Typed`: `Good(k)`. `Counts1`: with the scheduler running nothing is held back and nobody is pending; tick and ticks held back together are what SysTick
  counted; the number of tasks is the number of those in a list.
* `Turns`, why the most urgent task runs. `HighestRuns` speaks of a task in its own code, and is not inductive: between the readying of a more urgent task and the switch lie the
  steps of a call. So `Turns` says in which of them the running task may be other than the most urgent ready one (PendSV is pending, `xYieldPending` is
  set, or the call is about to yield), in which it need not be ready itself (it has gone on a list to sleep and the switch is still to come), and
  that `xYieldPending` does not outlive the suspension of the scheduler. A task that is pending may also be ready already: an interrupt that resumes it
  twice, or resumes and then notifies it, leaves both; the replay of the pending list copes with that, and the invariant allows it.
* `Task1(t)`, where a task's call stands. `InCall` types its locals. `Notified`: who waits for a notification is at the point of waiting, and who was given one
  and is not to be suspended by anybody is ready or pending; this is `NoLostWakeup` for one task, made inductive by its first half.
  `Remains` ties the reference `left` to the lists: for a sleeping task it is the distance from the tick to the tick of waking, modulo the range; for a task still on its way to sleep
  in `osDelayUntil` it is the distance to the tick it named, which may be behind it by at most the bounds; for everybody else it is zero. `DelaysExact` follows.

The steps that ready others, the tick and `xTaskResumeAll` above all, come down to what `TaskLists_proofs` says of the folds; then there is one lemma per action
(`DelayKeeps`, `SuspendKeeps`...), each with a step for every part of `IInv` it disturbs, and general lemmas for what it does not (`UntouchedTask`, `ActingStep`, `AloneStep`). `KernelAssumption` is what is
assumed: the idle task is one of the tasks, the tasks are finite, the bounds `MaxLate` and `MaxPended` together are at most half the range of the tick, without which the distance of a late task could not be told
from one ahead, and programs are sensible. `KernelInvariant` needs no fairness. The run `kernel` meets the assumption, and TLC checked the parts of `IInv` on it before they were proved.

**`Services_proofs`** (for any tasks, objects, priorities, programs that are `Sensible`, range of the tick and bounds): `ServicesSound`, that `ServicesInv` is
an invariant of all the services together. It says that
the lists of the kernel are sound (`Calm(k, IdleTask)`, from `TaskLists_proofs`); that a task stands at a step of a call with the frame which that step
expects, and the scheduler is suspended by the running task in the midst of such a call or not at all (`Control`, `Places`, `Suspends`); that an object is as it was made, of the kind
the program makes under that name, with a ring whose write position is as far from its read position as there are items in between (`Stocked`, `InOrder`);
and that the timer task goes by the tick it has sampled last and sleeps for at least one tick (`Sampled`). None of the properties below can be shown without it: a
step reads the frame of its task and the kind of its object. One lemma per action shows it kept; the frames an action leaves are compared with those
expected (`Places`) once in the lemmas for the ends that calls share.

**`Promises_proofs`** (under the same assumptions), what the services promise:

* `QueuesAreFifo`, the refinement `FifoKept`. By `InOrder` the contents of a ring are a sequence, to whose ends `CopyIn` adds, of whose head
  `CopyOut` takes; so each step makes each queue evolve as `Fifo` allows (`Evolves`), at most one queue at a time
  (`FifoStep`), and a step of anything else is a stutter.
* `ServicesHeapSound` and `MemoryIsAccounted`. `MemoryInv` names the owners of blocks, a call that is making or deleting an object and an object that is there, and
  says what parcel each holds; parcels are disjoint, and, as long as no task has allocated for itself, cover the blocks in use. A step moves one block
  between the heap and a parcel, or a parcel as a whole from a call to its object and back. `Accounted` is the other half: the bytes counted as remaining are the sum of the free blocks.
  A failed allocation gives back what was obtained before, so that the call which fails leaves as it came (`NothingLeaks`).
* `PoolsAreBacked`. A pool is a semaphore and a list of blocks, changed in two critical sections: `InHand(p)` are the tasks that have one and not yet the other. The invariant `PoolsBacked`:
  the blocks taken and those in hand are at most `len - n`, and the blocks in the list and those taken are together the ones that were created; so who has the
  semaphore finds a block.

Only model-checked, among what runs check:

* of the services, `NobodyStranded`, `NoForgottenSleeper` and `BytesInOrder` (the last two hold for one writer and one reader of a buffer, which `Sensible` does not
  ask for), `GroupsSound` (that nobody laps the others in a meeting is a matter of who takes part, hence of the program), `TimersOnTime`, and
  `PrioritiesPrevail` (its `InheritancePrevails` is no invariant of every program: a task that waits for one mutex and is then lent a
  priority by another does not pass it on to the holder of the first);
* `BytesCounted` (a sum over a set) and `ServoTypeOK`;
* all of liveness (`BootSettles`, `UpdateSucceeds`, `CleanTransferCompletes`, `SenderEnds`, `AlwaysAnswered`,
  `MotorReaches`, `FlagsDelivered`, `DelaysEnd`): liveness under fairness is outside what this prover does. No module uses a RECURSIVE operator.

## 7. Abstractions, and what is not modelled

* A CRC (of settings or of a region) and the XOR checksum of a line are taken to detect whatever is not
  what they were computed for. That the checksum is optional, so that a checked line may lose its `*`,
  is by design of the protocol; the model counts it as a garbled line.
* A region is two chunks, not 128 KB, and a file fills it: a file shorter than the region is one whose
  last chunks are padding. An interrupted erase leaves any part of the old content.
* `Bootloader` lets a transfer succeed after any number of chunks; when it does so with less than the file is `Ymodem`'s
  matter (`SuccessIsTrue`: if an answer was late or a payload was read as headers, or if less was sent). What is said of whole images
  in `Bootloader` and `DroUpdate` is said under the condition that this does not happen.
* `AppUpdate` arms `BOOT_FLAG` and jumps in one step: nothing runs in between that looks at it but the power, which clears it.
* What a damaged Exec does when it is run is open: the application's commands are those of a whole image.
* `Sync` computes `delta * num` in unbounded integers, `Servo` takes less than 2^31 steps for granted.
* `Servo` has integer speeds and a constant interval between interrupts; the code computes in
  `float` from the measured interval. Rounding of floats is not modelled. `servo.acc = 0` is left out.
* `scales.pos` written while a scale syncs is asked of the servo as movement; nothing says what the
  specified effect is, so the model lets it happen and owes nothing for it.
* An overrun of the UART while the processor stalls on a flash erase, and what the HAL makes of it, is
  outside the sources.
* In the kernel a call is cut where interrupts are enabled, not at every instruction; where the code reads shared state outside a
  critical section and acts on it later, that is two steps. Memory is there for what `Kernel` creates; `Ownership` is about when it is not.
* An item of a queue and a byte of a buffer are names; a length in a message buffer is one cell. The callback of a
  timer, and the code of a task between its calls, are left out.
* The kernel's programs do not make calls the API forbids (a mutex released by another than its holder, a
  reset of a buffer in use, waiting in an interrupt).
* Not modelled: the LED (nothing reads it), co-routines (not built), trace and run-time statistics, stack checks,
  `xTaskAbortDelay`, queue sets and the queue registry (not built, or for a debugger), the names of objects, register set-up and
  interrupt glue (generated, no state of its own), the factory image and release scripts (sequential;
  the factory image is the initial state of `Bootloader`), the unit tests, deletion of a memory pool or of an event group in
  use (see Findings), `--bank` naming the active bank, and the speed readouts (`servoSpeed`, `scales speed`), which
  nothing acts on. About 14,000 lines of the tree are header documentation and vendored API comments, which no definition stands for.
