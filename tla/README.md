# DAAT-MCS in TLA+

DAAT-MCS profiles interference between the guests of a Bao-hypervised board.
A Python program on the host generates a set of hypervisor configurations,
builds one image per configuration, boots each image on the board, records what
the guests print on the serial ports, power cycles the board and goes on to the
next image.  The guests run on the board: Linux with benchmarks, bare-metal
stressors, and a profiler guest that sends samples to the host over Ethernet.
The runtime of the bare-metal guests has a driver for a VirtIO console, which an
application of theirs can use.

This directory holds TLA+ models of the concurrent and failure-prone parts of
that system, TLC configurations that check them on small instances, and TLAPS
proofs of their main properties for instances of every size.

## Inventory of the system

| Component | State | Operations | Hard behaviour |
|---|---|---|---|
| **Test plan** (`test_engine.py`, `main`) | `list_configs`, the configuration files, the images | combine guests, name, colour, limit, build, list | names matched with configurations by index; one list for several setups; names that lose information |
| **Test loop** (`DAAT-MCS_profiler.py`, `main`) | position in the list of images, retry count, verdict, timings | launch, clear the event, open ports, spawn loggers, wait, read and reset the status, record, reset the board | shares three unprotected variables with the logger threads |
| **Serial logger** (`test_logger.py`) | `event_end_of_test`, `test_completed`, `serial_ports`, the threads and their logs | read a line, dispatch a tag, store a log, close a port, wait with a timeout | threads that outlive a timeout; lines buffered by the driver; lines lost before a port is open |
| **Smart plug** (`test_engine.py`, `_toggle_power`) | cached client, the plug | off, delay, on; retries with back-off | a command that fails after it took effect; a client whose session is broken |
| **Platform launch** (`zcu104.py`) | the image in the TFTP directory | copy, boot over JTAG | failures are printed and swallowed |
| **Ethernet profiler link** (`profiling_tcp.c`, `server.c`, `client.c`) | socket, ring of store buffers, the message | handshake, receive, divide among CPUs, send a buffer | timeouts, coalesced commands, a tag cleared one buffer late |
| **VirtIO runtime** (`virtio_console.c`, `virtio_queue.h`, `virtio_memory_pool.h`) | two queues, a memory pool, a receive buffer | transmit, receive, print | interrupt handler against senders and printers, a pool whose free bytes are the zero bytes |
| **CCI stressor** (`baremetal_CCI/src/main.c`, `zdma.c`) | channel lists per core, `master_done`, DMA registers | deal out, configure, open the barrier, poll and restart | several cores without locks; plain arrays read across a barrier |
| **Cache stressors, QoS guest, Embench guest** (bare metal) | per-core deadlines, registers | load, wait, repeat | none between cores |
| **Auto-tuner, GUI, guest builders, scripts** | files | statistics, forms, `make` invocations | none that is concurrent |

How they interact: `main` calls the test plan once, then for each image the
platform launch, the serial logger and the smart plug.  The logger threads share
memory with `main`.  The board is driven by JTAG and by its power and answers by
lines on its serial ports; with the profiler guest also over TCP, to a server
process that `main` starts and terminates.  The VirtIO console is a library: nothing in
this repository calls `virtio_console_init`, `_transmit` or `_receive`, so that how they
are called is read from `virtio_console.h`, which allows any core to send and asks for
the handler to be called from the interrupt.  Its backend is the hypervisor's.  The CCI
stressor runs alone on the board and talks to nobody.

What makes each part correct:

* test plan: a result belongs to the configuration its name tells; a setup is
  tested in every combination once; every guest gets cache colours of its own;
* test loop and logger: a verdict "completed" rests on the END tag of the launch
  it is given to; a log on disk is the log of the launch that completed; the loop
  and the process end;
* smart plug: a call that returns has cut the power for the delay and left the
  plug as asked; a call that cannot do so raises after its last retry;
* profiler link: the handshake ends, a lost peer does not crash the server, the
  file holds the message it was sent, each store buffer is sent once, in order;
* VirtIO runtime: messages arrive whole, once and in order; descriptors and memory
  come back; nobody waits for a lock for ever (the code keeps these up to the limits
  that the runs show);
* CCI stressor: an engine is started only when it is configured, by one core, and
  never while it transfers; every engine is loaded for ever.

## Modules

A `Fault` operator is a one-line slip next to the operator it may replace (a
status that is not reset, a barrier that is not waited for).  No action uses
them; substituting one makes the property named with it in `PROJECT.json` fail,
which shows that the property says something about that line of code.  Variables
marked *History* are not in the program: the properties use them.

### TestPlan, MCTestPlan, TestPlan_proofs

The way from the setups of a campaign to the images that are tested, in four
steps: `GenerateTests` (once for each setup), `BuildTests`, `ListImages`,
`LaunchTest`.  The work is in the operators the first is made of.

| Model | Code |
|---|---|
| `Combinations`, `CombinedNames` | `combine_guests` |
| `Named`, `AsDict` | `generate_configs`: the i-th configuration gets the i-th name of the list, in a dictionary |
| `Points`, `Assignments` | `generate_cache_colors_assignment` |
| `Colourings`, `Coloured`, `NumVms` | the colours `main` asks for and `generate_cache_colors_code` |
| `BudgetChoices`, `BudgetAt`, `Limited` | `generate_mbr_assignments`, `generate_mbr_code` |
| `Mitigated` | `generate_interference_mitigation_configurations` |
| `files`, `images`, `tftp` | the directories the program writes and reads by name |

A name is a record of what the program puts into it, so that two names are equal
exactly when the program's are: the counts of the colours and not the colours, the
budgets by guest group and not by place.

* `ResultsAsNamed`: what is tested under a name is what the name tells, if its
  image was copied and the budgets are listed in the order of the guests; if it was
  not copied, what is tested belongs to a test before, and the program does not
  notice (`zcu104.py` l.42).  A budget for the profiler is in the name and nowhere
  else: no template has a place for it (`test_engine.py` l.406-426), so the property
  speaks of guests that have one (`HasPlace`).
* `EachOnce`: a campaign of one setup tests every combination of guests, colours
  and budgets exactly once, against the reference `Wanted`, unless two listed
  colourings have the same counts and so one name.
* `AllColoured`: generated colourings leave no guest without colours and give none
  to two guests, unless the profiler is in another setup only (which lowers the
  number of guests among which the cache of *every* setup is split) or the cache has
  too few colours.

### TestLogger, MCTestLogger, TestLogger_proofs

`TestLogger` composes `main`'s loop with the logger threads and the board.

| Model | Code |
|---|---|
| `mpc`, `img`, `retry`, `result`, `timing` | where `main` is, `i`, `retry_count`, its local `test_completed`, `img_timings` |
| `event`, `completed`, `handle` | `event_end_of_test`, `self.test_completed`, `serial_ports` |
| `threads` | live threads: launch, port, image, handle, position, `logging_start`, logged text |
| `files` | the log files: which launch wrote it, whose text is in it |
| `rx`, `board` | the driver's buffer of each port; what the board is doing (external) |
| `Launch` .. `RecordFail` | one action per step of the `while` loop, l.268-372 of `DAAT-MCS_profiler.py` |
| `CheckEvent` .. `Finally` | one action per step of `trace_results_thread` and the tag handlers |

The steps are split where another thread can come between: the check of the event,
the `readline`, the setting of the event, the storing of the log and the setting of
`test_completed` are separate.  Launches are numbered and lines carry the number of
their launch, which the code cannot see.

`HwControl` says whether the smart plug is configured.  With it, the reset before a
launch sleeps for more than the one second a thread can stay in `readline`, so
`Launch` waits for the old threads (`HwControl => threads = {}`); without it nothing
waits, and an old thread may miss the event altogether.  `HostFaults` adds the
exceptions of `main`: a port that does not open and a plug that does not answer.

* `FalseSuccessNeedsEarlierTimeout`: an image is recorded as completed only if a
  thread of that launch read the END of that launch, or an *earlier* wait timed out.
  The second half is not a weakness of the model but of the code: `test_completed`
  carries no launch number, and the master port is never closed.
* `StaleReaderNeedsEarlierTimeout`: the live threads belong to the launch under way,
  hold its handles and have their port to themselves, unless an earlier wait timed out.
* `DoneLogIsOwn`: the log of a completed image was written by the launch that
  completed, contains its text only, and, on the master port, all of it.  Without the
  plug a timeout of the completing launch itself is enough to spoil this, with it
  only an earlier one.
* `TestLoopEnds`, `LoggersExit`: the loop ends, and then the process does.

### PowerControl, PowerCycle, PowerControl_proofs

`PowerControl` models `_get_device`, `_toggle_power` and the two callers, one action
per `await`.  A failing command may have taken effect.  `PowerCycle` is the abstract
specification, what a caller is promised; `KeepsPromise` says that the code
implements it under the mapping `phase <- Phase, kind <- call`.  In `TestLogger` the
call is one step (`HardwareReset`, or `ResetRaises` when it gives up): `PowerCycle`'s
`Return` and `Raise` are what that step may rely on.  With hardware control disabled
the two callers only print a warning.

* `NoBurntClient`: "force refresh client on failure": no attempt and no later call
  uses a client on which a command has failed.
* `CallEnds`: every call returns or raises.

### ProfilerLink, ProfilerLink_proofs

`server.c` and `client.c`, each with the other or with another program that sends
what the protocol knows when it likes: the guest's client is chosen when its image is
built.  A receive gets any part of what is under way, or times out.

| Model | Code |
|---|---|
| `Connect`, `ListenFails`, `ConnectFails` | `tcp_server_create_and_connect`, whose failure `server.c` (l.83) does not look at, and `tcp_client_create_and_connect`; an `accept` that fails after the client was connected is not modelled |
| `Handshake`, `Acknowledged` | `tcp_server_profile_handshake` |
| `Receive`, `ClientClosed`, `WriteRow` | the loop and the division among CPUs of `server.c` |
| `Terminate` | `main`, l.340-344 |
| `SendReady`, `Answer`, `NoAnswer` | `tcp_client_profile_handshake`, `recv_command_with_retries` |
| `SendData`, `ClearTag` | the loop of `client.c` over the store buffers |
| `Fill` | the profiler in the hypervisor (external) |
| `BoardDies` | the board is switched off: nobody closes the connection |

* `CrashesUnheardOnly`: a null pointer reaches `strstr` when a receive times out or
  fails or the peer closes before *ready* is heard, and never afterwards.  It does not
  say that there is no such crash: there is, and a server that could not open its socket
  ends in it.
* `FileIsFirstPacket`: the file holds the beginning of the first packet, in order
  and without a gap, unless part of it was swallowed as the acknowledgement, or a late
  acknowledgement was read as data.  The tail that does not divide among the CPUs is
  dropped, and that is not counted as wrong.
* `SamplesInOrder`: every sample is sent once and in order, although the tag that is
  cleared is not the one of the buffer that was sent.
* `RingTurnsUnlessLost`: the client and the profiler never both wait for the other,
  unless the tag of an unsent sample was cleared.
* `ServerEndsAfterClient`, `ClientDecides`: a client that closes ends the server, unless
  the server still waits for one to connect; the client's handshake ends.
* `BothReady` is the claim of the comment of both handshakes, and does not hold.

### VirtioTx, ConsoleChannel, VirtioTx_proofs, VirtioTx_pool_proofs

The transmit queue.  `Transmit` is `virtio_console_transmit` under `tx_lock`, with the
load and the store of each shared counter in separate steps; `Receive` is the
completion half of `virtio_console_receive`, which does not take that lock and runs
between any two steps of a sender, on its core, which it then preempts, or on another;
`Take` and `Complete` are the backend (external).  `EarlyReturns` are the two ways
`virtio_console_receive` may return before it gets to the used buffers: a change of
configuration, and received messages that do not fit.  A byte that is zero is free
(`FreeAt`), and `strcpy` writes one zero more than was allocated (`Copied`).

Nothing keeps senders and handler apart, and some of their interleavings break the queue.
The history variable `raced` becomes true at exactly these: when one of the two stores the
head of the free list or its counter between the other's load and store of the same, and
when a sender writes the descriptor the handler has put back and not yet read
(`virtio_console.c` l.336, l.356).  Once that has happened no new message is sent
(`SendsUntilRaced`, a bound of the model: what the code does with a broken list is not
modelled).  `erased` becomes true when the zero byte behind a text falls on a byte that is
in use, `leaked` holds the descriptors of messages that found no memory, and `longest` is
the longest message there was.

* `FreeListExact`: until they have raced, the free list holds exactly the descriptors
  that nobody has, each once, and its counter is its length, also when allocations fail.
* `RoomWhenPut`: the assertion of `virtq_put_free_desc`; a race makes it fail.
* `PoolServes`: until they have raced, no message fails to find memory and no byte in use
  is overwritten, as long as no message was sent that would not fit the pool twice more
  than there are descriptors (`TooLong`): as many texts as descriptors may have memory
  when another is placed, since the handler puts a descriptor back before it frees the
  memory, and at the end of the pool a gap is left.
* `KeepsPromise`: the detailed queue implements `ConsoleChannel`, a channel that
  delivers what was accepted whole, once and in order, until it is broken: that is,
  `raced` or `erased`.  The mapping reads the text of a message from the pool at the
  time, so that anything that disturbs the memory of a waiting message breaks it.  A
  message that finds no memory is not accepted.
* `UsedAreReclaimed`: what the backend has used is given back, unless the last call
  returned early or halted on its assertion.

The steps of the model are sequentially consistent, and the loops of
`virtio_memory_pool_alloc` and `_free` are one step each.

### VirtioRx, VirtioRx_proofs

The receive queue and the receive buffer: the handler resets it, appends each message
and terminates it under three acquisitions of `rx_lock`, while another core, or the
interrupted one (`PrinterIsHere`), prints.  `virtio_console_init` sets the first byte of
the receive buffer only; the others are what was in that memory (`Remains`, `Leftover`).
Reading on behind the buffer, when no byte of it is zero, is not modelled: the string is
then the whole buffer.

* `NothingStale`: when the handler reports success the string in the buffer begins with
  the text of the first message of this call, and has in it nothing of earlier calls,
  although a reset clears the first byte only.
* `PrintedWhole`: what is printed is one whole text or nothing, and does not change
  while it is printed.  Both allow for leftovers of the memory behind a text of full
  length, where the copy writes no zero.
* `AllTextsReceived`: the texts of all messages taken in a call are in the buffer; false,
  because the copy loop starts at the position in the receive buffer.
* `UsedAreTaken`: the ring is emptied, unless the last call returned early, at a change of
  the configuration or at a message that did not fit.
* `PrintEnds`: a print ends; false when the printing core is interrupted.

### CciStressor, CciStressor_proofs

The DMA and DMA+FPGA tests of `baremetal_CCI`: the master's set-up, one action per
loop of it; the barrier `master_done`; and `dma_interf_en`, `run_core` and
`fpga_dma_en` with the check and the start of a channel as separate steps.  The
engines finish at any time.

`StaleReads` is the data race: `cpu_dma_chnls_assigned` and `cpu_dma_chnls` are not
volatile and nothing orders their loads after the load of `master_done`.  In its
first pass a core may then see a shorter list, or the initial 0 for an entry.  The
properties say exactly what this can spoil:

* `StartedConfigured`: a transferring engine has all its registers written;
* `StartedOnceUnlessStale`: a channel that was found finished is still idle when it is
  started; after a stale read this may fail, but for channel 0 only;
* `EnginesKeepRunningUnlessStale`: each engine is loaded again and again, unless a core
  with a stale count went to sleep in `wfi`.

Channels are dealt out round robin (`Owner`).  `ConstantsAssumption` demands a core to
deal them to: with one core and the FPGA test the code divides by zero.

## Runs

| Run | Instance | What it shows |
|---|---|---|
| `test_plan` | 46 campaigns, 8 colours, at most one failed build a setup | results belong to their names, coverage, colours |
| `logger_plug` | 1 image, 3 attempts, 2 ports, plug, host faults | types, stale threads, logs, termination of the loop and of the process |
| `logger_noplug` | 2 images, 1 attempt, 2 ports, results on the master port, no plug | verdicts, threads and logs across images when nothing waits for old threads |
| `power_cycle` | the code's 5 attempts, calls without end | the abstract specification, the client, termination |
| `link` | both programs and arbitrary peers, 3 samples, 2 buffers, 2 CPUs | crash, file, ring, termination |
| `link_handshake` | `server.c` with `client.c` | `BothReady` violated: the handshake of these two never succeeds |
| `virtio_tx` | 2 cores, one of them interrupted, 2 descriptors, a pool of 9 for messages of 2 and 4, early returns | free list, pool, the abstract channel, reclaiming |
| `virtio_race` | the same, messages of 1 and 2 | `RoomWhenPut` violated: the counter loses an update |
| `virtio_rx` | 6 descriptors, buffer of 4, printer on another core, leftovers in the memory | whole texts of this call, whole prints, ring emptied |
| `virtio_rx_batch` | 2 descriptors | `AllTextsReceived` violated: of two messages taken in one call the first is there |
| `virtio_rx_print` | the printer on the interrupted core | `PrintEnds` violated: the handler waits for a lock its own core holds |
| `cci` | 3 cores, 4 channels and the CDMA, coherent, stale reads | what the data race can and cannot spoil |

A run that expects a violation checks one statement of the repository (a comment, an
assertion) and is explained under `findings` in `PROJECT.json`.  One finding, the zero byte
that `strcpy` writes too many, belongs to the passing run `virtio_tx`: there the promise
ends at that byte, and `PoolServes` says up to which length it cannot come.

Bounds and why they are enough.

* `TestPlan`: the eight colours of the zcu104.  `MCTestPlan` takes every choice of one
  to three of the five guest groups alone, and four and five of them; listed
  colourings, among them one that is too short and two with equal counts; budgets in
  and out of the order of the guests, and one for the profiler; and the ordered pairs of four setups that differ
  in everything a setup can say.  Two groups have two variants, enough for a product to
  be more than its factors.  `MaxFailures` bounds the builds of one setup that fail.
* `TestLogger` is finite by itself: `NImgs` and `MaxRetries` bound the launches, and a
  launch prints at most three lines.  An effect of an earlier launch on a verdict takes
  two launches; three attempts let a thread skip one; an effect of a retry on the next
  image needs two images.  Two ports suffice for one thread to end a test that another
  is logging; one of them is the master port, which is the one never closed.  The text
  of a test is one line: the properties ask whose text is in a log and whether it is
  there, never in what order.  The code's `max_retries` of 10 is covered by the proofs.
* `PowerControl` uses the code's value.
* `ProfilerLink`: two retries for the code's hundred, and the code's three attempts,
  let each loop go round, end early and run out.  Two buffers and three samples wrap the
  ring; three quads for two CPUs leave a remainder, which is what the division drops.
  `MaxInFlight` bounds what an arbitrary peer leaves unread.
* `VirtioTx`: two descriptors and a pool of nine bytes.  Messages of two bytes fit it
  `QSize + 2` times, the bound under which the proofs give no leak and no overrun;
  messages of four do not, and TLC reaches with them, without any race, an allocation
  that fails and a zero byte over a message in flight.  In the code 1026 times 63 bytes
  fit the 65536 of the pool.  `SendsUntilRaced` bounds what follows a race.
* `VirtioRx`: the receive buffer takes a fixed number of messages in one call, whatever
  their length: six descriptors are two more than it takes.  Messages are shorter than a
  buffer and one byte too long; in the violation runs, also just as long as the buffer
  takes.  `Remains` is leftovers everywhere, or at three places, two of them behind the
  end of a text of full length.
* `CciStressor` has fewer channels than the code's 8, enough for cores with two; the
  proofs cover the rest.

Fairness.  `TestLogger!FairSpec`: `main` and each logger thread are scheduled, as
operating-system threads are; the board owes nothing, it may stay silent for ever.
`PowerControl!FairSpec`: `asyncio.run` drives a call to its end and the library's
requests return or raise.  `ProfilerLink!Spec`: both programs run, and their receives
return, if only by a timeout; nothing is owed by other programs, by the profiler, by
`main` or by a board that dies.  `VirtioTx!Spec`: a sender and the handler go on with
what they have begun, the backend serves its queue, an interrupt is taken.  `VirtioRx!Spec`: an
interrupt is taken, a print that runs ends, and the handler's spin lock needs strong
fairness against a core that prints again and again.  `CciStressor!FairSpec`: the cores
run in parallel, a started transfer ends; the waking of a core from `wfi` is *not*
assumed.  `TestPlan` has no liveness property.

`CHECK_DEADLOCK` is on for `TestLogger`, `PowerControl` and `CciStressor`, where `Exit`
and `Failed` are the states in which the program has ended.  It is off for `TestPlan`,
which ends with the last test; for `ProfilerLink`, whose programs end, or wait for a
board that is gone; and for the queues, where a halted core holds the lock for ever, or
a backend has nothing left to send.

## Proofs

Checked with TLAPS, for every value of the constants that satisfies the named
assumptions (`ConstantsAssumption`, `RetriesAssumption`).

| Theorem | States |
|---|---|
| `TestLogger_proofs!TypeCorrect` | `[]TypeOK` |
| `TestLogger_proofs!NoFalseSuccess` | `[]FalseSuccessNeedsEarlierTimeout` |
| `TestLogger_proofs!NoStaleReader` | `[]StaleReaderNeedsEarlierTimeout` |
| `TestLogger_proofs!DoneLogKept` | `[]DoneLogIsOwn` |
| `PowerControl_proofs!TypeCorrect` | `[]TypeOK`, the bound on the attempts in particular |
| `PowerControl_proofs!FreshClient` | `[]NoBurntClient` |
| `PowerControl_proofs!Refinement` | `Spec => PowerCycle!Spec` under the mapping |
| `CciStressor_proofs!TypeCorrect` | `[]TypeOK`, in particular that no core leaves its list |
| `CciStressor_proofs!ConfiguredFirst` | `[]StartedConfigured` |
| `CciStressor_proofs!StartedOnce` | `[]StartedOnceUnlessStale` |
| `VirtioTx_proofs!TypeAlwaysOK` | `[]TypeOK` of the transmit queue, the bounds of the counter in particular |
| `VirtioTx_proofs!FreeListAlwaysExact` | `[]FreeListExact` |
| `VirtioTx_pool_proofs!PoolAlwaysServes` | `[]PoolServes` |
| `VirtioTx_pool_proofs!ImplementsChannel` | `Spec => Channel!SafeSpec`: `KeepsPromise` but for the fairness of the reader |
| `VirtioRx_proofs!TypeCorrect` | `[]TypeOK`, in particular that the position stays in the receive buffer |
| `VirtioRx_proofs!NeverStale` | `[]NothingStale` |
| `VirtioRx_proofs!WholePrinted` | `[]PrintedWhole` |
| `ProfilerLink_proofs!TypeCorrect` | `[]TypeOK`, in particular that the rows stay inside the message |
| `ProfilerLink_proofs!CrashesUnheard` | `[]CrashesUnheardOnly` |
| `ProfilerLink_proofs!InOrder` | `[]SamplesInOrder` |
| `ProfilerLink_proofs!RingTurns` | `[]RingTurnsUnlessLost` |
| `ProfilerLink_proofs!FirstPacket` | `[]FileIsFirstPacket` |
| `TestPlan_proofs!TypeCorrect` | `[]TypeOK` |
| `TestPlan_proofs!ResultsNamed` | `[]ResultsAsNamed`, over several setups, failed builds and failed copies |
| `TestPlan_proofs!EveryGuestColoured` | `[]AllColoured`, for every number of colours |
| `TestPlan_proofs!EverySetupCovered` | `[]EachOnce`, against the reference `Wanted` |

**TestLogger.**  `NoFalseSuccess` is not inductive: `passed` depends on `result`, that on
`completed`, and that on a line some thread read.  `IInv` follows the END tag on this
way.  As long as no earlier wait has timed out, every live thread belongs to the current
launch (`ThreadsInv`); the ports being open and their threads cover each other
(`CoverInv`); unread lines carry the current launch and nothing follows an END or a boot
error (`StreamInv`); and `completed` and `result` are true only if the current launch is
in `ended` (`StatusInv`).  Once a wait has timed out all of this may fail, and the
property asks for nothing more.  `NoStaleReader` follows from `ThreadsInv` while a launch
is under way; between two launches and after the end the threads only go away
(`ReadersStep`).

`DoneLogKept` adds what is in the logs (`JInv`).  `LoggingInv`: the threads log the image
and the launch under way, and the one on the benchmark's port that stores after an END
stores the whole text.  For this `MasterInv` counts the lines of the benchmark on the
master port, which is open before the board starts: START, TEXT and END come one after the
other, and what is not in the port's buffer has been read by the thread.  `SettledInv`:
once the status is set the log is on disk and nobody is about to store another.
`PassedLogInv` carries this over to later launches: after the verdict a thread of the
image may still be alive if its wait timed out, but it has nothing to read and nothing to
store, and with the plug the next launch waits for it.

**PowerControl.**  `Refinement` needs what each step may rely on (`StepInv`): the delay is
reached with the plug off, the second command only after the delay.  With it each step is
a step of `PowerCycle` or a stutter.

**CciStressor.**  `StartedOnce` rests on `ListInv` (a list holds the channels of its core),
`PassInv` (a core stays inside its list) and `BarrierInv` (nobody reads a list while it is
filled); with them two cores that hold the same engine are the same core.

**VirtioTx.**  No interleaving is excluded.  `IInv` says that the types hold, that the copies
of the counter stay in its bounds (`Bounded`), which gives the types after a race as well,
and that the rest, `Sound`, holds until `raced`: what sender and handler have loaded is
still so (`Loaded`), every descriptor is held by one of the rings, the backend, the sender,
the handler, nobody for good (`leaked`) or the free list (`OneHolder`), and the list is
exact.  The lemmas say that taking the head off a list and putting an element in front leave
a list of one less or one more.  The free list is given by a function from positions to
descriptors, so that no recursion is needed.

The pool has two invariants.  `Flight` lists the descriptors that have memory, the oldest
first: the one the handler works on, those that were used, those the backend has, those
that wait and the one that is about to be published.  `KeptInv`, until `raced` or `erased`:
their spans lie in the pool and apart from each other, and each holds the text it was given.
It needs nothing of the lengths, since a message that finds no memory is not sent; from it
`ChannelStep` turns every step into a step of the channel or a stutter.

`RingInv`, for `PoolServes`: until `raced` or a message that is `TooLong`, the spans go round
the pool (`IsRing`).  Lifted by the size of the pool behind the place where the allocator
went back to the start, they are in order and disjoint, what lies between them is less than
one slot (`Slot`, the pool divided by `QSize + 2`), and together they are shorter than the
pool.  At most `QSize` texts are in flight when a message is allocated, so that these, the
new one and one gap leave some of the pool free: the bytes behind the last span, or those at
the start of the pool, are in no span, and the zero that `strcpy` writes behind the text
hits a byte that nobody has (`AllocRound`, `CopyRound`).  That such bytes are also free,
which the allocator decides by their value, is the rest of `Round`: the pool holds the texts
and nothing else (`NothingElse`).

The two slots more are not a matter of the proof: with messages of one and three bytes in
the pool of nine, which three messages of three would fill, TLC finds that `PoolServes` fails
when `TooLong` asks for `QSize + 1` only.

**VirtioRx.**  The handler writes the receive buffer in several critical sections, and
prints come between them.  `BufferInv`: the buffer is empty or begins with one text, with
zeros behind it up to the length of a buffer (`Holds`); from there on it has zeros and what
was in the memory, and never a byte of a message.  `CallInv` says how far the handler is:
with the position at the start nothing has been appended; else the position is behind that
place and the first message of the batch is in the buffer.  A later message is copied from
the position on, where the loop of `virtio_console_rx_append_buffer` has ended before it
begins (`AppendBufferIInv`).

**ProfilerLink.**  `RingInv` measures everything from the polled buffer: the profiler is ahead
of the client by `Ahead` samples, which determines where it fills next (`FillInv`), which
tags are set (`TagInv`) and which sample each buffer holds (`HeldInv`).  The tag that is
cleared too late, or too early, is inside this invariant, and `lost` records when it costs
a sample.

`FirstPacket` rests on `InOrder`, which makes the first packet that is sent packet 1, and on
`PacketInv`.  `StreamInv`: while the server may still read and nothing was taken for
something else, no quads have been sent, or the rest of packet 1 is under way, complete and
behind commands only the handshake will take (`Coming`).  `MessageInv`: what has been
received is the beginning of packet 1.  `FileInv`: the rows are consecutive parts of a
whole message.  `FlattenRows` is the lemma that such rows, one after the other, are the
beginning of the message; it needs no induction, since a first place where the two differ
would have a predecessor.

**TestPlan.**  Most of the work is in the operators.  `ProductFacts` says what
`itertools.product` is: every choice of one element of each sequence, at one place each.
The induction behind it, over the number of sequences, and that behind `FlattenSeq` go
through a least counterexample (`Least`, `Counting`): the library's induction theorems
have an operator as parameter, the well-foundedness of the naturals has not.  With these,
`NamedFacts` gives the configurations of a setup before mitigations, `Tint` and `Limit`
what colouring and budgets do to one of them, and `MitigatedFacts` all of them.
`PointsFacts` and `PrecedesOrders` turn the split points of
`generate_cache_colors_assignment` into shares that are disjoint, at least two colours
wide and generated in a strict total order; `Ranking` numbers them.

`ResultsAsNamed` is not inductive: it speaks of what is tested, and what is tested was
copied from what was built from what was written.  `Truthful` says of each of the three
that it is what its name tells, of the written files only in the directory of the *first*
setup.  That is where the builds look, and the only one in which it is true: a second
setup writes its configurations under the names of the first.  For the first the
list is empty when it is generated, and `AllTold` follows from `ColoursTrue` and
`BudgetsTrue`.
`AllColoured` is inductive with the types: it only depends on what is written
(`AllShared`).

`EachOnce` compares the plan with `Wanted`, which is defined by sets of owners, functions
and budgets and uses none of the program's loops.  `Complete` carries it from the end of
`GenerateTests` to the plan.  The list holds each subject once because a name tells its
guests and its budgets, and, unless two colourings have the same counts, its colours
(`TagsTell`: of generated colourings the counts determine the split points).  It
holds every subject `Wanted` asks for, and no other, because each of the three parts comes
out as wanted (`WantedGuestsCome`, `WantedColoursCome`, `WantedBudgetsCome` and their
converses).  `SharesSame` is where the two descriptions of a colouring meet: to give
consecutive colours to owners in order, two at least, is to choose split points.

Every safety invariant of the passing runs is proved.  Only model-checked are the liveness
properties, which are out of the prover's reach:
`TestLoopEnds`, `LoggersExit`, `CallEnds`, `ServerEndsAfterClient`, `ClientDecides`,
`UsedAreReclaimed`, `UsedAreTaken`, `EnginesKeepRunningUnlessStale`, and of `KeepsPromise`
that every accepted message is read.

## What the models show beyond the runs

Observed while modelling, without a statement of the repository that a run could refute:

* From the second setup of a campaign on, configurations are written under the names of
  the first setup's; the builds look only in the directory of the first setup; `main`
  lists the names of the last setup once for each setup.  Only the GUI writes several
  setups.
* Two listed colourings with the same counts have one name: the later file overwrites the
  earlier and is tested twice.  Budgets are placed by position among the bare-metal
  guests, and one budget goes to all of them.
* `_get_device`'s docstring promises to cache client and device; only the client is cached.
* A change of configuration makes `virtio_console_receive` return after it has
  acknowledged every cause: used buffers that were announced with it wait for the next
  message.  A message that does not fit the receive buffer makes it return `false`
  although others were received.
* A sender that takes a descriptor between `virtq_put_free_desc` and the
  `virtio_memory_pool_free` that still reads it (`virtio_console.c` l.336, l.356) has its
  own message set to zero, and the memory of the old one stays taken (`raced` in `Copy`).
* The server's hundred retries end at the first receive that brings nothing: the second
  word of no command is a null pointer (`profiling_tcp.c` l.107), also when the server
  could not open its socket and goes on (`server.c` l.83).
* All receive buffers are lent to the backend once and never again: after `VIRTQ_SIZE`
  messages nothing more is received.
* With all descriptors in flight a sender stops on an assertion, holding `tx_lock`.  A
  message that finds no memory keeps its descriptor for ever.
* The last zero byte of a message at the end of the pool is written behind the pool.
* The transmitted packet is as long as the whole store buffer although its data begin
  eight bytes into it (`guests/profiler.py` l.82), and the guest's start script passes four
  arguments (l.185) to a client that needs six.

## Plan

Done: `TestLogger`, `PowerControl` with `PowerCycle`, `CciStressor`, `ProfilerLink`,
`VirtioTx` with `ConsoleChannel`, `VirtioRx`, `TestPlan`, and their proofs.  What could
follow, in this order:

1. the handshake of the VirtIO driver over the MMIO registers, against the order of steps
   the VirtIO specification demands;
2. `TestLogger` with the Ethernet logger process, now that `ProfilerLink` says how it ends;
3. the deadlines of the intermittent cache stressor, with the width of the timer;
4. the ranking of the auto-tuner.

## Not modelled

* The MMIO handshake of the VirtIO driver: a straight line of register accesses at boot.
* Cache stressors, the QoS guest and the Embench driver: sequential loops on each core
  that share no state but the console; what they load is vendored.
* The rest of the bare-metal runtime (start-up code, page tables, drivers of the
  interrupt controller and the UART): assembly and register accesses.
* The text of configurations and build commands (`guests/*.py`, `bao.py`): formatting.
  What the text says of colours, budgets and guests is in `TestPlan`.
* The auto-tuner: statistics in floating point over measured data, without state.  The GUI.
* `start_ila_thread` and the functions of `test_engine.py` that are called nowhere.
* Commands to the plug that take effect long after they were given up.
* Timing: a timeout may come at any moment while a thread is alive.  The only
  durations used are those that order the reset and the one-second `readline`.
* The hypervisor (an empty submodule), and the vendored benchmarks (Embench, MiBench),
  which are most of the lines of the repository: no definition is mapped to them.
