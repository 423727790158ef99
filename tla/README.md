# A verification project for the Nios II light controller (EELE475)

The repository is a DE2 board design: a Qsys system (`src/DE2_System/Nios_Qsys`)
with a Nios II processor, on-chip memory, a JTAG UART, an LED and a switch port
on an Avalon interconnect, and the software that runs on it: the HAL board
support package (`src/DE2_System/Software/lights_bsp`) and a small application
(`src/DE2_System/Software/lights/lights.c`). This directory holds TLA+ models of its parts,
TLC configurations that check them on small instances, and TLAPS proofs of the
properties that matter most.

Short names used below: `jtag_uart.v` is
`Nios_Qsys/synthesis/submodules/Nios_Qsys_jtag_uart_0.v`; `init.c`, `read.c`,
`write.c`, `ioctl.c`, `fd.c` are `drivers/src/altera_avalon_jtag_uart_*.c` in the
BSP; `alt_*.c` are the files of its `HAL/src`.

## 1. Inventory

| Component | State | Operations | Talks to |
|---|---|---|---|
| JTAG UART peripheral (`jtag_uart.v`) | two 64-entry FIFOs, interrupt enables, pause interrupt, activity and overflow bits | read and write of the data and control registers; host pushes, pops, polls | driver over Avalon; host over JTAG |
| JTAG UART driver, interrupt-driven (`init.c`, `read.c`, `write.c`, `ioctl.c`) | two rings of 2048 characters, shadow interrupt mask, seconds of host silence, timeout | init, read, write, close, ioctl; interrupt handler; alarm callback | peripheral; IRQ layer; alarms |
| JTAG UART driver, polled (first half of `read.c`, `write.c`) | none between calls | read, write | peripheral |
| File descriptor layer (`alt_open.c`, `alt_close.c`, `alt_get_fd.c`, `alt_release_fd.c`, `alt_fd_lock.c`, `alt_io_redirect.c`, ...) | table of 32 descriptors, high-water mark `alt_max_fd`, exclusive-lock flags | open, close, read, write, ioctl, redirect | device registry; drivers through function pointers |
| Device and file system registry (`alt_dev_llist_insert.c`, `alt_find_dev.c`, `alt_fs_reg.c`) | linked lists of names | insert, find | file descriptor layer |
| Alarms and clock tick (`alt_tick.c`, `alt_alarm_start.c`) | 32-bit tick count, list of alarms with roll-over flags | start, stop, tick | callbacks of drivers; IRQ layer |
| Interrupt dispatch (`alt_irq_handler.c`, `alt_iic.c`, `alt_legacy_irq.h`, `alt_irq.h`) | status.PIE, ienable, the enabled and the priority mask, handler table | disable all, enable all, register, enable, disable, let more urgent ones in, dispatch | processor; every handler |
| Exceptions (`alt_exception_entry.S`, `alt_irq_entry.S`, `alt_instruction_exception_*.c`, trap and muldiv handlers) | return address, status and its copies, registered handler | decide why the vector was entered; issue again, emulate or skip | interrupt dispatch |
| Emulated instructions (`alt_exception_muldiv.S`) | none between instructions | mul, mulx.., div, divu | exceptions |
| Time (`alt_gettod.c`, `alt_settod.c`, `alt_times.c`; `alt_busy_sleep.c`, `alt_usleep.c`) | offset of the day; none | gettimeofday, settimeofday, times; usleep | tick count |
| Heap and stack check (`alt_sbrk.c`, `alt_exception_entry.S`) | break pointer, stack limit in `et` | sbrk, function entry, exception entry and exit | newlib; profiler |
| Profiler (`alt_mcount.S`, `alt_gmon.c`) | lists of functions and arcs, histogram | mcount, start of the sampler, sample | heap; alarms |
| Debug log (`alt_log_printf.c`, `alt_log_printf.h`) | heartbeat counters | messages of program and handlers, echo | one UART, without a lock |
| Output without a C library (`alt_printf.c`, `alt_putchar.c`, `alt_putstr.c`, `alt_getchar.c`) | none | print | drivers |
| Calls passed on to drivers and stubs (`alt_read.c`, `alt_write.c`, `alt_lseek.c`, `alt_fstat.c`, `alt_isatty.c`, `alt_ioctl.c`, `alt_stat.c`, `alt_kill.c`, ...) | none | one call each | descriptor table; drivers |
| DMA channels (`alt_dma.h`, `alt_dma_*chan_open.c`) | none of their own | open, send, prepare, ioctl | registry |
| Caches and flash (`alt_dcache_flush*.c`, `alt_icache_flush*.c`, `alt_remap_*.c`, `alt_uncached_*.c`, `alt_flash.h`) | the processor's caches | flush, discard, use uncached, erase, program | memory, flash drivers |
| Start-up and exit (`crt0.S`, `alt_load.c`, `alt_main.c`, `alt_sys_init.c`, `alt_do_*tors.c`, `alt_exit.c`) | sections copied and cleared | runs at each reset: interrupts, drivers, redirection, `main`; exit | everything |
| Application (`lights.c`) | none | copies switches to LEDs for ever | PIO cores |
| PIO cores (`Nios_Qsys_LEDs.v`, `Nios_Qsys_Switches.v`) | one register each | read, write | interconnect |
| Avalon interconnect (`altera_merlin_arbitrator.sv`, `Nios_Qsys_*_xbar_*.sv`, `Nios_Qsys_addr_router.sv`) | round-robin priorities, held grants | decode, arbitrate, forward | processor masters, all slaves |
| Reset controller, processor, on-chip memory | vendor IP and generated netlists | | |

What is hard here:

* *Three actors on one structure.* The program, the interrupt handler and the
  JTAG host act on the same rings, FIFOs and mask; the handler may run between
  any two instructions outside a critical section, the host at any clock.
* *Interrupts that are turned off by the one side and on by the other.* A turn
  missed or taken in the wrong order stops reception or transmission for good.
* *Values used after they are read:* the FIFO space the handler spends, the ring
  indices a call copies with and waits on, the shadow mask.
* *A peer that may be gone:* the silent-second count, its saturation and the two
  special timeouts.
* *Edges:* a ring that is full and one that is empty, the wrap, lengths of zero.
* Elsewhere: alarm callbacks that change the alarm list during a tick, 32-bit
  roll-over, nested handlers and registrations they interrupt, descriptor locks
  over a high-water mark, an exception vector that cannot tell why it was
  entered, resets in the middle of start-up, arbitration that must hold a grant
  for a whole packet and starve nobody.

What makes each component correct:

* *JTAG UART and its drivers:* characters pass in order, each once; the result
  of a call counts them; no FIFO or ring is overrun; interrupts stay armed while
  there is work; calls return as long as the host is there, and when it has
  been gone for the timeout.
* *File descriptors:* a descriptor names an open device until it is closed; an
  exclusive lock excludes; the high-water mark bounds the table in use.
* *Alarms:* an alarm fires once per period, at its time, across roll-over, and
  never after it has been stopped.
* *Interrupt dispatch:* every pending, enabled source is served by the handler
  registered for it, with its own context.
* *Interconnect:* one grant at a time, held for the packet; every requester is
  served; responses go back to the master that asked, in order.
* *Exceptions and emulation:* each instruction takes effect once, and none of
  a critical section lets an interrupt in; an emulated one stores what the
  processor's manual defines.
* *Time:* the time read is the time set plus what has passed; a delay is as
  long as was asked. (The code's are shorter, by what a truncated division
  leaves; the model says by how much.)
* *Heap, stack and profiler:* a block is given out once; heap and stack do not
  meet unreported, and nothing is reported that has not happened; the profiler
  counts the program's calls and starts its sampler once. (The code keeps the
  second only while allocations are aligned, breaks the third on the exception
  stack, and the last if an interrupt comes at one place.)
* *Caches:* a flushed region is out of the cache and no change to another line
  is lost. (The code loses those of the line behind an unaligned region.)
* *Debug log:* handlers' messages come out whole, little of the program's is
  lost, the heartbeat keeps its period. (The code's is one tick longer than the
  comments say.)
* *Registry and calls:* the entry found is the one named; a failing call says why.
* *Start-up:* `main` finds everything initialised, after every reset.
* *Application:* the LEDs follow the switches.

`PROJECT.json` lists every component with its status and every hazard with the
line where it bites.

## 2. Modules

In the order they were planned, the behaviour the system depends on most first:

| Module | Models |
|---|---|
| `JtagUartDevice` | the peripheral, one action per register access and host event |
| `JtagUartDriver` | the interrupt-driven driver on that device: program, handler, alarm callback |
| `JtagUart` | its properties, inductive invariant and fair specifications |
| `WriteChannel`, `ReadChannel` | abstract specifications: what write and read promise a program |
| `MCJtagUart`, `MCTraffic` | constants for TLC, and behaviours divided by direction |
| `JtagUartProofs` | proofs about these for all values of the constants: the safety invariants |
| `JtagUartChannelProofs` | the interrupt-driven driver implements both channels |
| `JtagUartSmall`, `JtagUartSmallProofs` | the polled driver on the same device; its invariant and its refinement of both channels |
| `FileDescriptors`, `FileDescriptorProofs` | the descriptor pool: open, close, lock, unlock, set flags, redirection |
| `Alarms`, `AlarmClock`, `AlarmProofs` | tick, list and callbacks; abstractly, ticks to go without list or width; that the one implements the other |
| `Interrupts`, `InterruptProofs` | registration, masks, dispatch, nested handlers |
| `TimeOfDay`, `BusySleep` | time of day; delays |
| `Exceptions`, `MulDiv` | what becomes of the instruction at the exception vector; emulation |
| `Stack` | sbrk and stack limit against the stack |
| `Profiler` | call graph under interrupts, sampler, heap it shares with the program |
| `HeapProofs` | invariants of these two |
| `Registry` | lists of devices, channels and file systems, and the two searches |
| `SystemCalls` | calls handed on to drivers, with and without descriptors; stubs; DMA channels |
| `Formatter` | the two printf functions and the echo of the debug log |
| `DebugLog` | messages of program and handlers in one UART; the heartbeat |
| `Caches` | flushes, uncached blocks, flash |
| `Startup` | reset to `main` to `_exit`, with further resets |
| `Interconnect` | command multiplexer and round-robin arbitrator, clock by clock |
| `Lights` | the application, the PIO cores and the address map |
| `MCServices` | alarms, interrupts and the polled driver, side by side, with their fairness |
| `MCLibrary` | the modules from `TimeOfDay` to `Lights` and `FileDescriptors`, side by side, with constants for TLC |
| `MCProfiler` | the smallest profile, for one finding |
| `LibraryProofs` | invariants of those from `TimeOfDay` on, and what `Formatter` prints; theorems of `MCLibrary`'s specification |

`JtagUartDriver` and `JtagUartSmall` EXTEND the device: the two actors act on
one set of variables. `JtagUart` and `JtagUartSmall` INSTANCE the same two
channels with different refinement mappings; `Alarms` INSTANCEs `AlarmClock`.
`MCLibrary` and `MCServices` join parts without letting them interact: the
initial state chooses one, and only that one moves. The constants of `MCServices`
are given in its .cfg alone. Where one part
calls another (the profiler sbrk and alarms, start-up the driver), it has its own,
coarser, view of it. What they have in common with the driver is in the driver
as the guarantee the other module checks: `IsrEnter` is dispatch with the right
handler and context (`CalledWithOwnContext`), `TimeoutCheck` an alarm that
is set again by its own callback (`OnTime`), and the state the driver starts in is what `Startup`
leaves (`InterruptsFindHandler`, `MainFindsAll`).

## 3. How the models correspond to the code

### JtagUartDevice

The granularity is the Avalon transfer: a register access of the CPU is one
step, and so is a push, a pop or a poll of the host.

| TLA+ | `jtag_uart.v` |
|---|---|
| `rfifo`, `wfifo` | the two scfifos (lines 77-151, 240-316) |
| `ien`, `ac`, `woverflow`, `pause_irq` | registers at 435-444, 484-500 |
| `ipen_AF`, `ipen_AE`, `av_irq` | the interrupt outputs, 431-433 |
| `WriteControl`, `WriteData`, `ReadData` | the CPU side, 486-515 |
| `t_ena`, `t_pause`, `r_ena` | the host side through alt_jtag_atlantic, 401-402, 434-444 |

Two details decide more than they seem to. A read of the data register takes two
clocks: RVALID is sampled and the FIFO popped on the first, RAVAIL driven from
the FIFO level on the second. A character pushed on the first clock is in RAVAIL
and not in RVALID; `ReadData(arriving)` has it as its argument. And `fifo_AF` and
`fifo_AE` are registered copies of the comparison, one clock late. A CPU access
takes at least two clocks on this bus, so software sees them one access late at
most and only in a way that equals the host event having come a moment later;
the model uses the comparison itself.

### JtagUartDriver

Three actors. `pc` is the program's place in the call it has made, `isr` the
place in the handler or the alarm callback ("idle": none is running). A step of
the program is one access to shared state or to a register; it is taken with
`isr = "idle"`, so the handler interrupts between any two of them while
interrupts are on (`pie`). Work on the variables of the call is folded into the
neighbouring step.

| TLA+ | Code |
|---|---|
| `InitDevice`, `InitRegister`, `InitAlarm` | `altera_avalon_jtag_uart_init`, init.c:66-100 |
| `ReadCall` ... `ReadReturn` | `altera_avalon_jtag_uart_read`, read.c:100-203 |
| `WriteCall` ... `WriteReturn` | `altera_avalon_jtag_uart_write`, write.c:83-215 |
| `EnableDisableAll` ... `EnableAll` | the critical section of both, read.c:191-194, write.c:136-139 |
| `CloseCall`, `CloseWait` | init.c:241-254 |
| `IoctlSetTimeout` | ioctl.c:52-84 |
| `IsrEnter` ... `IsrTransmitEnd` | alt_irq_handler.c:128-159, init.c:106-197 |
| `TimeoutCheck`, `TimeoutClear` | `altera_avalon_jtag_uart_timeout`, init.c:203-225 |

`n'`, `in'`, `out'` are the locals of the copy loops; `memcpy` is a byte at a time
(`ReadCopy`, `WriteCopy`), so that the handler and the host act in the middle of it.
`Return` clears the locals of a call that has ended. The alarm callback runs once a
second in the code and at any time interrupts are on in the model. TIOCGCONNECTED
reads two fields and changes none: it is no action.

The BSP is built without optimisation, so the waiting loops read `host_inactive`
and `timeout` on every pass although neither is volatile; the model does too.

### JtagUartSmall

The same device under the loops of the polled routines, one step per register
access. This is the half of the driver that this BSP links
(`ALT_USE_SMALL_DRIVERS` in its public.mk); the interrupt-driven half is in the
repository, is what the driver's documentation comments describe, and is
compiled in by one setting.

### FileDescriptors

One call is one step: there is a single thread (the BSP defines
`ALT_SINGLE_THREADED`, so the pool's semaphore is empty) and no interrupt handler
or alarm callback touches the pool. What is hard here is a long sequence of calls, some
of which fail part way.

| TLA+ | Code |
|---|---|
| `alt_fd_list`, `alt_max_fd`, `FilesInit` | alt_dev.c:111-149 |
| `FirstFree`, `Full`, `Raised` | `alt_get_fd`, alt_get_fd.c:54-101 |
| `Outcomes`, `Attempt`, `EntryFor`, `Locked`; `Open` | `open` and `alt_file_locked`, alt_open.c:64-171 |
| `Released`; `CloseFd` | alt_release_fd.c:44-51; alt_close.c:64-101 |
| `Lock` with `SharedDevice`, `Unlock` | the two requests `ioctl` keeps for itself, alt_ioctl.c:106-168; alt_fd_lock.c; alt_fd_unlock.c |
| `SetFlags` | `fcntl(F_SETFL)`, alt_fcntl.c:66-101 |
| `Redirect` | one stream of `alt_io_redirect`, alt_io_redirect.c:58-94 |

A name is the device or file system it resolves to. The flag word is the set of its
bits: the two the pool keeps for itself (which a caller may try to pass to open)
and one that fcntl may change. `ok` is the result of a driver's own open; a
driver's own close may fail too, but `close` gives the descriptor back whatever
it returns, so `CloseFd` needs no such choice. `held`, the descriptors the program
has been given and has not closed, is the only variable without a counterpart in
the code; the program makes calls on those alone. The functions that only pass a
call on to the driver (read, write, lseek, fstat, isatty) change nothing in
the pool; they are the operators of `SystemCalls`.

### WriteChannel, ReadChannel

What a program may rely on. `WriteChannel`: bytes leave the front of the offered
buffer for a bounded queue to the host, the result is the number taken, or an
error if none was. `ReadChannel`: bytes the host has sent are stored in order
and the result counts them. Under the mappings, the interrupt-driven driver's
queue is FIFO plus ring, the polled driver's the FIFO alone.

### Alarms

The program starts and stops alarms with interrupts disabled: one step. A tick is
many: entering, one per node, one per call of a callback.

| TLA+ | Code |
|---|---|
| `Inserted`, `Removed` | alt_llist.h:90-117 |
| `alt_alarm_start` with `Due`, `Wraps` | alt_alarm_start.c:64-112 |
| `alt_alarm_stop` | alt_tick.c:66-73 |
| `TickEnter`, `TickSkip`, `TickCall`, `TickDeactivate`, `TickRepeat` with `Flag`, `Expired`, `Advance` | `alt_tick`, alt_tick.c:87-148 |

`follow` is the local `next` that is read before the callback. The counter has
`Word` values; delays and periods come from sets below it. `MayStopNext` says
whether a callback may stop the alarm that follows its own: with it the walk
can hang (see Findings), so `OnTime` and `TickEnds` are checked without.

### Interrupts

`frame[0]` is the program, each frame above it a handler; only the topmost one
moves, one access to shared state per step.

| TLA+ | Code |
|---|---|
| `RegisterCall` ... `RegisterReturn` | `alt_iic_isr_register`, alt_iic_isr_register.c:75-101 |
| `MaskCall`, `MaskEnter` ... `MaskReturn` | `alt_irq_enable`, `alt_irq_disable`, alt_legacy_irq.h:68-98 |
| `DisableAll`, `EnableAll` | alt_irq.h:113-159 |
| `Enter`, `Dispatch`, `HandlerReturn`, `Leave` | alt_irq_entry.S:79-95, alt_irq_handler.c:128-167 |
| `alt_irq_interruptible`, `alt_irq_non_interruptible` | alt_legacy_irq.h:118-149 |

The scan of the dispatcher (141-155) is the choice of the most urgent bit; the
first pass does not test that there is one (`ScanEnds`). `NestedMasking` allows
handlers to enable, disable and register while some handler has let others in.

### The parts of the library

* `TimeOfDay` keeps the width of the product in settimeofday (`FractionSet`)
  where gettimeofday has 64 bits (`Fraction`).
* `BusySleep` counts loop passes; the pass that decrements before it tests, and
  the register that the asm modifies without telling the compiler, are there.
  `PerMicro` is the truncated division of the clock, `Rest` what it leaves;
  properties compare cycles, not passes, with the time asked for.
* `Exceptions` follows the entry code stage by stage; an interrupt may arrive
  and be withdrawn between any two. `PIE` is the enable bit, `contexts` what the
  critical sections the program is in will restore, `estatus` the bit as it was
  at the entry, which `IrqTest` looks at before ipending, and `savedStatus` its
  copy on the stack, as handlers that nest may change the register.
  `MulDiv` is the loops, one pass per step.
* `Stack` has the stack pointer, `et` and the limit saved during an exception;
  the compiler's test at function entry is `Enter`. `unaligned`, that sbrk has
  allocated some bytes that are no multiple of a word, is a history variable.
  `Profiler` has mcount's walk with interrupts on and its insertion with
  interrupts off; the test of `pcsample_need_init` (`TryInit`), the clearing
  (`ClearNeedInit`) and the start of the sampler are three steps, between which a
  handler may do the same. The two callers share one hash bucket.
* `Registry` compares names with what lies behind their NUL in memory.
  `SystemCalls` and `Formatter` are operators, one per function.
* `DebugLog` puts a character in two steps, the test for space and the store.
* `Caches` holds which lines are cached, dirty or stale, not their contents.
* `Startup` has one action for each call between reset and `main`, in the order
  in which the ways of building the BSP put them (`Order`).
* `Interconnect` is one action, a clock edge. The terms of `lock` in the
  multiplexer are left out: the masters' `av_lock` is tied to '0'
  (Nios_Qsys.vhd:1564, 1629). `Lights` has one action per access
  of the loop and one for the clock of the switches' core; its `Route` is the
  generated address decoder.

## 4. What TLC checks

| Run | Instance | Properties | Shows |
|---|---|---|---|
| traffic | 2 characters, FIFO 2, threshold 1, ring 3, calls of 0-3, one direction at a time | `ChannelInv`, `RxArmed`, `TxArmed`, `NoOverflow`, `WriteInOrder`, `ReadInOrder` | reads and writes implement the channels; the FIFO is never overrun, no interrupt is left off over work; the inductive invariant of the proofs, which contains `IInv` |
| connected | FIFO 2, ring 2, calls of 0-2 in both directions and close, fair | `MaskAgrees`, `WaitMeansStuck`, `HandlerReturns`, `WritesReturn`, `TransmitProgress`, `ReadsReturn` | both directions share mask, register and handler; progress with a host that listens and polls |
| timed_out | FIFO 1, ring 2, all four calls, clock, fair | `NeverTimesOut`, `TimeoutUnblocks` | the timeout ends every wait for a silent host; "never" is never |
| services | 3 alarms and 6 tick values; 3 interrupt sources; polled driver with 2 characters, FIFO 2, calls of 0-3; fair | `RingOK`, `OnTime`, `TickEnds`; `NestedByUrgency`, `CalledWithOwnContext`, `ScanEnds`, `EnableAgrees`, `UrgentServed`; `WriteInOrder`, `ReadInOrder`, `ReadsDoNotLinger`, `WritesReturn` | the list of alarms stays whole under callbacks that change it, each callback comes in its tick, across roll-over, every tick ends; right handler, right context, right order, at any depth, the most urgent is always served; the polled driver implements both channels and returns |
| library | see Bounds | `TimeKept`, `CachesKept`, `NamesFound`, `EmulationKept`, `LogKept`, `ExceptionsKept`, `ProfileKept`, `PrintsRight`, `CallsRight`, `StartupKept`, `SystemKept`; `NoLeak`, `OneLock`, `OpenRespectsLock` | the properties of each part, which the first eleven group; they stand with their parts, each with a comment. For descriptors: nothing leaks or dangles whatever fails, locks are respected and never doubled |
| lock_alone | `FileDescriptors` as in *library* | `LockMeansAlone` | violated: see Findings |
| alarm_stopped | `Alarms` as in *services*, callbacks may stop the next alarm | `StoppedIsSilent` | violated: see Findings |
| set_time | `TimeOfDay` alone | `SetReadsBack` | violated: see Findings |
| preempted | `Interrupts` as in *services*, nested masking | `OnlyMoreUrgent` | violated: see Findings |
| two_samplers | `Profiler`, one call each of program and handler | `SamplerStartsOnce` | violated: see Findings |
| discard | `Caches` without flash and uncached blocks | `DiscardIsLocal` | violated: see Findings |
| false_report | `Stack` alone | `ExceptionReportIsTrue` | violated: see Findings |

Every property of a passing run has a mutant in `PROJECT.json`: a plausible bug in one
definition that makes TLC report that property.

### Bounds

* A ring of 3 slots holds two characters: it fills, empties and wraps at every
  offset, a copy can end inside, at the end of the buffer or at the wrap, and a
  call of 3 characters needs more than one round. A ring of 2 holds one, which
  is enough to make every wait happen; it is used where liveness is checked.
* A FIFO of 2 is empty, partly full and full. With threshold 0 the receive
  interrupt needs a full FIFO or the pause; with threshold 1 the transmit interrupt comes
  with one character left in the FIFO.
* Two characters tell loss, repetition and reordering apart; runs about
  interrupts and progress need one.
* `IntMax` is 4 or 5: the saturation point, "never" and "no clock" are distinct,
  and the default timeout of 2 lies below them.
* `MaxCount` bounds the length of one call; the number of calls is not bounded.
  In *connected* the directions share one state space; in *traffic* each behaviour
  has one direction, and what they share is covered by *connected* and the proofs.
* A pool of 5 has two descriptors above the standard streams, which are
  redirected to a device, to a file system and to nothing, so that each way
  `alt_io_redirect` can go is taken. One device can then have three users and two
  devices two, below and at the high-water mark, and the pool can be full.
* Three alarms are one under the cursor, one that follows and one that a callback
  puts in front; with 6 tick values the counter and the expiry times wrap every few
  ticks. A delay of 4 is the longest that works: 5 (2^32 - 1 in the code) is
  taken for none, see Remarks. A period of 5 is the longest.
* Three sources: one serving, one nested in it, one more urgent than both. One
  handler routine suffices to tell a handler from none and its context from
  another's.
* *library:* `DebugLog` logs two messages of each writer into a UART of two
  characters; `Exceptions` runs programs of up to three instructions with two
  interrupts and two critical sections, one in the other; `BusySleep` has a
  clock of 59 cycles for two microseconds and 9 cycles a pass, so that the division leaves
  something; `MulDiv` has all pairs of 4-bit operands; `Profiler` three arcs in
  one bucket, two calls of the program and one of a handler, and a heap that can
  be exhausted; `Caches` two lines of cache over three of memory, so that two
  lines contend for a place, and lines of two bytes, so that regions start and end inside one; `Startup` two further
  resets and all ways of building; `Stack` 8 bytes, words of two and increments
  that are multiples or not; `Interconnect` three masters
  (this system has two for a shared slave) and commands of two beats; `Lights`
  four changes of the switches; `Registry` names of up to three characters and
  all paths of up to four; `TimeOfDay` 16 tick values, two ticks and six
  microseconds a second. The stateless functions are called with every value
  of a narrow word, every format of up to five characters and every word address
  of the first 32 KB. CHECK_DEADLOCK is off in this run: a program has ended, a
  processor has halted, a call is over. It is off in *two_samplers*, *discard*
  and *false_report*, parts of this run alone, for the same reason.

The proofs do not depend on these values.

### Fairness

* `SF(Program)`: the CPU executes. The program is disabled while a handler runs
  and enabled between two interrupts; an interrupt may be taken at every
  instruction, but the processor executes at least one instruction of the
  program after each return from one, so strong fairness of the program as a
  whole, not of each action, is what the hardware gives. `Program` is what a
  call in progress does; the program need never make another call.
* `SF(IsrEnter)`: a pending interrupt is taken when PIE is on. Critical sections
  make it intermittently impossible, hence strong.
* `WF(Handler)`: an entered handler executes.
* `HostFairness` (only in *connected*): a host that is there takes what is in
  the transmit FIFO and pauses (polls) from time to time; this is what
  `jtag_uart.v` calls `t_pause` and what the receive path needs, because a character below
  the threshold raises no other interrupt.
* `SF(TimeoutCheck)` (only in *timed_out*): the one-second alarm keeps coming.
* In *services* each of the following holds while its part was chosen.
* Polled driver: `WF(DriverStep)` and a host that takes characters; no interrupts.
* `Alarms`: `WF(TickStep)`. The handler of the clock runs on once entered, and a
  callback makes finitely many calls and returns. Nothing makes ticks come.
* `Interrupts`: `WF(InCall)`, `WF` of `Dispatch` and `Leave`: what has begun runs
  on. `SF(Enter)`: an interrupt that is enabled again and again is taken.
  `SF(HandlerReturn)` and `SF(alt_irq_non_interruptible)`: handlers end, although
  more urgent ones keep interrupting them. Devices need not ask, nor programs call.

## 5. What is proved

`JtagUartProofs`, for every character set, FIFO depth, threshold, ring length,
timeout, set of calls and call length (assumptions `DeviceAssumption` and `DriverAssumption`: a
non-empty character set, a threshold below the depth, a ring of at least two
slots, a default timeout between 2 and INT_MAX - 2):

* `Invariance`: `Spec => []IInv`, and from it
* `TypeCorrect`, `ReceiveStaysArmed`, `TransmitStaysArmed`, `FifoNeverOverruns`,
  `MasksAgreeInHandler`, `NeverExpires`, `WaitersAreStuck`.

*Argument.* `RxArmed` and `TxArmed` are not inductive. That the handler may turn
receive interrupts off only over a ring with data needs to know, at the end of
its receive loop, why the loop ended (`HandlerInv`): with RAVAIL set it either
found the ring full or moved something, and *that* it moved something rests on
a receive interrupt meaning a non-empty FIFO, hence on the pause interrupt being
pending only over a non-empty FIFO. That the program's turning them on is not
undone rests on the critical section (`PlaceInv`) and on the shadow mask being
the register outside it (`MaskInv`). A read returns without the critical section
only if it moved nothing (`ReadInv`), so the obligation it took over when it
emptied the ring is kept. `TxArmed` is alike with roles exchanged, and the
overrun of the FIFO is excluded because the space only grows between the pass
that read it and its use (`wroom <= wspace`). `WaitMeansStuck` comes from the
window a call holds: `in = rx_out` while a read waits, no room behind `out` while a
write does (`WriteInv`). Each part has a lemma (`...Step`) that names the parts
one step needs; `NextIInv` puts them together.

`JtagUartChannelProofs`, under the same assumptions: the driver implements both
channels. `ChannelInvariance` (`Spec => []ChannelInv`), and from it the
refinements `WritesInOrder` and `ReadsInOrder`.

*Argument.* A write copies into slots that it publishes later, and a read gives
slots up later than it copies them; in between, the handler moves the other index.
`WriteWindow` says that what has been copied is in the slots behind the ring's
end, that they stay free, and that what is left of the caller's buffer is what
was not taken; `ReadWindow` that what has been copied is the ring's beginning. A
handler only takes from the transmit ring and adds to the receive ring, so
neither touches a window. With them the mapping is a matter of sequences: FIFO
and ring together are the channel's queue; copying is a stutter, publishing the
channel's transfer, and a character that the handler moves stays where it is in
the queue. The lemmas on rings (`RingGrows`, `RingShrinks`, `RingSame`) say so
with the wrap at any offset.

`JtagUartSmallProofs`, for all values of its constants: `SmallInvariance`,
`SmallNeverOverflows`, and the two refinements `SmallWritesInOrder` and
`SmallReadsInOrder`: every step of the polled driver is a step of the channel or
a stutter, with the mapping the run *services* checks.

`FileDescriptorProofs`, for every pool of three descriptors or more, every set of
devices and file systems and every target of the redirection
(`DescriptorAssumption`): `PoolInvariance` (`Spec => []PoolInv`), and from it
`NoDescriptorLeaks`, `OneLockPerDevice` and `LocksAreRespected`.

*Argument.* `PoolInv` is `FilesTypeOK /\ NoLeak /\ LockInv`. `OneLock` alone is not
inductive: alt_fd_lock.c:61 stops the search for other users one short of
`alt_max_fd`, so the lock it grants could be a second one, held at
`alt_max_fd`. `LockInv` rules that out: a lock whose device is open elsewhere too
sits strictly below the high-water mark, where every later search finds it. It
can come to be so only when the other user is *at* the mark (that is the one the
search misses), and the mark is never lowered. `OutcomeFacts` says how an open can end (a free entry
cleared, or a new entry for a device that nobody has locked); every step that
opens rests on it.

`AlarmProofs`, for every set of alarms, width, delays and periods, also when
callbacks stop the alarm after their own: `RingInvariance`, types and the ring.
*Argument.* `ListInv` adds `CursorOK`: both nodes the walk holds have links. The
step that could break it is the walk moving on to a node that was removed
meanwhile; as a removed node points at itself, its links remain links.

`CallbacksOnTime`: `Alarms` implements `AlarmClock`, under two hypotheses: callbacks
do not stop the alarm after their own (else the walk hangs, run *alarm_stopped*), and
no delay is the longest, 2^32 - 1 in the code (it is taken for none, see Remarks).
*Argument.* `TimelyInv` says of each listed alarm whether the walk has still to
come to it in this tick: what it has tested, its flag compares with this tick, what it has not,
with the last one (`Tested`, `Untested`). Which is which depends on where the
nodes stand; as the list is links only, the invariant says that positions *exist*
that fall along the links (`Order`), and each step supplies new ones: a started alarm goes
above all others, so that the walk under way does not meet it, and a removal
leaves the rest where they are. The arithmetic of a counter that wraps is in
`Distance` and `Later`.

`InterruptProofs`, for any number of sources and any depth of nesting, for
handlers that leave the masks alone while some handler has let others in (the
run *preempted* shows what happens otherwise): `Dispatching` (`Spec => []IInv`
and the four properties) and one theorem for each, `NestingIsByUrgency`,
`HandlersGetTheirContext`, `FirstScanEnds`, `MasksAgree`.
*Argument.* `LevelInv` ties the priority mask to the stack of frames: what a
handler will restore is what the frame below it let in. From it every pending
enabled interrupt is more urgent than every handler that runs. `PieInv` says
what PIE is, and will be restored to, at each place; so the two stores of
a registration are never seen by a dispatcher, and nothing runs between the entry
and the first scan. `TableInv` names the only moments at which an interrupt
without a handler is in a mask, all inside the critical section. One lemma per
action.

`HeapProofs` has the invariants of the two users of sbrk.
`HeapMeetsNoStackAlways`, for every memory size, alignment and frame and whatever
is allocated: `HeapMeetsNoStack`, which speaks of the time before the first unaligned
allocation, and `LimitInHeap`, which has no such condition.
*Argument.* Until then the heap ends at a multiple, so that the limit compared at
alt_sbrk.c:107 is the one that was set, and the limit follows the heap also when it is
kept in memory during an exception. Later it stays where it was or is set to the
end of the heap, which never sinks (`NoSmaller`).

Its `ProfilerInv` is behind `ProfileIsRight` below. The call graph is two levels of
linked records, and a handler's mcount may run inside the program's walk.
`RecordsInv` makes the records lists (a list is the least set with the first
record and each next, so that no recursion is needed); `PlaceOK` and `WalkOK` say what
a walk has found and passed; `UniqueInv` that an arc has one record unless an
interrupt has come during a walk, which is what `cut` remembers. `StoreOK` bounds the
counter that is about to be stored by what was loaded, and `AccountInv` then has
the totals: never below the program's calls, never above all calls, and equal to
them while no interrupt came between load and store. Sums over records are followed
by induction on a set of numbers (`UpTo`). `SamplerInv` counts the calls about
to start the sampler and the starts: two only if `cut` says that a handler came between
test and clearing; `BlocksInv` the blocks apart and below the end of the heap,
`HistogramInv` a bucket for each that the text fills. All of it up to the failure
of an sbrk that the code does not notice (`wild`, see Remarks).

`LibraryProofs` proves all properties of the run *library*, of `LibrarySpec`, for all
values of the parts' constants. A part has an inductive invariant of its own; as
the part that runs never changes, it is one of the whole.

* `InstructionsExecutedOnce`. `Mark` is the first instruction that is not through:
  before it each is done or skipped, from it on none is (`MarkInv`). `StageInv` keeps
  what each stage of the entry code has learnt of the instruction. `MaskInv` has the
  contexts of the critical sections, the outermost of which alone restores PIE, and
  the copy of the status that an exception returns to, for every depth of nesting.
* `NamesAreFound`. Comparing bytes up to the NUL is comparing names whatever comes
  after it (`MemoryTells`). For paths, the code's test of one byte behind the mount
  point must be the comparison of components: `TakingTells` says that components
  determine the characters, `ComponentsStay` that those closed by a slash never
  change. Names are non-empty C strings without NUL (`RegistryAssumption`).
* `TimeOfDayKept`. The offset stands for the time given less the ticks before
  (`OffsetInv`); seconds may be carried from one field to the other (`Carried`
  and the like). The rate divides a second (`TimeAssumption`).
* `LogLosesLittle`. A character is lost only when a handler came after the program's test
  (`LossInv`); all characters are accounted for (`CountInv`), and a handler's message
  is contiguous because it ends before the program goes on (`OrderInv`).
* `StartsAnewEachTime`. `SInv` and `VariablesInv` say what each part of the state is while
  a call of the build's `Order` is next; a reset may come at any of them and leaves
  the memory as it is. That garbage is no valid section
  (`StartupAssumption`) is a matter of representation.
* `SystemHolds`. The stack as above; the LEDs by how old a setting
  each register may hold (`LightsInv`); every address of the map against the decoder.
  For the bus, `WaitInv` counts for each waiting master how many are still to
  pass it, round from the one with priority. That the arbitrator's adder grants the
  first that asks (`MastersInTurn`, for any number of masters) follows from what numbers
  their bits make: the priority that is added carries over the masters that do
  not ask, in the one half of the sum or the other, to the first that does
  (`Carries`, `Doubled`, `VectorIs`, `BitIs`). `PlacesAssumption` says what powers of two are.
* `CachesStayRight`. Which lines the loop of a flush gets to, aligned or not, shorter or
  longer than the cache (`Reached`, `IndexReached`, `NoneFurther`), the last for how
  far behind an unaligned region it gets; blocks used uncached are whole lines and shared with nothing cached.
* `CallsAreRight`. For delays, the arithmetic of the loop's passes and of the truncated
  division, in cycles, for every clock, kind of processor and width; for the calls,
  one case for each outcome of a driver. Error numbers are positive (`CallsAssumption`).
* `EmulationIsRight`. What the registers hold after each pass: in a division the
  quotient so far in the low bits, the dividend's rest in the high ones
  (`DivideInv`); in a multiplication the low half by the multiplier's top bits,
  the high half by its bottom ones (`LowInv`, `HighInv`). What powers of two are is
  said by `PowersAssumption`, as the provers know nothing of `^`; it is, like
  `PlacesAssumption`, a truth of arithmetic, which TLC evaluates for the run's values.
* `PrintingIsRight`, with `EveryIntegerReadsBack`, `EveryFormatPrintsAlike` and
  `EveryEchoFits`, which say more than the run asks: every word of any number of digits
  in every conversion, formats of any length, echoes of any size. The recursions
  are functions on `0 .. Len`; that they exist, and what each
  step gives, is shown from below (`ScanTo`, `PrintTo`, `EscapeTo`, `ReadTo`).
  - *Integers.* The value divided by the powers of the base loses one digit at each
    (`NextDigit`), so reading the numeral from the top has, after `j` digits, the quotient by
    the power that is left (`NumeralReads`). The loop that counts
    digits finds the least power above the value, and 2 * `Digits` places are
    enough in every base (`PlacesAre`, `WordFits`); for the smallest negative
    number too, whose magnitude still fits a word. What comes before the digits, blanks, zeros and
    one sign, reads as nothing and is as long as the width asks (`PaddingIs`,
    `IntegerPrinted`). The format itself is read character by character,
    its width digit by digit (`DigitsAre`, `OneIntegerScanned`): the run has a few
    widths, the theorem every one that an int holds, as a greater one overflows it.
  - *The two scanners.* `Alike` relates their states: `escape` is the state
    `pfState_firstFmtChar` with fresh flags, `pfState_otherFmtChar` is never left over between
    characters, output and next argument are the same. alt_printf looks for the first digit that is not
    zero from the top, the log counts digits from the bottom: the same digit (`FirstDigit`, `HexIs`).
    A format of n characters takes n / 2 arguments at most, and of those alone it is assumed that
    they are words.
  - *Echo.* What is kept is one character shorter than what is echoed, whatever its length.
  `FormatterAssumption` has `Char` and `Text` give strings for every word;
  `RadixAssumption` says what powers of 8, 10 and 16 are, as `PowersAssumption` does.

*Model-checked only.* Liveness (no backend handles fairness): `HandlerReturns`,
`WritesReturn`, `ReadsReturn`, `TransmitProgress`, `TimeoutUnblocks`, `ReadsDoNotLinger`,
`TickEnds`, `UrgentServed`.

## 6. Findings

Where a statement of the sources and the code disagree, with a run that shows it. A run
named in italics passes: its property states what the code does, not what the text says.

* `lock_alone`. alt_fd_lock.c:61 searches `i < alt_max_fd`, where open's search
  (alt_open.c:79) goes to `i <= alt_max_fd`. If the other user of the device is the
  descriptor at the mark, the lock is granted although the comment (lines 43-44)
  says it is granted only "If there are no other open file descriptors which reference
  the same device". Two locks on one device are impossible all the same
  (`OneLock`, proved), and open refuses further users (`OpenRespectsLock`, proved).
* `alarm_stopped`. alt_tick.c:102 reads the next alarm before the callback. If
  the callback stops that alarm, the walk goes on to it: its callback is made,
  though alt_alarm.h:73 says stopping unregisters it, and as a removed node points
  at itself the walk never leaves it.
* `set_time`. alt_settod.c:84 multiplies ticks by microseconds in 32 bits where
  alt_gettod.c:93 has 64; once the product wraps, the time read is not the time
  set (lines 61-63).
* `preempted`. `alt_irq_enable` and `alt_irq_disable` write ienable without the
  priority mask. Called by a handler while some handler has let more urgent ones
  in, they let less urgent ones in too, against alt_legacy_irq.h:103-104.
* `two_samplers`. alt_gmon.c:167 tests `pcsample_need_init`, line 169 clears it, with
  interrupts on. A handler's mcount in between starts the sampler, and the program
  starts it again, though lines 212-213 say it is started until it returns zero and
  152-153 that the function copes with reentrancy. The histogram is allocated
  twice, and one alarm is put into the list of alarms while it is in it.
* `discard`. For any unaligned start alt_dcache_flush_no_writeback.c:84 invalidates one
  more line, without asking whether the region reaches it: changes behind the region are
  lost, where alt_cache.h:65-66 speaks of the region alone. `DiscardIsNear` (proved) bounds it.
* `false_report`. On the exception stack alt_sbrk.c:124 compares the saved limit, just found
  to be the old end of the heap, with the new end: every sbrk reports an overflow, sbrk(0) too.
  Lines 117-119 say it compares "against the stack we switched away from".
* *library*, `SystemKept`. alt_sbrk.c:107 compares the limit with the end of the heap
  after rounding (76). After an unaligned allocation the limit stays behind for good and an
  overlap goes unreported, though 103-104 say that limits differ only if another
  stack is used. `HeapMeetsNoStack` holds until then, not later.
* *library*, `LogKept`. alt_log_printf.c:469-472 count up before they compare with `>`: the
  heartbeat comes every interval and one tick, as `HeartbeatPeriod` has it (proved). Lines
  465-466 say every interval; alt_log_printf.h:309-310 say every second.
* *library*, `CallsRight`. alt_busy_sleep.c:129 has `ALT_CPU_FREQ/(cycles_per_loop * 1000000)`
  passes a microsecond, 5 for this 50 MHz processor, of 9 cycles each: 45 cycles of 50. A delay
  is a tenth too short, though lines 34-40 call it calibrated. `SleepsNearly`
  (proved) has the difference exactly.

### Remarks

Met while modelling; each is in the model as the code has it.

*JTAG UART driver.*
init.c:158-159 takes data left over after the receive loop to mean a full buffer;
a character that comes between the two clocks of the last data register read ends the loop
too, and receive interrupts are turned off over a ring that is not full, without harm
(`RxArmed`). write.c:214, -EIO for "Host not connected", is also what a blocking
write of nothing returns. `host_inactive` and `timeout` are not volatile
(read.c:168); the BSP is built without optimisation.

*Descriptors and calls.*
alt_fd_lock.c:45-47 says closing a descriptor releases its lock; a standard stream
keeps it (alt_release_fd.c:46). No call checks a descriptor against the size of
the pool, and one that is closed has no device: its pointer is
dereferenced. fstat returns the driver's negative result as it is, without errno;
isatty then compares an uninitialised st_mode. ioctl returns the negative code
itself. stat uses and closes what open returned without looking at it.
The direct versions of read and write pass negative codes on without errno;
alt_putchar.c:52 tests for -1 alone; alt_getchar returns a signed char, so that
0xFF looks like the end. alt_dma_rxchan_depth dereferences a channel that was not opened.

*Alarms and time.*
A delay of 2^32 - 1 ticks is taken for none (alt_alarm_start.c:82-96). A tick rate
that does not divide 10^6 makes gettimeofday run backwards at each second. The time
jumps back when the tick counter rolls over. settimeofday dereferences a
time zone that may be NULL. The busy-wait asm modifies an operand that is declared an
input; a remainder of zero counts through 2^32 passes (alt_busy_sleep.c:112).

*Exceptions.*
alt_exception_muldiv.S:154 gives an instruction with sp as an operand the adjusted
stack pointer. The comment at alt_exception_entry.S:224 contradicts the branch at 227.

*Heap, stack, profiler.*
sbrk has no lower bound for negative increments (alt_sbrk.c:88). mcount_allocate
ignores that sbrk failed (alt_gmon.c:139), and the sampler tests its result against 0 and not -1 (229). A text that does not fill its last bucket is
sampled one bucket behind the histogram (226, 263).

*Debug log, caches, start-up.*
The number of characters the log reports in the driver's ring can be negative. Memory from
alt_uncached_malloc need not be aligned to lines, and alt_write_flash leaves the flush to its driver.
The boot log reads its flag in .rwdata before alt_load copies it; alt_load copies nothing for a
section linked in place. `_do_dtors` runs in the order of `_do_ctors`. exit flushes
stdio after stdout was closed (alt_main.c:155-156), which works because descriptors 0 to 2
stay open.

*Application.*
Software/lights.c, an older copy, uses addresses that this system routes to memory. The
LEDs' pointer is not volatile.

## 7. Not modelled, and why

* The uC/OS-II branches of the driver (semaphores, event flags): this BSP has no
  RTOS, and HAL/inc/os/alt_sem.h makes them empty. With one, several tasks could be inside
  read and write; here there is one thread. For the same reason the locks of malloc and
  of the environment are empty.
* `ALTERA_AVALON_JTAG_UART_IGNORE_FIFO_FULL_ERROR` (write.c:203-211): off by
  default and off in this BSP.
* The vector table of the custom interrupt instruction and the external interrupt
  controller: compiled out.
* The cause passed to a registered exception handler, the registers saved around it, and
  the decoding of instruction fields: data that no property distinguishes.
* Alignment of the alarm to seconds: the callback may run at any time. This BSP has no
  system clock and its processor no caches: `Alarms`, `TimeOfDay` and `Caches` are
  what the library does on a system that has them.
* The JTAG link itself, the megafunctions behind the FIFOs, and the simulation
  stubs under `translate_off`.
* In the interconnect, the agents, translators and response path, which repack signals for one
  transfer at a time; of flash, alt_write_flash, alt_read_flash and the opening of
  a device, which only call a driver; alt_flash's list of devices, which is one more list
  under the same code.
* The format of the profiler's output, wording of the log, %X of the log's printf.
* Processor netlist, debug module, on-chip memory and reset synchronisers:
  generated or vendor IP; the software models assume their documented behaviour
  (one access at a time, interrupts between instructions). A reset at any moment
  is in `Startup`.
* Generated trees: Quartus and Eclipse output, simulation netlists.
