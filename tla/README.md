# Verification of the ZX-Evolution TS-Configuration

The ZX-Evolution (PentEvo) is a Z80 home computer.  On its board are a real
Z80, an FPGA that carries the TS-Configuration (`pentevo/fpga/current`), an
AVR microcontroller (`pentevo/avr/current`) that reads the keyboard, the mouse,
the clock and the serial port, and an optional ESP32 network card
(`pentevo/esp32`).  This project models the parts of that system whose
correctness depends on more than one actor, or on counters at their limits,
checks the models with TLC and proves some results with TLAPS.

All source paths below are relative to `pentevo/`.

## 1. Inventory

### 1.1 Components, their state and their operations

| Component | State | Operations | Talks to |
|---|---|---|---|
| Wait ports: `z80/zwait.v`, `common/slavespi.v`, wait registers of `z80/zports.v` | three wait flops, `wait_addr`, `wait_write`, `wait_reg`, SPI register number | access begins (Z80, DMA), status fetch, byte exchange, end of transfer | Z80 (WAIT), AVR (SPI, INT6), DMA |
| AVR main loop: `main.c`, `interrupts.c` | `wait_irq_flag`, `flags_register` | nine tasks in a ring, `waittask` after each; INT4..7, two timers | everything on the AVR |
| DRAM arbiter: `dram/arbiter.v` | `blk_rem`, `vid_rem`, `stall`, `curr_cycle` | one decision per memory cycle | video, Z80 (`zmem.v`), TM/TS, DMA |
| Z80 memory: `z80/zmem.v`, `z80/zclock.v` | pending request, stall flops, 512-byte cache, DOS/VDOS latches | read, write, fetch, invalidate | arbiter, Z80 clock |
| DMA: `common/dma.v` | device, phase, byte select, block and burst counters, addresses | launch, read, write, end interrupt | arbiter, SPI, IDE, wait ports, palette, sprites |
| Interrupts: `z80/zint.v` | four pending sources, latched vector, wait-port counter | source edge, mask write, acknowledge, expiry | Z80, video, DMA, AVR |
| SPI master `common/spi.v`, copper `common/copper.v`, video, sound, disk | shift counter; program counter; raster counters | | arbiter, DMA, ports |
| Keyboard path: `zx.c`, `kbmap.c`, `slavespi.v`, `z80/zkbdmus.v` | 256-byte event FIFO, counters per ZX key, shift pause, 40-bit matrix | scan code to events, event to matrix, matrix to FPGA, NMI | PS/2, FPGA |
| Serial path: `rs232.c`, `rs232_asm.S` | two receive and two transmit rings, UART image registers, ZiFi timeout and interrupt masks | Z80 register read/write, USART interrupts, poll task | wait ports, USARTs, `zint.v` |
| PS/2: `ps2.c`, INT4/INT5/TIMER2 | bit counters, timeouts, command state | bit interrupt, timeout, byte task, blocking send | keyboard, mouse |
| Clock: `rtc.c`, INT7 | `gluk_regs`, extension type | second tick, register read/write, reload from I2C | wait ports |
| Power: `atx.c` | counters of the button, flags | power on/off, soft reset, hard reset | main loop, FPGA |
| Flash files: `tsspiffs.c`, file functions of `setup.c` | chunks with header, link and data in flash; header map, directory and counts in RAM | copy, delete, format, check, repair, retest, mount | SD card, flash chip, user |
| Flash service: `spiflash.c` | command and address registers | erase, write, read, status | wait ports, flash chip |
| ESP32 slave: `spi_slave.cpp`, `mem_obj.cpp` | command state, object table | register/data transactions, object create/write/delete | Z80 over SPI |

### 1.2 What is hard here, and what makes each part correct

* **Wait ports.**  Three parties, a flag shared between an interrupt and a
  loop, an edge-triggered interrupt, one release line for two waiting masters,
  and resets that clear the FPGA's half of the handshake only.  Correct: no
  access waits for ever; a waiting Z80 is released by its own transfer; a read
  is executed once and a write once, on the register the access names; the DMA
  gets both bytes of each word from its device.
* **DRAM arbiter.**  Counters that start differently depending on who gets the
  first cycle.  Correct: the video gets exactly its cycles in each block; the
  Z80's wait is bounded; `cpu_next` tells the truth; nobody gets a cycle he did
  not ask for.
* **Z80 memory.**  Each access makes one DRAM cycle, the clock stops until the
  data are latched, the cache never returns what the Z80 has overwritten.
* **DMA.**  Each launch moves exactly (bursts x length) words between the
  addresses the alignment bits define, and gives one interrupt.
* **Interrupts.**  The vector belongs to the source that is acknowledged, no
  enabled source is lost except by mask or expiry, priorities hold.
* **Keyboard.**  Every press is followed by its release in the matrix; the FIFO
  keeps order and never mistakes full for empty; the shift keys change apart
  from other keys; the matrix in the FPGA is one the AVR held at one time.
* **Serial.**  Bytes are neither lost nor invented between USART interrupts and
  the Z80; status bits agree with the rings; a full ring refuses.
* **PS/2.**  A broken frame times out and the next one is read from its start; a
  blocking command ends.
* **Clock.**  A tick in the interrupt and a register access in the loop do not
  destroy each other; dates roll over.
* **Flash files.**  There is no journal: order of writes, and a repair that
  works from a header map its own erases bypass, have to do.  Correct: a file is
  whole or is no file, whatever is cut short; nothing done to one file touches
  another; a repair gives back all that was lost and takes nothing else; a copy
  that was found to have room finds it.

`PROJECT.json` lists each hazard at its line with the properties that cover it.

## 2. Modules

| Module | Role |
|---|---|
| `PortService` | abstract: what a wait port promises a Z80 program |
| `WaitPort`, `MCWaitPort` | the handshake between Z80, DMA, FPGA and AVR; implements `PortService` |
| `WaitPortProofs` | TLAPS proofs about `WaitPort` |
| `VideoShare` | abstract: how memory cycles are shared |
| `Arbiter` | `arbiter.v`; implements `VideoShare` |
| `Dma` | `dma.v`: transfers of words between memory and the devices |
| `Dram`, `MCDram` | `Dma` and `Arbiter`, checked in one run |
| `DramProofs` | TLAPS proofs about `Dma` and `Arbiter` |
| `ZxKeys`, `MCZxKeys` | `zx.c` from a key of the keyboard to the matrix in the FPGA |
| `ZxKeysProofs` | TLAPS proofs about `ZxKeys` |
| `ByteFifo` | abstract: what the serial buffers promise |
| `UartRx` | receive interrupt, ring and register reads; implements `ByteFifo` |
| `UartTx` | transmit interrupt, ring and register writes; implements `ByteFifo` |
| `ZifiInt` | threshold, timeout and interrupt of a ZiFi port |
| `Serial`, `MCSerial` | the three parts of the serial ports, checked in one run |
| `UartProofs` | TLAPS proofs about `UartRx` and, as instances, `UartTx` and `ZifiInt` |
| `Zint`, `MCZint` | `zint.v` and the Z80 it interrupts |
| `ZintProofs` | TLAPS proofs about `Zint` |
| `Zmem`, `MCZmem` | `zmem.v` and `zclock.v`: the Z80's accesses, its clock and the cache |
| `ZmemProofs` | TLAPS proofs about `Zmem` |
| `Ps2Link` | one PS/2 port with its interrupt and timer |
| `Ps2Keyboard`, `Ps2Mouse` | the keyboard's commands and the mouse's task on such a port |
| `Ps2Port`, `MCPs2Port` | the composition: the link with one of the two |
| `Ps2Proofs` | TLAPS proofs about `Ps2Port` |
| `FileStore` | abstract: a set of whole files |
| `FlashFiles`, `MCFlashFiles` | the file system on the serial flash and the set-up program's use of it; implements `FileStore` |
| `FlashProofs` | TLAPS proofs about `FlashFiles` |

`WaitPort` and `Dma` share a component: `WaitPort` has the bytes of a DMA from a
wait port with the protocol that brings them, `Dma` has all devices, with a byte
as one strobe.  `ZifiInt` takes from `UartRx` that the ring is a queue, and keeps
its length only.  `Zmem` takes from `Arbiter` that `cpu_next` holds its word for a
cycle (`CpuNextKept`) and the video's share of cycles as a bound; its `cpu_req` is
an input of `Arbiter`.  `Ps2Keyboard` ends where a byte is parsed, `ZxKeys` begins
there.  `Ps2Keyboard` and `Ps2Mouse` extend `Ps2Link`, since both ports have the
same interrupt and timer; `Ps2Port` instantiates the two over one link, of which a
behaviour has either.  `Serial` and `Dram` put parts into one run that share no
variable: each part has all that the others may do to it in its own actions (a DMA
cycle whenever one is asked for, requests of every pattern, time that passes), so a
behaviour moves one part and the others stand still.  They add no behaviour to the
parts and no property.

### 2.1 WaitPort

One action is one event another party can observe.

* *Z80*: `SelectGlu` (OUT #DFF7), `GluAccess` (#BFF7), `ComAccess` (#xxEF).
  `stCpu` stands for the two CPU flops of `zwait.v`, `waitAddr` and `waitWrite`
  for the registers of `zports.v`.
* *DMA*: `DmaLaunch`, `DmaWrite` (the word goes to memory and the next request
  rises), and the byte it takes at the end of a service.
* *Interrupt line*: the edge when an access pulls a line that was high,
  `seenHigh` for the AVR's sampling of the pin, `Sample`, `intf6`, `Int6`.
* *AVR*: `WaitTask`, then `zx_wait_task` as `FetchStatus`, `FetchAddr`,
  `Prepare`, `Exchange` and, for writes, `ApplyWrite`.
* *Resets*: `SoftReset` (`atx_power_task`), `HardReset`, `ClearInts` and
  `ZxInit` (`main` from its `start` label).

The registers behind the ports are abstract: a read of a serial register takes
the next item (`AfterRead`), so an access that is executed twice or never shows.
`cut` remembers that a reset has dropped an access and left the AVR its event.

Two constants select what the program does: `Shared` (it uses wait ports while
its own DMA does) and `AccessAt` (the AVR's places at which it may begin an
access).  Without resets and without stray edges an access cannot begin while a
service is under way, because there is a service only when the Z80 or the DMA
waits; `MCNotInService` says that.  The line is high for 36 ns between the two bytes
of a word, shorter than the AVR's sampling period, so INT6 may or may not see the
second request: `Exchange` has both (`Pulse`), and `dma.missed` remembers a request
that was not seen until a service ends, which can be that of an older event only.

### 2.2 Arbiter

One step is one `c3`.  The input wires are one record `in`, chosen freely after
every step; the wires of the code are operators with the code's names.  `need`,
`given` and `waited` are history variables and guard nothing.  The specification is
`ArbiterSpec`, its parts `ArbiterInit` and so on, since its proofs share a module
with those of `Dma`.

### 2.3 Dma

One step is one strobe that `dma.v` reacts to: `MemRead` and `MemWrite` for
`dram_next`, `ByteIn`, `ByteOut`, `WordIn`, `WordOut` for the devices, `Interrupt`
for `int_start`.  A word is its origin, `<<"mem", address>>` or `<<"dev", n>>`, so
that a word that is lost, doubled, swapped or taken from another place shows.
`Program`, `Launch`, `OwnSpi`, `OwnIde` and `Reset` are what the rest of the
machine does; the program leaves the registers and the device alone while its
transfer runs.  `moved`, `taken`, `job` are history variables.  What the blitter
computes from its two words and the FDD ripper are left out.

### 2.4 ZxKeys

`Press` and `Release` are `to_zx` with `update_keys` for a physical key and its
one or two ZX codes; `Begin`, `ProcessKey`, `ProcessClear`, `EndDrain`,
`SendColumn` and `Strobe` are the steps of `zx_task`; `Tick` is the timer that
counts the pause around shift keys down; `Ps2Error` is `zx_clr_kb` called by a
timeout, `HardReset` the new configuration of the FPGA with `zx_init`.  `cols` is
the matrix of `zkbdmus.v`.  The timer (3 ms) does not tick inside the loop that
empties the FIFO (microseconds).  Keys come too slowly to fill the FIFO: a press
needs room for its events.  `cleared` remembers that something has cleared the
counters under a key in the FIFO.

### 2.5 UartRx, UartTx, ZifiInt

The main loop's C statements are split exactly where an interrupt can change
what they use: the two bytes of the 16-bit `rs_rx_tl` (`StoreFirst`, either half,
and `StoreRest`), the read and the write of LSR, the read and the write of
`UCSR1B`.  The interrupts are single actions, as they run with interrupts
disabled.  A byte takes the USART longer than the split statements take the main
loop, so at most one receive interrupt, and at most two of the transmitter, come
within one; this is in the guards.  `UartRx` implements `ByteFifo` with bytes
refused from `Half - 2` waiting ones on, `UartTx` with refusal at a full ring
only.  `ZifiInt` has `rs232_task` for one port, with bytes, milliseconds, the
program's commands and the Z80's acknowledge between any two of its steps.

### 2.6 FlashFiles

One step is one write or erase of the flash, so that `PowerLoss` comes between
any two.  A chunk has the fields of `TSF_CHUNK` and `TSF_HDR` and its data as a
sequence of units, `<<name, i>>` for unit i of a file.  `map` is the header map
of `setup.c`, from which headers are read (`Is`) while names, sizes and links that
are read alone come from flash; `Write`, `WriteMagic` and `EraseMapped` keep it up
to date, the erases of format and repair do not (`Erase`).  `job` is the operation
and its local variables: `PutTake` to `PutEnd` for a copy from SD card, with
`SdError` and `PutFail`; `Remove...`, `Format...`, `Fix...`, `Retest...`; `Cancel` is
Esc.  `tsf_delete` reads the links of neighbouring chunks ahead and then erases these
in the order of the chain; nothing writes in between, so `RemoveErase` takes one
chunk and reads its link as it erases it.  `Linked` is what a scan reaches from a
head: the least set of chunks that the links to bodies do not leave.  A check without repair writes nothing
and is left out.

`WholeFiles` are what `tsf_open` and `tsf_read` can read to the end; the refinement
maps them, with their data, to the files of `FileStore`.  `cut` remembers that a
format was cut short; with `WorkAfterCut = FALSE` the user then completes a format
or a repair before working with files (section 5 has what happens otherwise).

Assumed of the chip: a write is done or not done (a write of more than one byte
is one step), an erase that loses power may leave any content but no magic
number, there are no bad sectors, and the flash has at most 16 MB.  All names have
the same length, so `HeadRoom` is one number.

### 2.7 Zint

One step is one posedge of the FPGA's clock: `Clock` without and `Z80Clock` with an
edge of the Z80's, `WaitState` with an edge that finds WAIT.  Each may bring any
set of events.  `Latch`, `Select` and `Count` are the always blocks of `zint.v`;
`pending` is the set of its four flip-flops.  The Z80 has what the properties
need: it samples ~INT in the last clock of an instruction (`Sample`, not after
`EiDi`), acknowledges `AckDelay` clocks later, and may write the mask or enter or
leave VDOS once in an instruction (`PortAccess`).  `owed`, `hidden` and `watch` are
history variables: events the Z80 has not had the vector of; those of them that came
from the frame or the line in VDOS, of which comment and code disagree (`Blocked`,
section 5); and whether interrupts have been on since the frame's event.

### 2.8 Ps2Link, Ps2Keyboard, Ps2Mouse, Ps2Port

`Int4` is the bit interrupt, `Tick` the timer's; the steps of `ps2keyboard_task`
are `Begin`, `Command`, `Pull`, `Check` and `Release`, between any two of which
interrupts may come, as they may in the code.  `SendCmd` is
`ps2keyboard_send_cmd`.  The device starts, goes on, and gives way when CLK is
pulled (`DevStart`, `DevSend`, `DevRequest`, `DevAbort`), and `Fault` lets it miss
an interrupt's edge, damage a frame or vanish.  The shift register is the byte
its bits come from, or `"mixed"` when they come from two frames, and such a frame
decodes to anything (`Decoded`).  Times are ratios: a device at work is faster
than the timeout, at most `PauseBits` edges fit in the 100 us pause, and the first
interrupt of a command lasts longer than a device takes to give up.  `Release2` takes
`ps2.c:143-150`, from the release of the data line to that of CLK, as one step.  The
AVR holds CLK in these few instructions, so the device gives no edge, and one that
is pending is served before them or dropped; after a timeout, when CLK is not held, an edge
that comes within them is in the model before or after them all, and what the
interrupt does between the change of the pin and that of the flag is not covered.

`ps2mouse_task` is `MouseCheck` with one disjunct for each way out of it;
`WaitStart`, `WaitOn` and `WaitOver` are its pause of 200 us before a byte, after
which it sends without a look at the port, and `Delayed` is the end of its 500 ms.
`Handled` is the switch on the current command: `Movement` takes packets, the
others answers, both by `resp_count`.  `Reinit` is `ps2mouse_schedule_reinit`,
`SetResolution` the keypad's keys, which count only while both buttons are
pressed.  The mouse obeys (`Obey`), is of either type, and may be streaming when
the AVR starts, as after a reset of the AVR alone.  Its user moves it at any
moment `MaxHaste` times (`Hurry`), and without end when all is quiet (`Move`).
A movement's byte is told from an acknowledge, which a movement by -6 is not.
`inc`, `dec` and default resolution are one, as the RTC's cell that holds it is
data.

### 2.9 Zmem

One step is one posedge of clk.  The Z80 is its machine cycles by edges of its
clock (`Z80Step`), with the pins it drives in each as operators of `cyc` and `t`;
`Requests`, `CacheStep` and `ClockStep` are the always blocks of `zmem.v` and
`zclock.v`, `DramStep` the arbiter's and the DRAM controller's part.  A word has one
datum, which a write inverts, so a stale word always shows.  `want` is what the
program has made of the memory.

Left out: ROM and write-protected windows (no request is made), the two bytes of a
word, changes of the mapping between the edges of an access (see section 5 for the
one there is), writes of the DMA, which bypass the cache by design, and the stall
of the IDE.

## 3. Runs

| Run | Checks | Bounds |
|---|---|---|
| `wait_port_safe` | `Inv` (`TypeOK`, `NoLostWakeup`), `AnsweredByOwnService`, `DmaBytesOwn` | one address of each form, DMA of up to two words from each device value, one reset of either kind |
| `wait_port_live` | `ImplementsPortService`, `Z80Released`, `DmaEnds` | one register of each kind, two data values, two words, one reset, any number of missed edges |
| `dram` | of `Dma`: `Inv` (`TypeOK`, `TransferExact`), `WordsInPlace`, `TransferEnds`; of `Arbiter`: `ArbiterInv` (`ArbiterTypes`, `VideoServed`), `CpuWaitBounded`, `CpuNextKept`, `DevicesInOrder`, `ImplementsVideoShare` | two launches, one or three words in one or two bursts, lines of two and four words in sixteen, all devices and directions; seven bandwidths: all modes of `video_mode.v`, all-video blocks, the largest code |
| `zx_keys` | `Inv` (`TypeOK`, `OnceUntilCleared`, `MatrixFollowsMap`), `ShiftShownFirst`, `HeldKeySeen` | shift, cursor left (shift and 5), 5, Esc; FIFO of four; pause of one tick; one timeout, one hard reset |
| `serial` | of `UartRx`: `Inv` (`TypeOK`, `IfrKept`), `ImplementsQueue`; of `UartTx`: `KickKept` (its `Inv`), `SendQueue` (its `ImplementsQueue`), `RoomIsSeen`; of `ZifiInt`: `ZifiTypeOK`, `OncePerEnable`, `TimeoutReported`, `ReportInterrupts` | receive ring of six, transmit ring of four, two byte values; ZiFi buffer of three, threshold and timeout of two |
| `flash_files` | `Inv` (`TypeOK`, `CachesTrue`, `SpaceSuffices`), `FixReclaims`, `ImplementsFileStore` | four chunks, two names, files of two and three chunks, erases of one, two and four chunks; any number of operations and power losses |
| `zint` | `Inv` (`TypeOK`, `PendingIsOwed`), `FrameTaken` | frame interrupt of six clocks, instructions of four, acknowledge after two; all sets of events in each clock, two masks besides the one of a reset |
| `ps2_port` | `Inv` (`TypeOK`, `ByteKept`, `PresentStreams`), `ArgumentExpected`, `CommandEnds`, `InStep`, `MouseReady`, `LineFreed` | frames of five bits, timeout of two; two keys, each kind of fault once, any number of commands; for the mouse each kind of command in its initialisation, one fault, one change of resolution, one movement at a bad moment and any number at good ones |
| `zmem` | `Inv` (`TypeOK`, `ReadsTrue`), `WaitTable`, `ClockRuns` | two words in one line of the cache and one in another, all three speeds, up to three cycles in a row for the video, accesses without end |

Three runs show where a comment in the source says what the code does not do; TLC
finds each property violated.  They are findings, and section 5 explains them.

| Run | Property | The comment | The counterexample |
|---|---|---|---|
| `zint_vdos` | `BlockedInVdos` | `zint.v:29`: frame and line interrupts in VDOS are not generated and lost | one comes in VDOS, and its flip-flop is set |
| `zmem_reads` | `ReadWaitTable` | `zmem.v:162`: a memory read at 14 MHz waits two to five clocks | a read waits two clocks more |
| `zx_esc` | `OnceWithEsc` | `zx.c:50`: every key is pressed and released only once | Esc, a key before `zx_task` takes CLRKYS: the key's counter is gone |

**Why the bounds are enough.**  A wait-port access involves one register and one
byte; two values tell a stale byte from a fresh one, and the addresses are one
of each class that `StatusAddr` distinguishes.  Two DMA words exercise the gap
between bytes, between words and the end.  One reset reaches every combination
of leftovers (`flag`, `intf6`), since a second one finds the same states.  The
arbiter's state is finite and complete; only the set of bandwidths is a
selection, on which the proofs do not depend (of the shares that leave the Z80 one
cycle the largest block stands for all).  Transfers of one and three words
in one and two bursts reach every combination of the two counters' borrows,
start addresses stand before the end of a line and of memory, and the second
launch finds whatever the first, a reset within it, or the program's own
accesses have left.  The four keys are every kind of row of `kbmap.c` that
`to_zx` treats apart: one code, two codes, a code given by two keys, a shift,
CLRKYS; four places let the FIFO wrap in every state of the filter.  A ring of
six (two halves of three) has the torn pointers of the ring of 512: equal high
bytes, different high bytes, and a head on either side.  Four chunks hold two
files of two chunks, or one of three with one chunk free, so chunks of deleted,
lost and new files mix in every order around the ring; a chain of three has a
first, a middle and a last link to break.  The number of power losses has no
bound, so a repair meets what several failures have left.

`Zint`'s 32, 23, 14, 13 and 4 clocks (duration, longest instruction, its part
before and after a port access, acknowledge) become 6, 4, 2, 2 and 2, which keep
the two inequalities of `DelayAssumption`, with equality, so that the smallest
error shows; the proofs hold for all values.  Five bits have a first, inner and a
last one in both directions, and the two of `PauseBits` let a frame begin and go
on before CLK is pulled.  A second fault of a kind meets the states the first
one does, since each ends in the same reset of the keyboard.  The mouse's
`resp_count` knows two parities before its first reset, so packets of three and of
four bytes, of which one comes at any moment, reach every remainder.  In `Zmem` two words that share a line replace each
other, and a third keeps its own.  `MaxBusy = 3` is more than the board has: the video keeps
what is left of a block for itself when the Z80 has had all its own cycles of it;
the mode that takes most needs four of eight, and at one access in a cycle and a
half, its highest rate, the Z80 leaves it two of them to the end.  With four in a row,
see section 5.

**Fairness.**  `WaitPort`: the AVR's next step (the main loop never blocks), the
interrupt (the global mask is open in the main loop), the sampling of the pin,
the arbiter that serves the DMA; all weak.  Nothing is assumed of the program.
`Dram`: weak fairness of the DMA's strobes, since arbiter and devices answer each
request, and of `Interrupt`, which is the clock.  `ZxKeys`: weak fairness of
`zx_task`, strong fairness of the timer, which ticks whatever the loop does but
is not enabled within the draining loop.  `Serial`: weak fairness of the
shift register and of the main loop, strong fairness of the transmit interrupt, whose
enable bit the main loop switches off for moments; weak fairness of the ZiFi
port's task and of the millisecond.  `Ps2Port`: weak fairness of
the interrupt, the timer, the task, and of a device that is there; strong
fairness of the ends of the mouse's pauses, which the task sees only when it looks
(timer 1 and the main loop have no common period), and of a user who moves the
mouse now and then; nothing is assumed of faults, commands and hasty movements.  `Zmem`: weak fairness of the clock, and the bound
on the video's cycles, of which `CpuWaitIsBounded` of `Arbiter` is the general form.  The
other runs need none.

**Deadlock** is not checked in three runs.  In the two of the wait ports a DMA waits
for ever when its edge is missed, and a program that leaves the ports alone while
its DMA uses them does no more; `DmaEnds` says that a DMA stops in no other way.  In
`dram` nothing is left to do after the last launch the bound allows.

## 4. Proofs

`DramProofs` of `Dma`, for every size of memory and line, all lengths and any number of
launches: `TypeCorrect`, whose core is `NextAddrInRange` (an aligned address
stays in a line that divides memory), and `TransfersAreExact`.  `TransferExact` is
not inductive, as it says nothing of the counters.  `Balance` does: the words
moved and those the two counters still stand for, `n_ctr * (b_len + 1) + b_ctr +
1`, are the whole transfer.  A launch makes it, a counted word moves one unit
from one side to the other, also across the borrow between the counters, and
when `n_ctr` borrows its ninth bit the counters stand for nothing.

`WordsKeepTheirPlace` (`WordsInPlace`) says where each word goes.  `WordInv`
adds to `IInv`, for each point of a transfer, the address as a function of
the words moved (`AtPlace`: start of the line, plus the burst's offset, wrapped in
the line), what the two word registers hold (`Held`), and how far each side is
(`Progress`).  The lemmas about lines (`DivMod`, `DivModNext`, ...) turn the adders'
cut carries into one quotient and one remainder.

`DramProofs` of `Arbiter`, for every set of legal bandwidths: `ArbiterTypeCorrect`,
`VideoIsServed`, `CpuNextIsKept`, `DevicesAreInOrder`, `ArbiterSharesVideo`, and, if no
code exceeds `CpuBound`, `CpuWaitIsBounded` (cycles of all-video blocks apart, in
which the Z80 gets nothing by design).  `VideoServed` is not inductive: it speaks
only of the end of a block.  The invariant `ArbiterIInv` adds `Account` (what a block has
given plus what its counters reserve is what the video needs) and `Fits` (the
reserve fits in what is left of the block), from which `video_only` comes in
time.  `CpuWaitIsBounded` needs `WaitInv`: while the Z80 waits inside a block,
everything left of it is reserved.

`ZintProofs`, for all delays that satisfy `DelayAssumption`: `NothingLost` (`Inv`) and
`FrameIsTaken` (`FrameTaken`).  The first rests on `FirstIsSelected`: the four
conditions by which the flip-flops are cleared (`zint.v:140-179`) name the same
source as the priority chain that selects the vector, although they are written
apart.  For the second, `Bound` adds to `Inv` that a frame interrupt which the Z80
is bound to take has `Room`: clocks gone and clocks to come fit in its duration,
where "to come" is counted to the sample, to the acknowledge or, in VDOS, from the
access that leaves it.

`WaitPortProofs`, for all addresses, values, words and resets: `TypeCorrect`;
`LineIsServed`, but for a request of the DMA that the AVR has missed; and for a program
that leaves wait ports alone while its DMA uses them (`~Shared`) `WakeupsAreKept`
(`Inv`), `DmaBytesAreOwn` (`DmaBytesOwn`), `ServiceIsOwn` (`AnsweredByOwnService`) and
`Refinement` of `PortService`.  The last two need `Quiet` as well: the Z80 begins no
access while the AVR serves another, which without resets and stray edges cannot
happen (section 2.1); `ServiceIsOwnUncut` is what holds without `Quiet`, until a
reset has cut an access.  The run checks `AnsweredByOwnService` with the places
where `Quiet` holds, so it shows the same.  `NoLostWakeup` is not inductive; `IInv`
adds that a held Z80 or DMA is alone (`Alone`), that it has one event and no more
(`OneEvent`), and that the service under way, with its address and direction as
the AVR has them at each of its steps, is his (`CpuService`, `DmaService`).

`UartProofs`, for every size of rings: `IfrIsKept` (`Inv` of `UartRx`), `Refinement` of
`ByteFifo`; by instance, for `UartTx`, `KickIsNotLost` (`Inv`) and `TxRefinement`, and for
`ZifiInt` `ZifiOncePerEnable`.  The invariants say, for each place at which the main
loop can be interrupted, how its copies of the indices and of LSR relate to what
the interrupt has made of them since (`CopyKept`, `StoreKept`; `TxRoom` for the slot
that is written before it is counted).  The remainders of the indices are turned
into sums once; the rest is about sequences.

`ZxKeysProofs`, for every key map, pause and number of timeouts and resets:
`FilterAndMatrix` (`Inv`) and `ShiftIsFirst` (`ShiftShownFirst`).  `MatrixFollowsMap` speaks
of an idle `zx_task`; `ColumnsShown` adds which columns it has sent in a transfer, and
`Draining` that what it takes from the FIFO starts the pause and a transfer before
the next key.  `OnceUntilCleared` needs `NoClear`: until a clearing the FIFO has none.

`Ps2Proofs`, for every length of a frame the counter can count, pauses that are
shorter than a frame, and every initialisation sequence: `BytesAreKept` (`Inv`).  The
AVR's count and the device's bits are the two ends of one frame; `LinkInv` says so
for each phase (count plus bits given is a frame, but for an edge whose interrupt
is still to come), with the task's places in it.  It holds for either port;
`KeyboardInv` and `MouseInv` add that no command is loaded over another (`Asked`,
`InOrder`) and, for the mouse, that the acknowledge it waits for is of its own command
(`Answers`), so that only a mouse that streams is shown to the Z80.
`ArgumentsAreExpected` (`ArgumentExpected`) and `PacketsAreInStep` (`InStep`) need an
account of what the device still owes, `ArgsInv`: while a byte is on its way there is
no acknowledge before its own (`OneAnswer`), so an acknowledge always ends the stage
that awaits it (`StageAnswered`, `MouseAnswered`); no more comes than the answer has
bytes (`InitSilent`), and once packets may be taken, what follows `resp_count` bytes
is the rest of one packet (`InPackets`).  They use `OrderAssumption`: the sequence
begins with a reset, has an argument only after its command, and ends with the
enable if it has one (`ps2.c:404-416`).

`ZmemProofs`, for all addresses, pages and sets of speeds: `ReadsAreTrue` (`Inv`) and
`FetchesWait` (`WaitTable`), if nothing can be left over (`NothingLeftOver`): the video
has at most three cycles in a row, or the program stays on one side of 14 MHz.
With four the first of them is false (section 5, "Change of speed").  The
invariant has three layers: where the clock's edges can be at each speed; how far
the request of the present access has come at each edge, with the age of a
request that was left over; and what the data are: the DRAM is what the program
wrote but for the word under way, each valid line is true, and the line of a
written word goes before it is counted on.

`FlashProofs`, for every number of chunks, every `HeadRoom` and `BodyRoom`, all names,
sizes and erase sizes, if files are left alone while a format is cut short
(`WorkAfterCut = FALSE`, as in the run): `CachesAndRoom` (`Inv`), `RepairReclaims`
(`FixReclaims`) and `FilesAreAStore` (`ImplementsFileStore`).  Four things make the
first two more than book-keeping.  A delete counts the chunks it frees along links, so each
has to be another chunk than those before: `Live` says that there is a set of
chunks, with all heads in it, in which every link leads to a body of the set and no
two links to the same.  The set is not a function of the state (bodies without a
head may still link), so `IInv` begins with "there is a set"; each step names the
next one.  The room of a copy is a linear inequality over both payload sizes and the
free count (`PutFile`), which `RequiredIs` gets from the rounded quotient.  And a repair
decides by a map that its own erases have made stale: `FixMap`, `FixFiles` and `FixAt`
say what is still true of it, block by block, so that a file behind the current
block is not erased by mistake and none that was gone by is broken.  Last, a file
is whole only if its chunks hold as much as its size says: `Files` gives each live
chunk a place (`Spots`: its head, how many links and how many units come before it),
again as "there is", and `PutTail` says that what a copy has reached is the only end
of its file.  When a repair is done every live chunk is of a closed file; its
chunks make a row along the links (`FileRow`, by least counterexamples and a
count), which is the one `Chain` finds and whose units `Room` adds up (`FileWhole`).
`Inductive` is the invariant itself.

`FilesAreAStore` is the refinement: `FlashFiles` implements `FileStore` under the
mapping that `FlashFiles` defines, so a file is there with all its data when its copy
has ended, and another goes only when it is deleted or the flash formatted.  It needs
`Extra` besides `IInv`: the heads of closed files have names, and no two the same
(`NamesOnce`); the head of a copy is the only one of its name and not closed yet
(`PutHead`); what was copied is, unit by unit and in order, in the row of chunks
from that head to the one linked last (`PutRow`); a deletion begins with the head of
the name it was given (`RemoveHead`), and a repair erases from bad heads only (`FixBad`).  For each
action there is a lemma that it keeps `Extra` and is a step of the store or leaves
the files and the task as they are (`Done`); `StoreStep` puts them together.  That the
end of a copy adds exactly the file given comes from `PutRow` by way of the row's
units (`CopyTake`, `CopyData`, `CopyLink`, `CopyFile`), and that all else keeps the others from the
sets of live chunks: what is erased or written is not in the row of another file that
can be read.  `NamesAssumption` is used here: a head whose name is not written is no
file's.

Each of these invariants was checked by TLC on an instance before it was proved.

Assumed are only the named assumptions on the constants, which TLC evaluates in
the runs, and the hypotheses named above, which are constants too.  `Quiet` is a
property of where the program may be; why the board has `MaxBusy <= 3`, the first case of `NothingLeftOver`, is said under
the bounds in section 3.

Only model-checked: liveness and ENABLED, which are out of the prover's reach.

## 5. Departures

Behaviour of the code that differs from what one may expect, seen while
modelling.  The models have it as it is; the first three are shown by runs.

* *Interrupts in VDOS.*  `zint.v:29` says that frame and line interrupts that come
  in VDOS are lost; the code keeps them all and hides the output only
  (`zint.v:91`), and stops the frame's counter.  The run `zint_vdos` shows it;
  `PendingIsOwed` does not promise that such events are kept.
* *Wait table.*  `zmem.v:162` gives +2 to +5 for a memory read at 14 MHz; the code waits
  +4 to +7, as the datum is on the bus in c2 (`zmem.v:204`).  The run `zmem_reads` shows
  it; `WaitTable` speaks of fetches, for which code and table agree.
* *Esc.*  CLRKYS clears the filter's counters when it is queued (`zx.c:860`) and
  again when it is processed (`zx.c:560`), and a key pressed in between stays down.
  The run `zx_esc` shows it; `Inv` of `ZxKeys` promises until a clearing only that
  a key is pressed and released once.

* *Shared wait ports.*  The end of any service releases everyone who waits
  (`zwait.v:46`), so a Z80 that uses a wait port while its DMA does is let go by
  the DMA's transfer, without its own data.  With `Shared = TRUE` TLC violates
  `AnsweredByOwnService`; the run has `FALSE`.
* *Data ready.*  A byte that arrives while the last one is read through the
  Kondratyev registers leaves LSR saying that there is none (`rs232.c:567`), until
  the next byte comes; `UartRx` has the bit (`dr`), and no property speaks of it.
* *Register index.*  The number written to #DFF7 is kept in `wait_addr`
  (`zports.v:756`), which an access to the serial ports or a DMA overwrites.
* *Stale service.*  After a reset the AVR serves an access that is gone, and the
  end of that service may release a new one early (`AccessAt = Places`).
* *Full key FIFO.*  `zx_fifo_isfull` (`zx.c:897`) compares an `int` with a byte:
  with the in pointer at 255 and the out pointer at 0 the FIFO is not full, and
  one more event empties it.
* *PS/2 timeout.*  `ps2.c:217` clears the AVR's bitmap and sends nothing, so the
  Z80 sees the old keys until the next change (`MatrixFollowsMap`).
* *Shift pause.*  `zx.c:568` compares with the preceding event only; an event of
  a third key in between takes the pause away.
* *Columns.*  `zkbdmus.v:46` shows each column as it arrives; "strobe" in
  `zx.c:655` only resets the column counter.
* *Torn tail.*  A receive interrupt between the two bytes of `rs_rx_tl`
  (`rs232.c:458`) may find the ring full at 254 of 512 bytes and drop one.
* *Room flag.*  A read of the receive register may write an old "no room" back
  into LSR (`rs232.c:569`) after the last transmit interrupt; it stays until the
  next write.  `RoomIsSeen` holds for programs that write only.
* *Early timeout.*  The timeout is tested before the number of bytes
  (`rs232.c:641`), so a byte that comes in between is reported at once, not after
  the time that `docs/ZiFi/zifi.md:15` gives.
* *Repeated interrupt.*  `rs232.c:659` sends the interrupt in each turn of the
  loop until ISR is read; the handler may start again and find ISR empty
  (`docs/ZiFi/zifi.md:58`).
* *Soft reset counter.*  `atx_counter` has 16 bits, is changed by the timer
  interrupt and read in the loop (`atx.c:58`, `atx.c:74`).
* *DMA.*  An IDE access of the program after an IDE transfer ends a phase and
  moves that transfer's address, so one that is to continue where the last ended
  starts elsewhere; after a reset in the write phase of the last word of an IDE
  transfer it is even counted (`dma.v:149`, left out of `OwnIde`).  A launch while
  a transfer runs takes the old one's last strobe for its own (left out).  The
  first byte of a read SPI transfer is the result of the exchange before it,
  since the strobe marks the start (`spi.v:34`); programs send one byte first.
* *Cut format.*  A format that is stopped after some erases leaves files whose
  chains lead into erased blocks.  A retest (`setup.c:5450`), or a repair stopped
  by Esc, gives such a block a magic number while the chain stays; a later file
  takes it, and deleting the damaged file, which follows its links without a
  look at headers (`tsspiffs.c:511`), erases the other file's block.  With
  `WorkAfterCut = TRUE` TLC shows it.
* *Truncated copy.*  A copy that fails is closed with the size reached and then
  deleted (`setup.c:2663`); power lost in between leaves a shortened file that
  passes every check (`FileStore` has it as `Fail`).
* *Nameless head.*  Power lost between the head's type and its header leaves a
  head of name length 255, which no name finds (`tsspiffs.c:253`); only a repair
  removes it.
* *Large chips.*  `setup.c:988` accepts chips up to 128 MB, while addresses have
  three bytes (`setup.c:999`), so above 16 MB two blocks share a place.
* *Blitter.*  The documentation lets a non-zero destination decide what is
  written; the code takes the source's pixel where that is not zero
  (`dma.v:162`).
* *Late EI.*  A program that switches interrupts on late in a frame interrupt may
  sample it just before it ends; the acknowledge then finds no source and gives
  the vector of the interrupt before (`zint.v:118`).  `FrameTaken` speaks of
  programs that have interrupts on from the event.
* *PS/2 waits.*  While a command waits for its acknowledge with no edge counted
  there is no timeout (`ps2.c:197`), so `ps2keyboard_send_cmd_blocking` (`main.c:398`)
  does not end if the keyboard is pulled out then; `CommandEnds` has the exception.
* *PS/2 edges.*  INT5 waits 250 us with interrupts off (`interrupts.c`), in which
  INT4 may miss an edge.  The frame is then completed by a bit of the next and may
  pass for any byte; `Inv` and `ArgumentExpected` are stated without that.
* *LEDs.*  `ps2keyboard_send_cmd` drops a command while another is under way
  (`ps2.c:277`), so a change of the LEDs in that time is not shown.
* *Mouse, resolution.*  A keypad +, - or * while `ENABLE` waits for its answer makes the
  next byte the resolution without its command (`ps2.c:725`, `ps2.c:762`); the mouse
  refuses it and is initialised anew.  `ArgumentExpected` leaves out behaviours
  with a change of the resolution for it.
* *Mouse, pause.*  A byte that comes in the 200 us before a command is overwritten
  by it, and the command is never sent, as CLK is held already (`ps2.c:520`).
* *Mouse, trap.*  `resp_count` counts bytes nobody asked for (`ps2.c:646`).  At 1
  before the first reset of the mouse, that reset is not sent; the next byte
  starts the initialisation again, the one after it is counted, and so on.  A
  packet of three bytes leads out of this, one of four does not: TLC shows a mouse
  with a wheel, streaming when the AVR starts, that is never initialised
  (`Trapped`, which `MouseReady` excepts).  After noise in the acknowledge of the
  device type a mouse that does not stream is left at 1 as well (seen by reading).
* *Mouse, type.*  A damaged frame decodes to 0, which is a device type
  (`ps2.c:692`): a mouse in wheel mode is then read by threes.  `InStep` speaks of
  mice whose type has been read right.
* *Stops at 14 MHz.*  `stall14_cyc` is `~cpu_next` without a request as well
  (`zmem.v:146`), so the Z80 stops for the video also where it needs no memory.
* *Change of speed.*  The new speed acts at once, not at the refresh that
  `zclock.v:27` names.  `pending_cpu_req` is kept at 3.5 and 7 MHz, where nobody looks
  at it; if the video has four cycles in a row, one left over makes a DRAM cycle
  after OUT (SYSCONF) has gone to 14 MHz, and as the Z80 is not reading it is a write
  of what is on the bus (TLC, `MaxBusy = 4`).
* *Cache below 14 MHz.*  `docs/TSconf/tsconf_en.md:182` says that the cache has no effect
  at 3.5 and 7 MHz; `zmem.v:121` uses hits at every speed.
* *DOS entry.*  `dos_on` (`zmem.v:87`) changes the page of window 0 after the fetch that
  causes it has been accepted, so with RAM in that window at 3.5 or 7 MHz the
  opcode comes from the old page, and the line of the cache gets the new page's
  tag; seen by reading, the model does not switch pages.

## 6. Plan

Done: the wait ports, the arbiter, the DMA, the keyboard path, the serial rings and
the ZiFi interrupt, the interrupt controller, the PS/2 port with keyboard and mouse,
the Z80's memory and clock, and the flash files with the refinement of `FileStore`,
each with its safety proofs.  Next, in this order:

1. The pager and the DOS and VDOS latches in `Zmem`.
2. The clock (`rtc.c`: register access against the tick, the year's roll-over).
3. SPI master (`spi.v`): the shift register shared by Z80 and DMA, composed with
   `Dma`.
4. The flash service (`spiflash.c`: commands against a busy chip, the end of a
   write) and the ESP32's object table and command state (`mem_obj.cpp`: an object
   deleted while it plays; `spi_slave.cpp`).

## 7. Not modelled

Timing below the FPGA clock (DRAM waveforms, bus hold times), pixel and sound
data, decompressors, the set-up program's screens and settings, third-party code (FatFs), the
ESP32's network and media code, the boot loaders, host tools and the emulator.
