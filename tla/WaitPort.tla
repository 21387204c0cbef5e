------------------------------ MODULE WaitPort ------------------------------
(***************************************************************************)
(* The wait ports of TS-Conf.  A Z80 access to a GluClock or RS-232 port   *)
(* stops the Z80 (zwait.v) and pulls the SPI interrupt line; the AVR's     *)
(* INT6 handler raises wait_irq_flag, the main loop's waittask() starts    *)
(* zx_wait_task(), which reads the status byte (slavespi.v), prepares the  *)
(* answer and exchanges one byte; the end of that SPI transfer releases    *)
(* the Z80.  A DMA transfer from a wait port (dma.v, device WTP) uses the  *)
(* same status, the same address register and the same release.            *)
(*                                                                         *)
(* One action is one event that another party can observe.  What one fclk  *)
(* edge does is one action.  The Z80 takes the answer from wait_reg in the *)
(* bus cycle its wait ends in, several microseconds before the AVR could   *)
(* change it, so release and read are one action.                          *)
(***************************************************************************)
EXTENDS Naturals

CONSTANTS
  GluAddrs,    \* register numbers the Z80 writes to #DFF7
  ComAddrs,    \* high address bytes of the #xxEF ports it uses
  NValues,     \* data bytes are 0 .. NValues - 1
  DmaDevs,     \* values of DMAWPDev it uses: "glu", "com" or "none"
  MaxWords,    \* longest DMA transfer, 0 for no DMA
  MaxResets,   \* bound on the number of soft and hard resets
  Shared,      \* TRUE: the Z80 uses wait ports while a DMA uses them too
  AccessAt     \* where the AVR may be when the Z80 begins an access

\* The ports the firmware decodes: 00..CF and F8..FF.  See slavespi.v, where
\* D0..F7 share the codes of other addresses.
ASSUME AddrAssumption ==
  /\ GluAddrs \subseteq 0 .. 255 /\ GluAddrs # {}
  /\ ComAddrs \subseteq (0 .. 207) \cup (248 .. 255)
Places == {"conf", "armed", "loop", "status", "addr", "prep", "exch", "write"}

ASSUME BoundAssumption ==
  /\ NValues \in Nat \ {0}
  /\ MaxWords \in Nat /\ MaxResets \in Nat
  /\ DmaDevs \subseteq {"glu", "com", "none"}
  /\ AccessAt \subseteq Places
  /\ Shared \in BOOLEAN

VARIABLES
  z80,        \* the Z80: running or held in an access
  got,        \* the byte its last port read returned (wait_reg of slavespi.v)
  waitAddr,   \* wait_addr of zports.v
  waitWrite,  \* wait_write of zports.v
  stCpu,      \* wait_status_glu/com of zwait.v: "none", "glu" or "com"
  dma,        \* dma.v with device WTP
  seenHigh,   \* the AVR has sampled spiint_n high since its last edge
  intf6,      \* INTF6, the AVR's pending edge
  flag,       \* wait_irq_flag
  pc,         \* where the AVR is
  sts,        \* the status byte zx_wait_task fetched
  addr,       \* its variable addr
  data,       \* its variable data
  regs,       \* the registers behind the ports
  resets,     \* resets so far
  cut         \* history: a reset has dropped an access or left its event

cpuVars == <<z80, got>>
latches == <<waitAddr, waitWrite>>
fpga    == <<stCpu, dma>>
irq     == <<seenHigh, intf6, flag>>
avr     == <<pc, sts, addr, data>>
vars == <<cpuVars, latches, fpga, irq, avr, regs, resets, cut>>

Values == 0 .. NValues - 1
Srcs   == {"glu", "com", "none"}

-----------------------------------------------------------------------------
(* Addresses                                                               *)

\* Mutant: the com group takes the range bit the glu group has.
StatusAddrRangeSwapped(src, a) ==
  IF src = "com" /\ a < 192 THEN 16 ELSE (IF a >= 240 THEN 0 ELSE 16) + (a % 16)

\* The five address bits of the status byte (status_addr in slavespi.v).
StatusAddr(src, a) ==
  IF src = "glu"
  THEN (IF a >= 240 THEN 0 ELSE 16) + (a % 16)
  ELSE IF a < 192 THEN 16 ELSE (IF a >= 240 THEN 16 ELSE 0) + (a % 16)

\* comport_addr_unpack_tab
ComUnpack(p) ==
  IF p < 16 THEN 192 + p ELSE IF p < 24 THEN 0 ELSE 224 + p

\* The register an access is meant for: com addresses 00..BF are all the
\* data register.
Register(src, a) == <<src, IF src = "com" /\ a < 192 THEN 0 ELSE a>>

PortsOf(dev) ==
  (IF dev # "com" THEN GluAddrs ELSE {}) \cup (IF dev # "glu" THEN ComAddrs ELSE {})

\* Addresses the AVR can come to use, whatever shares wait_addr.
Addrs == LET ports == GluAddrs \cup ComAddrs
         IN ports \cup {ComUnpack(StatusAddr("com", a)) : a \in ports} \cup {0}

Regs == {"glu", "com"} \X Addrs

\* A read of a com register leaves the next item in it; of a glu register
\* leaves it alone.
AfterRead(r, f) ==
  IF r[1] = "com" THEN [f EXCEPT ![r] = (@ + 1) % NValues] ELSE f

-----------------------------------------------------------------------------
(* The wait logic of zwait.v                                               *)

Running == [st |-> "run", src |-> "none", rd |-> FALSE, val |-> 0]
Held    == z80.st = "wait"
Idle    == dma.st = "idle"

\* wait_status_dma follows the level wtp_req within one fclk, which nobody
\* but the edge detector of INT6 can tell from following it at once.
DmaWaits == dma.st = "read"

SpiInt == stCpu # "none" \/ DmaWaits      \* spiint_n is low

\* What the AVR finds as source: the DMA's device hides the Z80's access.
StatusSrc  == IF DmaWaits THEN dma.dev ELSE stCpu
StatusReadCpuOnly == z80.rd   \* mutant: the DMA is forgotten
StatusRead == IF DmaWaits THEN TRUE ELSE z80.rd

\* The line goes low, or stays so.  INT6 is sampled: the edge counts if the
\* line had been seen high.
Fall ==
  IF SpiInt THEN UNCHANGED irq
  ELSE /\ intf6' = (intf6 \/ seenHigh)
       /\ seenHigh' = FALSE
       /\ UNCHANGED flag

\* Between two accesses of the Z80, and between two words of the DMA, the
\* line is high for longer than the AVR's sampling period.
LineReady == SpiInt \/ seenHigh

\* When the Z80 may touch a wait port, itself or through the DMA.
MayAccess ==
  /\ z80.st = "run"
  /\ LineReady
  /\ Shared \/ Idle
  /\ pc \in AccessAt

-----------------------------------------------------------------------------
(* The Z80                                                                 *)

\* OUT (#DFF7): choose the GluClock register.
SelectGlu(a) ==
  /\ z80.st = "run"
  /\ Shared \/ Idle
  /\ waitAddr' = a
  /\ UNCHANGED <<z80, got, waitWrite, fpga, irq, avr, regs, resets, cut>>

\* IN or OUT (#BFF7): the GluClock register in wait_addr.
GluAccess(rd, v) ==
  /\ MayAccess
  /\ z80' = [st |-> "wait", src |-> "glu", rd |-> rd, val |-> v]
  /\ waitWrite' = IF rd THEN waitWrite ELSE v
  /\ stCpu' = "glu"
  /\ Fall
  /\ UNCHANGED <<got, waitAddr, dma, avr, regs, resets, cut>>

\* IN or OUT (#xxEF): the access itself sets wait_addr.
ComAccess(rd, a, v) ==
  /\ MayAccess
  /\ z80' = [st |-> "wait", src |-> "com", rd |-> rd, val |-> v]
  /\ waitAddr' = a
  /\ waitWrite' = IF rd THEN waitWrite ELSE v
  /\ stCpu' = "com"
  /\ Fall
  /\ UNCHANGED <<got, dma, avr, regs, resets, cut>>

-----------------------------------------------------------------------------
(* The DMA                                                                 *)

\* OUT DMAWPDev, DMAWPAddr, DMACtrl: a transfer of n words begins.
DmaLaunch(d, a, n) ==
  /\ MayAccess
  /\ Idle
  /\ waitAddr' = a
  /\ dma' = [st |-> "read", dev |-> d, words |-> n, bsel |-> 0, addr |-> a,
              bad |-> FALSE, missed |-> FALSE]
  /\ Fall
  /\ UNCHANGED <<cpuVars, waitWrite, stCpu, avr, regs, resets, cut>>

\* Mutant: wtp_req stays high between two words.
DmaWriteNoEdge ==
  /\ dma.st = "write"
  /\ LineReady
  /\ dma' = [dma EXCEPT !.words = @ - 1, !.st = IF dma.words = 1 THEN "idle" ELSE "read"]
  /\ UNCHANGED <<cpuVars, latches, stCpu, irq, avr, regs, resets, cut>>

\* dram_next: the word goes to memory; the next one is requested at once.
DmaWrite ==
  /\ dma.st = "write"
  /\ LineReady
  /\ dma' = [dma EXCEPT !.words = @ - 1, !.st = IF dma.words = 1 THEN "idle" ELSE "read"]
  /\ IF dma.words = 1 THEN UNCHANGED irq ELSE Fall
  /\ UNCHANGED <<cpuVars, latches, stCpu, avr, regs, resets, cut>>

\* With this end of a service the DMA asks for its second byte.
AsksAgain == DmaWaits /\ dma.bsel = 0

\* dma_wtp_stb, which every end of a service gives.  While the DMA reads it
\* takes the byte; the strobe toggles bsel in the write phase too.  bad
\* records a byte that was not fetched for the DMA from its register, missed
\* that INT6 has not seen its present request.
DmaTaken(ok, seen) ==
  [dma EXCEPT
     !.bsel   = IF Idle THEN @ ELSE 1 - @,
     !.st     = IF DmaWaits /\ dma.bsel = 1 THEN "write" ELSE @,
     !.bad    = @ \/ (~Idle /\ ~ok),
     !.missed = AsksAgain /\ ~seen]

\* The second request comes one fclk (36 ns) after the first byte.  The AVR
\* samples the line every 90 ns: it may miss the pulse.
Pulse(seen) ==
  IF AsksAgain
  THEN /\ intf6' = (intf6 \/ seen)
       /\ seenHigh' = FALSE
       /\ UNCHANGED flag
  ELSE UNCHANGED irq

-----------------------------------------------------------------------------
(* The AVR                                                                 *)

\* The pin is sampled with every AVR clock.
Sample ==
  /\ ~SpiInt
  /\ ~seenHigh
  /\ seenHigh' = TRUE
  /\ UNCHANGED <<cpuVars, latches, fpga, intf6, flag, avr, regs, resets, cut>>

\* ISR(INT6_vect); interrupts are off until main() has called zx_init().
Int6 ==
  /\ intf6
  /\ pc \notin {"conf", "armed"}
  /\ flag' = TRUE
  /\ intf6' = FALSE
  /\ UNCHANGED <<cpuVars, latches, fpga, seenHigh, avr, regs, resets, cut>>

\* waittask(): called after each task of the main loop.
WaitTask ==
  /\ pc = "loop"
  /\ flag
  /\ flag' = FALSE
  /\ pc' = "status"
  /\ UNCHANGED <<cpuVars, latches, fpga, seenHigh, intf6, sts, addr, data, regs, resets, cut>>

\* The CS pulse latches the status; a long GluClock address has to be asked
\* for, everything else is in the status.
FetchStatus ==
  /\ pc = "status"
  /\ LET src  == StatusSrc
         code == StatusAddr(src, waitAddr)
     IN /\ sts' = [src |-> src, rd |-> StatusRead, code |-> code]
        /\ pc' = IF src = "glu" /\ code >= 16 THEN "addr" ELSE "prep"
        /\ addr' = IF src = "com" THEN ComUnpack(code)
                   ELSE IF src = "glu" /\ code < 16 THEN 240 + code ELSE 0
  /\ data' = 0
  /\ UNCHANGED <<cpuVars, latches, fpga, irq, regs, resets, cut>>

\* SPI_WAIT_ADDR: the address register as it is now.
FetchAddr ==
  /\ pc = "addr"
  /\ addr' = waitAddr
  /\ pc' = "prep"
  /\ UNCHANGED <<cpuVars, latches, fpga, irq, sts, data, regs, resets, cut>>

\* Mutant: the register is read for a write too.
PrepareAlways ==
  /\ pc = "prep"
  /\ pc' = "exch"
  /\ IF sts.src # "none"
     THEN /\ data' = regs[<<sts.src, addr>>]
          /\ regs' = AfterRead(<<sts.src, addr>>, regs)
     ELSE UNCHANGED <<data, regs>>
  /\ UNCHANGED <<cpuVars, latches, fpga, irq, sts, addr, resets, cut>>

\* rs232_zx_read() or gluk_get_reg() for a read; nothing for a write.
Prepare ==
  /\ pc = "prep"
  /\ pc' = "exch"
  /\ IF sts.rd /\ sts.src # "none"
     THEN /\ data' = regs[<<sts.src, addr>>]
          /\ regs' = AfterRead(<<sts.src, addr>>, regs)
     ELSE UNCHANGED <<data, regs>>
  /\ UNCHANGED <<cpuVars, latches, fpga, irq, sts, addr, resets, cut>>

\* This service is for the source the Z80 waits on.
ServesZ80Source == Held /\ sts.src = z80.src /\ sts.rd = z80.rd

\* It answers the Z80's own access: its source, direction and register.
ServesZ80 ==
  /\ ServesZ80Source
  /\ <<z80.src, addr>> = Register(z80.src, waitAddr)

ServesDma ==
  /\ sts.src = dma.dev /\ sts.rd /\ DmaWaits
  /\ sts.src # "none" => <<sts.src, addr>> = Register(dma.dev, dma.addr)

NoStatus == [src |-> "none", rd |-> FALSE, code |-> 0]

\* zx_wait_task() returns and its locals are gone.
Return ==
  /\ pc' = "loop"
  /\ sts' = NoStatus
  /\ addr' = 0
  /\ data' = 0

\* The data byte goes both ways; the rising CS is wait_end.  It clears
\* the status flops, so it releases the Z80 whatever was served.
Exchange ==
  /\ pc = "exch"
  /\ stCpu' = "none"
  /\ z80' = Running
  /\ got' = IF Held /\ z80.rd THEN data ELSE got
  /\ \E seen \in BOOLEAN : dma' = DmaTaken(ServesDma, seen) /\ Pulse(seen)
  /\ IF sts.rd \/ sts.src = "none"
     THEN Return
     ELSE pc' = "write" /\ data' = waitWrite /\ UNCHANGED <<sts, addr>>
  /\ UNCHANGED <<waitAddr, waitWrite, regs, resets, cut>>

\* Mutant: the flag is cleared when the work is done, not before.
ApplyWriteClearsFlag ==
  /\ pc = "write"
  /\ regs' = [regs EXCEPT ![<<sts.src, addr>>] = data]
  /\ flag' = FALSE
  /\ Return
  /\ UNCHANGED <<cpuVars, latches, fpga, seenHigh, intf6, resets, cut>>

\* gluk_set_reg() or rs232_zx_write(), after the Z80 has been released.
ApplyWrite ==
  /\ pc = "write"
  /\ regs' = [regs EXCEPT ![<<sts.src, addr>>] = data]
  /\ Return
  /\ UNCHANGED <<cpuVars, latches, fpga, irq, resets, cut>>

-----------------------------------------------------------------------------
(* Resets                                                                  *)

\* SPI_RST_REG 1, then 0: the FPGA's reset.  The AVR's flag and pending
\* edge stay.
FpgaReset ==
  /\ z80' = Running
  /\ stCpu' = "none"
  /\ dma' = [dma EXCEPT !.st = "idle", !.missed = FALSE]
  /\ cut' = (cut \/ SpiInt \/ intf6 \/ flag)
  /\ UNCHANGED <<got, latches>>

ComDefaults == [r \in Regs |-> IF r[1] = "com" THEN 0 ELSE regs[r]]

\* atx_power_task(): the soft reset button was released.
SoftReset ==
  /\ pc = "loop"
  /\ resets < MaxResets
  /\ resets' = resets + 1
  /\ FpgaReset
  /\ UNCHANGED <<irq, avr, regs>>

\* The main loop ends with FLAG_HARD_RESET: main() starts again, configures
\* the FPGA and the Z80 runs, with the AVR's interrupts off.
HardReset ==
  /\ pc = "loop"
  /\ resets < MaxResets
  /\ resets' = resets + 1
  /\ FpgaReset
  /\ regs' = ComDefaults
  /\ pc' = "conf"
  /\ UNCHANGED <<irq, sts, addr, data>>

\* main(): wait_irq_flag = 0, then EIFR.
ClearInts ==
  /\ pc = "conf"
  /\ pc' = "armed"
  /\ flag' = FALSE
  /\ intf6' = FALSE
  /\ UNCHANGED <<cpuVars, latches, fpga, seenHigh, sts, addr, data, regs, resets, cut>>

\* Mutant: the Z80 runs on from the FPGA's configuration.
ZxInitNoReset ==
  /\ pc = "armed"
  /\ regs' = ComDefaults
  /\ pc' = "loop"
  /\ UNCHANGED <<cpuVars, latches, fpga, irq, sts, addr, data, resets, cut>>

\* zx_init() resets the Z80; then sei() and the main loop.
ZxInit ==
  /\ pc = "armed"
  /\ FpgaReset
  /\ regs' = ComDefaults
  /\ pc' = "loop"
  /\ UNCHANGED <<irq, sts, addr, data, resets>>

-----------------------------------------------------------------------------
Init ==
  /\ z80 = Running
  /\ got = 0
  /\ waitAddr \in GluAddrs
  /\ waitWrite = 0
  /\ stCpu = "none"
  /\ dma = [st |-> "idle", dev |-> "none", words |-> 0, bsel |-> 0, addr |-> 0,
            bad |-> FALSE, missed |-> FALSE]
  /\ seenHigh \in BOOLEAN
  /\ intf6 = FALSE
  /\ flag = FALSE
  /\ pc = "conf"
  /\ sts = NoStatus
  /\ addr = 0
  /\ data = 0
  /\ regs = [r \in Regs |-> 0]
  /\ resets = 0
  /\ cut = FALSE

Z80Step ==
  \/ \E a \in GluAddrs : SelectGlu(a)
  \/ \E rd \in BOOLEAN, v \in Values :
       /\ rd => v = 0
       /\ \/ GluAccess(rd, v)
          \/ \E a \in ComAddrs : ComAccess(rd, a, v)
  \/ \E d \in DmaDevs, n \in 1 .. MaxWords : \E a \in PortsOf(d) : DmaLaunch(d, a, n)

AvrStep ==
  \/ WaitTask \/ FetchStatus \/ FetchAddr \/ Prepare \/ Exchange \/ ApplyWrite
  \/ ClearInts \/ ZxInit

Next == Z80Step \/ DmaWrite \/ Sample \/ Int6 \/ AvrStep \/ SoftReset \/ HardReset

Spec == Init /\ [][Next]_vars

\* The AVR's main loop never blocks (every task returns), interrupts are
\* taken, the pin is sampled and the arbiter serves the DMA.  Nothing is
\* assumed of the Z80 program.
Fairness ==
  /\ WF_vars(AvrStep)
  /\ WF_vars(Int6)
  /\ WF_vars(Sample)
  /\ WF_vars(DmaWrite)

FairSpec == Spec /\ Fairness

-----------------------------------------------------------------------------
(* Properties                                                              *)

CpuTypes ==
  /\ z80 \in [st : {"run", "wait"}, src : Srcs, rd : BOOLEAN, val : Values]
  /\ z80.st = "run" <=> z80.src = "none"
  /\ got \in Values
  /\ waitAddr \in GluAddrs \cup ComAddrs
  /\ waitWrite \in Values
  /\ stCpu \in Srcs

DmaTypes ==
  dma \in [st : {"idle", "read", "write"}, dev : Srcs, words : 0 .. MaxWords,
           bsel : {0, 1}, addr : 0 .. 255, bad : BOOLEAN, missed : BOOLEAN]

IrqTypes ==
  /\ seenHigh \in BOOLEAN
  /\ intf6 \in BOOLEAN
  /\ flag \in BOOLEAN
  /\ cut \in BOOLEAN

AvrTypes ==
  /\ pc \in Places
  /\ sts \in [src : Srcs, rd : BOOLEAN, code : 0 .. 31]
  /\ addr \in Addrs
  /\ data \in Values

RegTypes ==
  /\ regs \in [Regs -> Values]
  /\ resets \in 0 .. MaxResets

\* Every variable keeps to its registers' width and its states.
TypeOK == CpuTypes /\ DmaTypes /\ IrqTypes /\ AvrTypes /\ RegTypes

\* The AVR reads the status once per raised flag and clears the flag first.
\* So a Z80 held in an access always has a service of it under way or an
\* event recorded that will start one: the wake-up is never lost, whatever
\* the order of the edge, the handler, the clearing of the flag and resets.
NoLostWakeup ==
  Held /\ pc \notin {"conf", "armed"} =>
    \/ intf6 \/ flag \/ pc = "status"
    \/ pc \in {"addr", "prep", "exch"} /\ ServesZ80Source

\* The types, and that no wake-up is lost.
Inv == TypeOK /\ NoLostWakeup

\* A service's end releases the Z80 unconditionally.  It is the end of the
\* transfer that carried this access: right port, direction and register.
AnsweredByOwnService == pc = "exch" /\ Held => ServesZ80

\* Each byte a DMA transfer takes at wait_end was fetched for it, from the
\* register it was started for (bsel, the flops and wait_addr agree), unless a
\* reset has left the AVR an event of an access it dropped.
DmaBytesOwn == dma.bad => cut

\* Seen from the Z80, the ports are a service that executes each access
\* once, in order, and answers a read with the register's value.
ReadDone == Held /\ z80.rd /\ pc = "exch"

Service == INSTANCE PortService WITH
  req <- IF Held
         THEN [reg |-> Register(z80.src, waitAddr), rd |-> z80.rd, val |-> z80.val]
         ELSE [reg |-> <<"none", 0>>, rd |-> FALSE, val |-> 0],
  answered <- ReadDone,
  answer <- IF ReadDone THEN data ELSE got,
  regs <- IF pc = "write" THEN [regs EXCEPT ![<<sts.src, addr>>] = data] ELSE regs

ImplementsPortService == Service!SSpec

\* A Z80 held in a wait port access is let go, after finitely many turns of
\* the main loop.
Z80Released == Held ~> ~Held

\* A DMA transfer from a wait port comes to its end (and to its interrupt),
\* unless INT6 has missed one of its requests: nobody makes it again.
DmaEnds == ~Idle ~> Idle \/ dma.missed

=============================================================================
