--------------------------- MODULE WaitPortProofs ---------------------------
(***************************************************************************)
(* Proofs about WaitPort, for every set of addresses, every number of      *)
(* values, words and resets.  The first part needs nothing else: types,    *)
(* and that the AVR always learns of a low interrupt line.  The second     *)
(* part is about a program that does not touch wait ports while a DMA      *)
(* transfer uses them (~Shared): the wake-up of the Z80, one event per     *)
(* request, a service of the right register, and that the whole is the     *)
(* port of PortService.                                                    *)
(***************************************************************************)
EXTENDS WaitPort, TLAPS

-----------------------------------------------------------------------------
(* Addresses: what the five bits of the status byte keep of an address     *)

Ports == GluAddrs \cup ComAddrs

\* Every address of a port is a byte, and one the AVR can come to use.
LEMMA PortsFit == Ports \subseteq 0 .. 255 /\ Ports \subseteq Addrs /\ 0 \in Addrs
  BY AddrAssumption DEF Ports, Addrs

\* The code of an address fits the status byte.
LEMMA StatusAddrFits ==
  ASSUME NEW src \in Srcs, NEW a \in Ports
  PROVE  StatusAddr(src, a) \in 0 .. 31
  BY PortsFit, SMTT(30) DEF StatusAddr

\* A short GluClock code names the register: the AVR need not ask for it.
LEMMA GluCode ==
  ASSUME NEW a \in Ports, StatusAddr("glu", a) < 16
  PROVE  240 + StatusAddr("glu", a) = a
  BY PortsFit, SMTT(30) DEF StatusAddr

\* A com code names the register for the ports the firmware decodes; the
\* addresses below 192 are one register.
LEMMA ComCode ==
  ASSUME NEW a \in ComAddrs
  PROVE  ComUnpack(StatusAddr("com", a)) = (IF a < 192 THEN 0 ELSE a)
  <1>1. a \in 0 .. 255 /\ (a < 208 \/ a >= 248)
    BY AddrAssumption
  <1>2. CASE a < 192
    BY <1>1, <1>2, SMTT(30) DEF StatusAddr, ComUnpack
  <1>3. CASE a >= 192 /\ a < 208
    <2>1. StatusAddr("com", a) = a - 192
      BY <1>1, <1>3, SMTT(30) DEF StatusAddr
    <2>2. QED
      BY <1>1, <1>3, <2>1, SMTT(30) DEF ComUnpack
  <1>4. CASE a >= 248
    <2>1. StatusAddr("com", a) = a - 224
      BY <1>1, <1>4, SMTT(30) DEF StatusAddr
    <2>2. QED
      BY <1>1, <1>4, <2>1, SMTT(30) DEF ComUnpack
  <1>5. QED
    BY <1>1, <1>2, <1>3, <1>4

-----------------------------------------------------------------------------
(* The parts of the inductive invariant                                    *)

Armed     == pc \notin {"conf", "armed"}
InService == pc \in {"addr", "prep", "exch"}
Serving   == pc = "status" \/ InService

\* The flops of zwait.v follow the Z80, the latches of zports.v hold what its
\* access left there, and the AVR's locals fit the place it is in.
Shape ==
  /\ stCpu = z80.src
  /\ Held /\ z80.src = "com" => waitAddr \in ComAddrs
  /\ Held /\ ~z80.rd => waitWrite = z80.val
  /\ ~Idle => dma.words > 0 /\ dma.addr \in PortsOf(dma.dev)
  /\ dma.missed => DmaWaits
  /\ pc = "addr" => sts.src = "glu" /\ sts.code >= 16
  /\ pc = "write" => sts.src # "none" /\ ~sts.rd
  /\ pc \in {"conf", "armed", "loop", "status"} => sts = NoStatus

\* While the interrupt line is low the AVR has an event recorded or is serving,
\* if it has not missed the edge.
LineServed == SpiInt /\ Armed /\ ~dma.missed => intf6 \/ flag \/ Serving

\* The Z80 and the DMA take turns, and what the AVR serves is there.
Alone ==
  /\ Held => Idle
  /\ ~Idle => waitAddr = dma.addr
  /\ InService => Held \/ sts.rd \/ sts.src = "none"

\* Until a reset cuts something off, each request has one event: an event
\* means a low line, and the edge, the flag and the service exclude each other.
OneEvent ==
  ~cut /\ Armed =>
    /\ intf6 \/ flag \/ Serving => SpiInt
    /\ ~(intf6 /\ flag) /\ ~(intf6 /\ Serving) /\ ~(flag /\ Serving)

\* The Z80 begins no access while the AVR is in the middle of a service.
Quiet == AccessAt \cap {"addr", "prep", "exch"} = {}

\* A service under way was started for the request that is there now: no reset
\* has left a stale event, or the Z80 begins no access while one is served.
Fresh == ~cut \/ Quiet

\* The service under way is for the Z80's access, and once the address has been
\* fetched it is for its register.
CpuService ==
  Fresh /\ InService /\ Held => ServesZ80Source /\ (pc # "addr" => ServesZ80)

\* The same for the DMA.
DmaService ==
  ~cut /\ InService /\ ~Idle =>
    /\ sts.src = dma.dev /\ sts.rd /\ DmaWaits
    /\ pc # "addr" => ServesDma

IInv ==
  /\ TypeOK /\ Shape /\ Alone
  /\ NoLostWakeup /\ OneEvent
  /\ CpuService /\ DmaService /\ DmaBytesOwn

-----------------------------------------------------------------------------
(* Types                                                                   *)

USE DEF vars, cpuVars, latches, fpga, irq, avr

LEMMA Zero == 0 \in Values /\ NValues \in Nat \ {0} /\ MaxWords \in Nat /\ MaxResets \in Nat
  BY BoundAssumption DEF Values

LEMMA TypeInit == Init => TypeOK
  <1> SUFFICES ASSUME Init PROVE TypeOK
    OBVIOUS
  <1>1. CpuTypes
    BY Zero DEF Init, CpuTypes, Running, Srcs
  <1>2. DmaTypes
    BY Zero DEF Init, DmaTypes, Srcs
  <1>3. IrqTypes
    BY DEF Init, IrqTypes
  <1>4. AvrTypes
    BY Zero, PortsFit DEF Init, AvrTypes, NoStatus, Srcs, Places
  <1>5. RegTypes
    BY Zero DEF Init, RegTypes
  <1> QED
    BY <1>1, <1>2, <1>3, <1>4, <1>5 DEF TypeOK

LEMMA ShapeInit == Init => Shape
  BY DEF Init, Shape, Running, Held, Idle

\* What the end of a service does to the DMA's phase, and to the edge of the
\* request that may follow.
LEMMA ExchangeTaken ==
  ASSUME TypeOK, Exchange
  PROVE  \E seen \in BOOLEAN :
           /\ dma' = DmaTaken(ServesDma, seen)
           /\ Pulse(seen)
           /\ dma'.st = (IF DmaWaits /\ dma.bsel = 1 THEN "write" ELSE dma.st)
           /\ dma'.dev = dma.dev /\ dma'.words = dma.words /\ dma'.addr = dma.addr
           /\ (dma'.missed <=> AsksAgain /\ ~seen)
  <1>1. PICK seen \in BOOLEAN : dma' = DmaTaken(ServesDma, seen) /\ Pulse(seen)
    BY DEF Exchange
  <1>2. /\ dma'.st = (IF DmaWaits /\ dma.bsel = 1 THEN "write" ELSE dma.st)
        /\ dma'.dev = dma.dev /\ dma'.words = dma.words /\ dma'.addr = dma.addr
        /\ (dma'.missed <=> AsksAgain /\ ~seen)
    BY <1>1 DEF DmaTaken, TypeOK, DmaTypes
  <1> QED
    BY <1>1, <1>2

LEMMA CpuTypesStep == TypeOK /\ [Next]_vars => CpuTypes'
  <1> SUFFICES ASSUME CpuTypes, AvrTypes, [Next]_vars PROVE CpuTypes'
    BY DEF TypeOK
  <1> USE DEF CpuTypes
  <1>0. /\ Running.st = "run" /\ Running.src = "none"
        /\ Running \in [st : {"run", "wait"}, src : Srcs, rd : BOOLEAN, val : Values]
    BY Zero DEF Running, Srcs
  <1>1. CASE \E a \in GluAddrs : SelectGlu(a)
    BY <1>1 DEF SelectGlu
  <1>2. ASSUME NEW rd \in BOOLEAN, NEW v \in Values, GluAccess(rd, v) PROVE CpuTypes'
    BY <1>2 DEF GluAccess, Srcs
  <1>3. ASSUME NEW rd \in BOOLEAN, NEW v \in Values, NEW a \in ComAddrs, ComAccess(rd, a, v)
        PROVE  CpuTypes'
    BY <1>3 DEF ComAccess, Srcs
  <1>4. CASE \E d \in DmaDevs, n \in 1 .. MaxWords : \E a \in PortsOf(d) : DmaLaunch(d, a, n)
    BY <1>4 DEF DmaLaunch, PortsOf
  <1>5. CASE Exchange
    BY <1>5, <1>0 DEF Exchange, AvrTypes, Srcs
  <1>6. CASE ZxInit \/ SoftReset \/ HardReset
    BY <1>6, <1>0 DEF ZxInit, SoftReset, HardReset, FpgaReset, Srcs
  <1>7. CASE UNCHANGED <<cpuVars, latches, stCpu>>
    BY <1>7
  <1> QED
    BY <1>1, <1>2, <1>3, <1>4, <1>5, <1>6, <1>7
    DEF Next, Z80Step, AvrStep, DmaWrite, Sample, Int6, WaitTask, FetchStatus,
        FetchAddr, Prepare, ApplyWrite, ClearInts

DmaRecords ==
  [st : {"idle", "read", "write"}, dev : Srcs, words : 0 .. MaxWords, bsel : {0, 1},
   addr : 0 .. 255, bad : BOOLEAN, missed : BOOLEAN]

LEMMA DmaRecordTaken ==
  ASSUME NEW d \in DmaRecords, NEW bsel \in {0, 1}, NEW st \in {"idle", "read", "write"},
         NEW bad \in BOOLEAN, NEW missed \in BOOLEAN
  PROVE  [d EXCEPT !.bsel = bsel, !.st = st, !.bad = bad, !.missed = missed] \in DmaRecords
  BY DEF DmaRecords

LEMMA DmaTypesStep == TypeOK /\ Shape /\ [Next]_vars => DmaTypes'
  <1> SUFFICES ASSUME DmaTypes, Shape, [Next]_vars PROVE DmaTypes'
    BY DEF TypeOK
  <1> USE DEF DmaTypes
  <1>1. ASSUME NEW d \in DmaDevs, NEW n \in 1 .. MaxWords, NEW a \in PortsOf(d), DmaLaunch(d, a, n)
        PROVE  DmaTypes'
    <2>1. d \in Srcs /\ a \in 0 .. 255 /\ n \in 0 .. MaxWords
      BY PortsFit, BoundAssumption DEF PortsOf, Ports, Srcs
    <2> QED
      BY <1>1, <2>1 DEF DmaLaunch
  <1>2. CASE DmaWrite
    <2> DEFINE words == dma.words - 1
               st == IF dma.words = 1 THEN "idle" ELSE "read"
    <2>1. words \in 0 .. MaxWords
      BY <1>2, Zero DEF DmaWrite, Shape, Idle
    <2>2. st \in {"idle", "read", "write"}
      OBVIOUS
    <2>3. dma' = [dma EXCEPT !.words = words, !.st = st]
      BY <1>2 DEF DmaWrite
    <2> HIDE DEF words, st
    <2> QED
      BY <2>1, <2>2, <2>3
  <1>3. CASE Exchange
    <2> DEFINE bsel == IF Idle THEN dma.bsel ELSE 1 - dma.bsel
               st == IF DmaWaits /\ dma.bsel = 1 THEN "write" ELSE dma.st
               bad == dma.bad \/ (~Idle /\ ~ServesDma)
    <2>1. bsel \in {0, 1} /\ st \in {"idle", "read", "write"}
      OBVIOUS
    <2>2. bad \in BOOLEAN
      OBVIOUS
    <2>3. PICK missed \in BOOLEAN :
            dma' = [dma EXCEPT !.bsel = bsel, !.st = st, !.bad = bad, !.missed = missed]
      <3>1. PICK seen \in BOOLEAN : dma' = DmaTaken(ServesDma, seen)
        BY <1>3 DEF Exchange
      <3> QED
        BY <3>1 DEF DmaTaken
    <2> HIDE DEF bsel, st, bad
    <2>4. dma \in DmaRecords
      BY DEF DmaRecords
    <2>5. dma' \in DmaRecords
      BY <2>1, <2>2, <2>3, <2>4, DmaRecordTaken
    <2> QED
      BY <2>5 DEF DmaRecords
  <1>4. CASE ZxInit \/ SoftReset \/ HardReset
    BY <1>4 DEF ZxInit, SoftReset, HardReset, FpgaReset
  <1>5. CASE UNCHANGED dma
    BY <1>5
  <1> QED
    BY <1>1, <1>2, <1>3, <1>4, <1>5
    DEF Next, Z80Step, AvrStep, SelectGlu, GluAccess, ComAccess, Sample, Int6, WaitTask,
        FetchStatus, FetchAddr, Prepare, ApplyWrite, ClearInts

LEMMA IrqTypesStep == TypeOK /\ [Next]_vars => IrqTypes'
  <1> SUFFICES ASSUME IrqTypes, [Next]_vars PROVE IrqTypes'
    BY DEF TypeOK
  <1> USE DEF IrqTypes
  <1>1. CASE Next
    BY <1>1, BoundAssumption, Zenon
    DEF Next, Z80Step, AvrStep, SelectGlu, GluAccess, ComAccess, DmaLaunch, DmaWrite, Fall,
        Sample, Int6, WaitTask, FetchStatus, FetchAddr, Prepare, Exchange, Pulse, ApplyWrite,
        ClearInts, ZxInit, SoftReset, HardReset, FpgaReset
  <1> QED
    BY <1>1

LEMMA AvrTypesStep == TypeOK /\ [Next]_vars => AvrTypes'
  <1> SUFFICES ASSUME CpuTypes, DmaTypes, AvrTypes, RegTypes, [Next]_vars PROVE AvrTypes'
    BY DEF TypeOK
  <1> USE DEF AvrTypes
  <1>1. CASE FetchStatus
    <2> DEFINE code == StatusAddr(StatusSrc, waitAddr)
    <2>1. StatusSrc \in Srcs /\ StatusRead \in BOOLEAN /\ waitAddr \in Ports
      BY DEF CpuTypes, DmaTypes, StatusSrc, StatusRead, Ports
    <2>2. code \in 0 .. 31
      BY <2>1, StatusAddrFits
    <2>3. sts' \in [src : Srcs, rd : BOOLEAN, code : 0 .. 31]
      BY <1>1, <2>1, <2>2 DEF FetchStatus
    <2>4. addr' \in Addrs
      <3>1. CASE StatusSrc = "com"
        BY <1>1, <3>1, <2>1 DEF FetchStatus, Addrs, Ports
      <3>2. CASE StatusSrc = "glu" /\ code < 16
        BY <1>1, <3>2, <2>1, GluCode, PortsFit DEF FetchStatus
      <3> QED
        BY <1>1, <3>1, <3>2, PortsFit DEF FetchStatus
    <2>5. pc' \in Places /\ data' \in Values
      BY <1>1, Zero DEF FetchStatus, Places
    <2> QED
      BY <2>3, <2>4, <2>5
  <1>2. CASE FetchAddr
    BY <1>2, PortsFit DEF FetchAddr, CpuTypes, Ports, Places
  <1>3. CASE Prepare
    BY <1>3 DEF Prepare, RegTypes, Regs, Srcs, Places
  <1>4. CASE Exchange
    <2>1. CASE Return
      BY <2>1, Zero, PortsFit DEF Return, NoStatus, Srcs, Places
    <2>2. CASE pc' = "write" /\ data' = waitWrite /\ UNCHANGED <<sts, addr>>
      BY <2>2 DEF CpuTypes, Places
    <2> QED
      BY <1>4, <2>1, <2>2 DEF Exchange
  <1>5. CASE ApplyWrite
    BY <1>5, Zero, PortsFit DEF ApplyWrite, Return, NoStatus, Srcs, Places
  <1>6. CASE WaitTask \/ ClearInts \/ ZxInit \/ HardReset
    BY <1>6 DEF WaitTask, ClearInts, ZxInit, HardReset, Places
  <1>7. CASE UNCHANGED avr
    BY <1>7
  <1> QED
    BY <1>1, <1>2, <1>3, <1>4, <1>5, <1>6, <1>7
    DEF Next, Z80Step, AvrStep, SelectGlu, GluAccess, ComAccess, DmaLaunch, DmaWrite, Sample,
        Int6, SoftReset

LEMMA RegTypesStep == TypeOK /\ [Next]_vars => RegTypes'
  <1> SUFFICES ASSUME AvrTypes, RegTypes, [Next]_vars PROVE RegTypes'
    BY DEF TypeOK
  <1> USE DEF RegTypes
  <1>1. CASE Prepare
    BY <1>1, Zero DEF Prepare, AfterRead, AvrTypes, Regs, Values
  <1>2. CASE ApplyWrite
    BY <1>2 DEF ApplyWrite, AvrTypes
  <1>3. CASE ZxInit \/ HardReset \/ SoftReset
    BY <1>3, Zero DEF ZxInit, HardReset, SoftReset, ComDefaults
  <1>4. CASE UNCHANGED <<regs, resets>>
    BY <1>4
  <1> QED
    BY <1>1, <1>2, <1>3, <1>4
    DEF Next, Z80Step, AvrStep, SelectGlu, GluAccess, ComAccess, DmaLaunch, DmaWrite, Sample,
        Int6, WaitTask, FetchStatus, FetchAddr, Exchange, ClearInts

LEMMA ShapeStep == TypeOK /\ Shape /\ [Next]_vars => Shape'
  <1> SUFFICES ASSUME TypeOK, Shape, [Next]_vars PROVE Shape'
    OBVIOUS
  <1> USE DEF Shape, Held, Idle, DmaWaits
  <1>1. ASSUME NEW a \in GluAddrs, SelectGlu(a) PROVE Shape'
    BY <1>1 DEF SelectGlu
  <1>2. ASSUME NEW rd \in BOOLEAN, NEW v \in Values, GluAccess(rd, v) PROVE Shape'
    BY <1>2 DEF GluAccess
  <1>3. ASSUME NEW rd \in BOOLEAN, NEW v \in Values, NEW a \in ComAddrs, ComAccess(rd, a, v)
        PROVE  Shape'
    BY <1>3 DEF ComAccess
  <1>4. ASSUME NEW d \in DmaDevs, NEW n \in 1 .. MaxWords, NEW a \in PortsOf(d), DmaLaunch(d, a, n)
        PROVE  Shape'
    BY <1>4 DEF DmaLaunch, MayAccess
  <1>5. CASE DmaWrite
    BY <1>5 DEF DmaWrite, TypeOK, DmaTypes
  <1>6. CASE FetchStatus
    BY <1>6 DEF FetchStatus
  <1>7. CASE Prepare
    BY <1>7 DEF Prepare
  <1>8. CASE Exchange
    <2>1. PICK seen \in BOOLEAN :
            /\ dma'.st = (IF DmaWaits /\ dma.bsel = 1 THEN "write" ELSE dma.st)
            /\ dma'.dev = dma.dev /\ dma'.words = dma.words /\ dma'.addr = dma.addr
            /\ (dma'.missed <=> AsksAgain /\ ~seen)
      BY <1>8, ExchangeTaken
    <2>2. dma'.missed => dma'.st = "read"
      BY <2>1 DEF AsksAgain
    <2>3. dma'.st # "idle" => dma'.words > 0 /\ dma'.addr \in PortsOf(dma'.dev)
      BY <2>1
    <2> QED
      BY <1>8, <2>2, <2>3 DEF Exchange, Return, Running
  <1>9. CASE ZxInit \/ SoftReset \/ HardReset
    <2>1. dma'.st = "idle" /\ dma'.missed = FALSE
      BY <1>9 DEF ZxInit, SoftReset, HardReset, FpgaReset, TypeOK, DmaTypes
    <2> QED
      BY <1>9, <2>1 DEF ZxInit, SoftReset, HardReset, FpgaReset, Running
  <1>10. CASE Sample \/ Int6 \/ WaitTask \/ FetchAddr \/ ClearInts \/ UNCHANGED vars
    BY <1>10 DEF Sample, Int6, WaitTask, FetchAddr, ClearInts
  <1>11. CASE ApplyWrite
    BY <1>11 DEF ApplyWrite, Return
  <1> QED
    BY <1>1, <1>2, <1>3, <1>4, <1>5, <1>6, <1>7, <1>8, <1>9, <1>10, <1>11
    DEF Next, Z80Step, AvrStep

\* Every variable keeps to its width and states, and the Z80, the flops and the
\* AVR's locals agree, whatever the Z80 program does.
THEOREM TypeCorrect == Spec => [](TypeOK /\ Shape)
  <1>1. TypeOK /\ Shape /\ [Next]_vars => TypeOK'
    BY CpuTypesStep, DmaTypesStep, IrqTypesStep, AvrTypesStep, RegTypesStep DEF TypeOK
  <1> QED
    BY <1>1, TypeInit, ShapeInit, ShapeStep, PTL DEF Spec

-----------------------------------------------------------------------------
(* The interrupt line                                                      *)

LEMMA LineServedStep ==
  ASSUME TypeOK, Shape, LineServed, [Next]_vars
  PROVE  LineServed'
  <1> USE DEF LineServed, SpiInt, DmaWaits, Armed, Serving, InService
  <1>1. CASE Z80Step
    BY <1>1 DEF Z80Step, SelectGlu, GluAccess, ComAccess, DmaLaunch, MayAccess, LineReady, Fall,
                Idle, Shape, TypeOK, DmaTypes
  <1>2. CASE DmaWrite
    BY <1>2 DEF DmaWrite, LineReady, Fall, Shape, TypeOK, DmaTypes
  <1>3. CASE Exchange
    <2>1. PICK seen \in BOOLEAN :
            /\ Pulse(seen)
            /\ dma'.st = (IF DmaWaits /\ dma.bsel = 1 THEN "write" ELSE dma.st)
            /\ (dma'.missed <=> AsksAgain /\ ~seen)
      BY <1>3, ExchangeTaken
    <2>2. dma.bsel \in {0, 1}
      BY DEF TypeOK, DmaTypes
    <2> QED
      BY <1>3, <2>1, <2>2 DEF Exchange, Pulse, AsksAgain
  <1>4. CASE ZxInit \/ SoftReset \/ HardReset
    BY <1>4 DEF ZxInit, SoftReset, HardReset, FpgaReset, TypeOK, DmaTypes
  <1>5. CASE \/ Int6 \/ Sample \/ WaitTask \/ FetchStatus \/ FetchAddr \/ Prepare
             \/ ClearInts \/ UNCHANGED vars
    BY <1>5 DEF Int6, Sample, WaitTask, FetchStatus, FetchAddr, Prepare, ClearInts
  <1>6. CASE ApplyWrite
    BY <1>6 DEF ApplyWrite, Return
  <1> QED
    BY <1>1, <1>2, <1>3, <1>4, <1>5, <1>6 DEF Next, AvrStep

\* INT6 is an edge interrupt with a flag that is cleared before the work: a low
\* interrupt line always has an event or a service to its name, also when the Z80
\* and the DMA use the ports at once, unless the AVR has missed the short pulse
\* between two bytes of the DMA.
THEOREM LineIsServed == Spec => []LineServed
  <1>1. Init => LineServed
    BY DEF Init, LineServed, Armed
  <1>2. TypeOK /\ Shape /\ LineServed /\ [Next]_vars => LineServed'
    BY LineServedStep
  <1> QED
    BY <1>1, <1>2, TypeCorrect, PTL DEF Spec

-----------------------------------------------------------------------------
(* A program that keeps the Z80's accesses and the DMA's apart             *)

LEMMA AloneStep ==
  ASSUME ~Shared, TypeOK, Shape, Alone, [Next]_vars
  PROVE  Alone'
  <1> USE DEF Alone, Held, Idle, InService
  <1>1. ASSUME NEW a \in GluAddrs, SelectGlu(a) PROVE Alone'
    BY <1>1 DEF SelectGlu
  <1>2. ASSUME NEW rd \in BOOLEAN, NEW v \in Values, GluAccess(rd, v) PROVE Alone'
    BY <1>2 DEF GluAccess, MayAccess
  <1>3. ASSUME NEW rd \in BOOLEAN, NEW v \in Values, NEW a \in ComAddrs, ComAccess(rd, a, v)
        PROVE  Alone'
    BY <1>3 DEF ComAccess, MayAccess
  <1>4. ASSUME NEW d \in DmaDevs, NEW n \in 1 .. MaxWords, NEW a \in PortsOf(d), DmaLaunch(d, a, n)
        PROVE  Alone'
    BY <1>4 DEF DmaLaunch, MayAccess
  <1>5. CASE DmaWrite
    BY <1>5 DEF DmaWrite, TypeOK, DmaTypes
  <1>6. CASE FetchStatus
    BY <1>6 DEF FetchStatus, StatusSrc, StatusRead, Shape, TypeOK, CpuTypes
  <1>7. CASE Exchange
    BY <1>7 DEF Exchange, Return, DmaTaken, Running, DmaWaits, TypeOK, DmaTypes
  <1>8. CASE ZxInit \/ SoftReset \/ HardReset
    BY <1>8 DEF ZxInit, SoftReset, HardReset, FpgaReset, Running, TypeOK, DmaTypes
  <1>9. CASE Sample \/ Int6 \/ WaitTask \/ FetchAddr \/ ClearInts \/ UNCHANGED vars
    BY <1>9 DEF Sample, Int6, WaitTask, FetchAddr, ClearInts
  <1>10. CASE Prepare
    BY <1>10 DEF Prepare
  <1>11. CASE ApplyWrite
    BY <1>11 DEF ApplyWrite, Return
  <1> QED
    BY <1>1, <1>2, <1>3, <1>4, <1>5, <1>6, <1>7, <1>8, <1>9, <1>10, <1>11
    DEF Next, Z80Step, AvrStep

LEMMA WakeupStep ==
  ASSUME ~Shared, TypeOK, Shape, Alone, NoLostWakeup, [Next]_vars
  PROVE  NoLostWakeup'
  <1> USE DEF NoLostWakeup, Held, ServesZ80Source
  <1>1. CASE Z80Step
    BY <1>1 DEF Z80Step, SelectGlu, GluAccess, ComAccess, DmaLaunch, MayAccess, LineReady, Fall,
                SpiInt, DmaWaits, Idle, Shape, TypeOK, CpuTypes
  <1>2. CASE DmaWrite
    BY <1>2 DEF DmaWrite, Alone, Idle
  <1>3. CASE FetchStatus
    BY <1>3 DEF FetchStatus, StatusSrc, StatusRead, DmaWaits, Alone, Shape, Idle
  <1>4. CASE Exchange
    BY <1>4 DEF Exchange, Running
  <1>5. CASE ZxInit \/ SoftReset \/ HardReset
    BY <1>5 DEF ZxInit, SoftReset, HardReset, FpgaReset, Running
  <1>6. CASE Int6 \/ Sample \/ WaitTask \/ FetchAddr \/ Prepare \/ ClearInts \/ UNCHANGED vars
    BY <1>6 DEF Int6, Sample, WaitTask, FetchAddr, Prepare, ClearInts
  <1>7. CASE ApplyWrite
    BY <1>7 DEF ApplyWrite, Return
  <1> QED
    BY <1>1, <1>2, <1>3, <1>4, <1>5, <1>6, <1>7 DEF Next, AvrStep

LEMMA OneEventStep ==
  ASSUME ~Shared, TypeOK, Shape, Alone, OneEvent, [Next]_vars
  PROVE  OneEvent'
  <1> USE DEF OneEvent, Armed, Serving, InService, SpiInt, DmaWaits
  <1>1. CASE Z80Step
    BY <1>1 DEF Z80Step, SelectGlu, GluAccess, ComAccess, DmaLaunch, MayAccess, Fall,
                Idle, Shape, TypeOK, CpuTypes
  <1>2. CASE DmaWrite
    BY <1>2 DEF DmaWrite, Fall, Alone, Idle, Held, Shape, TypeOK, CpuTypes, DmaTypes
  <1>3. CASE Exchange
    <2>1. PICK seen \in BOOLEAN :
            /\ Pulse(seen)
            /\ dma'.st = (IF DmaWaits /\ dma.bsel = 1 THEN "write" ELSE dma.st)
      BY <1>3, ExchangeTaken
    <2>2. dma.bsel \in {0, 1}
      BY DEF TypeOK, DmaTypes
    <2> QED
      BY <1>3, <2>1, <2>2 DEF Exchange, Return, Pulse, AsksAgain
  <1>4. CASE ZxInit \/ SoftReset \/ HardReset
    BY <1>4 DEF ZxInit, SoftReset, HardReset, FpgaReset, TypeOK, DmaTypes
  <1>5. CASE \/ Int6 \/ Sample \/ WaitTask \/ FetchStatus \/ FetchAddr \/ Prepare
             \/ ClearInts \/ UNCHANGED vars
    BY <1>5 DEF Int6, Sample, WaitTask, FetchStatus, FetchAddr, Prepare, ClearInts
  <1>6. CASE ApplyWrite
    BY <1>6 DEF ApplyWrite, Return
  <1> QED
    BY <1>1, <1>2, <1>3, <1>4, <1>5, <1>6 DEF Next, AvrStep

\* An access cannot begin in the middle of a service.
LEMMA NoAccessInService ==
  ASSUME ~Shared, TypeOK, Shape, OneEvent, Fresh, MayAccess
  PROVE  ~InService
  <1>1. ~SpiInt
    BY DEF MayAccess, SpiInt, DmaWaits, Idle, Shape, TypeOK, CpuTypes
  <1> QED
    BY <1>1 DEF MayAccess, OneEvent, Fresh, Quiet, Armed, Serving, InService

LEMMA CpuServiceStep ==
  ASSUME ~Shared, TypeOK, Shape, Alone, OneEvent, CpuService, [Next]_vars
  PROVE  CpuService'
  <1> USE DEF CpuService, ServesZ80, ServesZ80Source, Held, InService, Fresh
  <1>1. CASE \E a \in GluAddrs : SelectGlu(a)
    BY <1>1 DEF SelectGlu
  <1>2. ASSUME NEW rd \in BOOLEAN, NEW v \in Values, GluAccess(rd, v) PROVE CpuService'
    BY <1>2, NoAccessInService DEF GluAccess
  <1>3. ASSUME NEW rd \in BOOLEAN, NEW v \in Values, NEW a \in ComAddrs, ComAccess(rd, a, v)
        PROVE  CpuService'
    BY <1>3, NoAccessInService DEF ComAccess
  <1>4. CASE \E d \in DmaDevs, n \in 1 .. MaxWords : \E a \in PortsOf(d) : DmaLaunch(d, a, n)
    BY <1>4 DEF DmaLaunch, MayAccess
  <1>5. CASE FetchStatus
    <2> SUFFICES ASSUME Held PROVE CpuService'
      BY <1>5 DEF FetchStatus
    <2>1. StatusSrc = z80.src /\ StatusRead = z80.rd
      BY DEF StatusSrc, StatusRead, DmaWaits, Alone, Idle, Shape
    <2>2. z80.src \in {"glu", "com"} /\ waitAddr \in Ports
      BY DEF TypeOK, CpuTypes, Srcs, Ports
    <2>3. ServesZ80Source'
      BY <1>5, <2>1 DEF FetchStatus
    <2>4. CASE z80.src = "com"
      BY <1>5, <2>1, <2>3, <2>4, ComCode DEF FetchStatus, Register, Shape
    <2>5. CASE z80.src = "glu"
      BY <1>5, <2>1, <2>2, <2>3, <2>5, GluCode, PortsFit DEF FetchStatus, Register, StatusAddr
    <2> QED
      BY <2>2, <2>4, <2>5
  <1>6. CASE FetchAddr
    BY <1>6 DEF FetchAddr, Shape, Register
  <1>7. CASE Prepare
    BY <1>7 DEF Prepare
  <1>8. CASE Exchange
    BY <1>8 DEF Exchange, Running
  <1>9. CASE ZxInit \/ SoftReset \/ HardReset
    BY <1>9 DEF ZxInit, SoftReset, HardReset, FpgaReset, Running
  <1>10. CASE Int6 \/ Sample \/ WaitTask \/ ClearInts \/ DmaWrite \/ UNCHANGED vars
    BY <1>10 DEF Int6, Sample, WaitTask, ClearInts, DmaWrite
  <1>11. CASE ApplyWrite
    BY <1>11 DEF ApplyWrite, Return
  <1> QED
    BY <1>1, <1>2, <1>3, <1>4, <1>5, <1>6, <1>7, <1>8, <1>9, <1>10, <1>11
    DEF Next, Z80Step, AvrStep

LEMMA DmaServiceStep ==
  ASSUME ~Shared, TypeOK, Shape, Alone, OneEvent, DmaService, [Next]_vars
  PROVE  DmaService'
  <1> USE DEF DmaService, ServesDma, DmaWaits, Idle, InService
  <1>1. CASE \E a \in GluAddrs : SelectGlu(a)
    BY <1>1 DEF SelectGlu
  <1>2. ASSUME NEW rd \in BOOLEAN, NEW v \in Values, GluAccess(rd, v) PROVE DmaService'
    BY <1>2 DEF GluAccess, MayAccess
  <1>3. ASSUME NEW rd \in BOOLEAN, NEW v \in Values, NEW a \in ComAddrs, ComAccess(rd, a, v)
        PROVE  DmaService'
    BY <1>3 DEF ComAccess, MayAccess
  <1>4. ASSUME NEW d \in DmaDevs, NEW n \in 1 .. MaxWords, NEW a \in PortsOf(d), DmaLaunch(d, a, n)
        PROVE  DmaService'
    BY <1>4, NoAccessInService DEF DmaLaunch, Fresh
  <1>5. CASE DmaWrite
    BY <1>5 DEF DmaWrite
  <1>6. CASE FetchStatus
    <2> SUFFICES ASSUME ~cut, ~Idle PROVE DmaService'
      BY <1>6 DEF FetchStatus
    <2>1. DmaWaits
      BY <1>6
      DEF OneEvent, Armed, Serving, FetchStatus, SpiInt, Alone, Held, Shape, TypeOK, CpuTypes
    <2>2. StatusSrc = dma.dev /\ StatusRead /\ waitAddr = dma.addr
      BY <2>1 DEF StatusSrc, StatusRead, Alone
    <2>3. dma.dev \in Srcs /\ waitAddr \in Ports /\ dma.addr \in PortsOf(dma.dev)
      BY DEF TypeOK, CpuTypes, DmaTypes, Ports, Shape
    <2>4. CASE dma.dev = "com"
      BY <1>6, <2>1, <2>2, <2>3, <2>4, ComCode DEF FetchStatus, Register, PortsOf
    <2>5. CASE dma.dev = "glu"
      BY <1>6, <2>1, <2>2, <2>3, <2>5, GluCode, PortsFit DEF FetchStatus, Register, StatusAddr
    <2>6. CASE dma.dev = "none"
      BY <1>6, <2>1, <2>2, <2>6 DEF FetchStatus
    <2> QED
      BY <2>3, <2>4, <2>5, <2>6 DEF Srcs
  <1>7. CASE FetchAddr
    BY <1>7 DEF FetchAddr, Shape, Register, Alone
  <1>8. CASE Prepare
    BY <1>8 DEF Prepare
  <1>9. CASE Exchange
    BY <1>9 DEF Exchange, Return
  <1>10. CASE ZxInit \/ SoftReset \/ HardReset
    BY <1>10 DEF ZxInit, SoftReset, HardReset
  <1>11. CASE Int6 \/ Sample \/ WaitTask \/ ClearInts \/ UNCHANGED vars
    BY <1>11 DEF Int6, Sample, WaitTask, ClearInts
  <1>12. CASE ApplyWrite
    BY <1>12 DEF ApplyWrite, Return
  <1> QED
    BY <1>1, <1>2, <1>3, <1>4, <1>5, <1>6, <1>7, <1>8, <1>9, <1>10, <1>11, <1>12
    DEF Next, Z80Step, AvrStep

LEMMA DmaBytesStep ==
  ASSUME ~Shared, TypeOK, DmaService, DmaBytesOwn, [Next]_vars
  PROVE  DmaBytesOwn'
  <1> USE DEF DmaBytesOwn
  <1>1. CASE Exchange
    BY <1>1 DEF Exchange, DmaTaken, DmaService, InService, TypeOK, DmaTypes
  <1>2. CASE DmaWrite
    BY <1>2 DEF DmaWrite, TypeOK, DmaTypes
  <1>3. CASE ZxInit \/ SoftReset \/ HardReset
    BY <1>3 DEF ZxInit, SoftReset, HardReset, FpgaReset, TypeOK, DmaTypes
  <1>4. CASE Z80Step
    BY <1>4 DEF Z80Step, SelectGlu, GluAccess, ComAccess, DmaLaunch
  <1>5. CASE UNCHANGED <<dma, cut>>
    BY <1>5
  <1> QED
    BY <1>1, <1>2, <1>3, <1>4, <1>5
    DEF Next, AvrStep, Sample, Int6, WaitTask, FetchStatus, FetchAddr, Prepare, ApplyWrite,
        ClearInts

LEMMA Inductive ==
  ASSUME ~Shared
  PROVE  Spec => []IInv
  <1>1. Init => IInv
    BY TypeInit, ShapeInit
    DEF Init, IInv, Alone, NoLostWakeup, OneEvent, CpuService, DmaService, DmaBytesOwn, Armed,
        InService, Held, Idle, Running
  <1>2. IInv /\ [Next]_vars => IInv'
    BY CpuTypesStep, DmaTypesStep, IrqTypesStep, AvrTypesStep, RegTypesStep, ShapeStep, AloneStep,
       WakeupStep, OneEventStep, CpuServiceStep, DmaServiceStep, DmaBytesStep DEF IInv, TypeOK
  <1> QED
    BY <1>1, <1>2, PTL DEF Spec

\* The types, and that no wake-up is lost: a held Z80 has an event that will
\* start a service, or a service of its source and direction under way.
THEOREM WakeupsAreKept ==
  ASSUME ~Shared
  PROVE  Spec => []Inv
  <1>1. IInv => Inv
    BY DEF IInv, Inv
  <1> QED
    BY <1>1, Inductive, PTL

\* If the Z80 begins no access while another is served, the end of an SPI
\* transfer that releases it is the end of the service of its own access.
THEOREM ServiceIsOwn ==
  ASSUME ~Shared, Quiet
  PROVE  Spec => []AnsweredByOwnService
  <1>1. IInv => AnsweredByOwnService
    BY DEF IInv, CpuService, Fresh, InService, AnsweredByOwnService
  <1> QED
    BY <1>1, Inductive, PTL

\* Without that hypothesis the same holds until a reset has cut off an access or
\* left its event behind: only a stale event can let the AVR look early.
THEOREM ServiceIsOwnUncut ==
  ASSUME ~Shared
  PROVE  Spec => [](cut \/ AnsweredByOwnService)
  <1>1. IInv => cut \/ AnsweredByOwnService
    BY DEF IInv, CpuService, Fresh, InService, AnsweredByOwnService
  <1> QED
    BY <1>1, Inductive, PTL

\* Each byte of a DMA transfer was fetched for it, from its register.
THEOREM DmaBytesAreOwn ==
  ASSUME ~Shared
  PROVE  Spec => []DmaBytesOwn
  <1>1. IInv => DmaBytesOwn
    BY DEF IInv
  <1> QED
    BY <1>1, Inductive, PTL

-----------------------------------------------------------------------------
(* The refinement of PortService                                           *)



\* The values WaitPort gives the variables of PortService.
reqBar == IF Held
          THEN [reg |-> Register(z80.src, waitAddr), rd |-> z80.rd, val |-> z80.val]
          ELSE [reg |-> <<"none", 0>>, rd |-> FALSE, val |-> 0]
answerBar == IF ReadDone THEN data ELSE got
regsBar == IF pc = "write" THEN [regs EXCEPT ![<<sts.src, addr>>] = data] ELSE regs



LEMMA RegisterInRegs ==
  ASSUME NEW src \in Srcs \ {"none"}, NEW a \in Ports
  PROVE  Register(src, a) \in Regs
  BY PortsFit DEF Srcs, Register, Regs

LEMMA NotRequesting == ASSUME ~Held PROVE reqBar = Service!NoReq
  BY DEF reqBar, Service!NoReq

LEMMA Requesting == ASSUME TypeOK, Held PROVE reqBar # Service!NoReq
  <1>1. reqBar.reg \in Regs
    BY RegisterInRegs DEF reqBar, TypeOK, CpuTypes, Ports, Held
  <1>2. Service!NoReq.reg = <<"none", 0>>
    BY DEF Service!NoReq
  <1> QED
    BY <1>1, <1>2 DEF Regs

LEMMA RefinementStep ==
  ASSUME Quiet, IInv, IInv', [Next]_vars
  PROVE  [Service!SNext]_(Service!svars)
  <1> SUFFICES ASSUME Next
               PROVE Service!SNext \/ UNCHANGED <<reqBar, ReadDone, answerBar, regsBar>>
    BY DEF Service!svars, reqBar, answerBar, regsBar, ReadDone, Held, Register
  <1>0. TypeOK /\ TypeOK' /\ Shape /\ Alone
    BY DEF IInv
  <1>1. ASSUME MayAccess, Held', UNCHANGED <<got, avr, regs>>
        PROVE  Service!SRequest
    <2>1. ~Held /\ ReadDone = FALSE /\ ReadDone' = FALSE
      BY <1>1 DEF MayAccess, Held, ReadDone, Quiet
    <2>2. Register(z80'.src, waitAddr') \in Regs
      BY <1>0, <1>1, RegisterInRegs DEF TypeOK, CpuTypes, Held, Ports
    <2>3. reqBar = Service!NoReq /\ reqBar' \in Service!Requests
      BY <1>0, <1>1, <2>1, <2>2, NotRequesting
      DEF reqBar, TypeOK, CpuTypes, Service!Requests, Service!Values, Values
    <2>4. answerBar' = answerBar /\ regsBar' = regsBar
      BY <1>1, <2>1 DEF answerBar, regsBar
    <2> QED
      BY <2>1, <2>3, <2>4 DEF Service!SRequest, reqBar, answerBar, regsBar
  <1>2. ASSUME NEW a \in GluAddrs, SelectGlu(a)
        PROVE  UNCHANGED <<reqBar, ReadDone, answerBar, regsBar>>
    BY <1>2 DEF SelectGlu, reqBar, answerBar, regsBar, ReadDone, Held
  <1>3. ASSUME NEW d, NEW n, NEW a, DmaLaunch(d, a, n)
        PROVE  UNCHANGED <<reqBar, ReadDone, answerBar, regsBar>>
    BY <1>3 DEF DmaLaunch, MayAccess, reqBar, answerBar, regsBar, ReadDone, Held
  <1>4. CASE DmaWrite \/ Sample \/ Int6
    BY <1>4 DEF DmaWrite, Sample, Int6, reqBar, answerBar, regsBar, ReadDone, Held
  <1>5. CASE WaitTask \/ FetchStatus \/ FetchAddr \/ ClearInts
    BY <1>5
    DEF WaitTask, FetchStatus, FetchAddr, ClearInts, reqBar, answerBar, regsBar, ReadDone, Held
  <1>6. CASE Prepare
    <2>1. /\ reqBar' = reqBar /\ regsBar = regs /\ regsBar' = regs'
          /\ ReadDone = FALSE /\ ReadDone' = (Held /\ z80.rd)
      BY <1>6 DEF Prepare, reqBar, regsBar, ReadDone, Held
    <2>2. CASE Held /\ z80.rd
      <3>1. /\ sts.rd /\ sts.src = z80.src /\ sts.src # "none"
            /\ <<sts.src, addr>> = Register(z80.src, waitAddr)
        BY <1>0, <1>6, <2>2
        DEF IInv, CpuService, Fresh, Quiet, InService, ServesZ80, ServesZ80Source, Prepare,
            Held, TypeOK, CpuTypes
      <3>2. answerBar' = regs[reqBar.reg] /\ regs' = AfterRead(reqBar.reg, regs)
        BY <1>6, <2>1, <2>2, <3>1 DEF Prepare, answerBar, reqBar
      <3>3. Service!SExecuteRead
        BY <2>1, <2>2, <3>2, <1>0, Requesting
        DEF Service!SExecuteRead, reqBar, answerBar, regsBar, Service!AfterRead, AfterRead
      <3> QED
        BY <3>3 DEF Service!SNext
    <2>3. CASE ~Held /\ sts.rd /\ sts.src # "none"
      <3>1. <<sts.src, addr>> \in Regs
        BY <1>0, <2>3 DEF TypeOK, AvrTypes, Regs, Srcs
      <3>2. regs' = AfterRead(<<sts.src, addr>>, regs) /\ answerBar' = answerBar
        BY <1>6, <2>3, <2>1 DEF Prepare, answerBar, ReadDone
      <3>3. Service!SDmaRead
        BY <2>1, <2>3, <3>1, <3>2, NotRequesting
        DEF Service!SDmaRead, reqBar, answerBar, regsBar, Service!AfterRead, AfterRead, ReadDone
      <3> QED
        BY <3>3 DEF Service!SNext
    <2>4. CASE ~(Held /\ z80.rd) /\ ~(~Held /\ sts.rd /\ sts.src # "none")
      <3>1. ~(sts.rd /\ sts.src # "none")
        BY <1>0, <1>6, <2>4 DEF IInv, CpuService, Fresh, Quiet, InService, ServesZ80Source, Prepare
      <3>2. ReadDone' = FALSE /\ got' = got /\ regs' = regs
        BY <1>6, <2>1, <2>4, <3>1 DEF Prepare
      <3> QED
        BY <2>1, <3>2 DEF answerBar
    <2> QED
      BY <2>2, <2>3, <2>4
  <1>7. CASE Exchange
    <2>1. /\ reqBar' = Service!NoReq /\ ReadDone' = FALSE /\ answerBar' = got'
          /\ regsBar = regs /\ regs' = regs
      BY <1>7 DEF Exchange, Running, reqBar, answerBar, regsBar, ReadDone, Held, Service!NoReq
    <2>2. CASE Held
      <3>1. /\ sts.rd = z80.rd /\ sts.src = z80.src /\ sts.src # "none"
            /\ <<sts.src, addr>> = Register(z80.src, waitAddr)
        BY <1>0, <1>7, <2>2
        DEF IInv, CpuService, Fresh, Quiet, InService, ServesZ80, ServesZ80Source, Exchange,
            Held, TypeOK, CpuTypes
      <3>2. CASE z80.rd
        <4>1. ReadDone /\ answerBar' = answerBar /\ regsBar' = regs
          BY <1>7, <2>1, <2>2, <3>1, <3>2 DEF Exchange, Return, ReadDone, answerBar, regsBar
        <4>2. Service!SReleaseRead
          BY <2>1, <4>1 DEF Service!SReleaseRead, reqBar, answerBar, regsBar
        <4> QED
          BY <4>2 DEF Service!SNext
      <3>3. CASE ~z80.rd
        <4>1. ReadDone = FALSE /\ answerBar' = answerBar
          BY <1>7, <2>1, <2>2, <3>1, <3>3 DEF Exchange, ReadDone, answerBar
        <4>2. regsBar' = [regs EXCEPT ![reqBar.reg] = reqBar.val]
          BY <1>0, <1>7, <2>1, <2>2, <3>1, <3>3 DEF Exchange, regsBar, reqBar, Shape
        <4>3. reqBar # Service!NoReq /\ ~reqBar.rd
          BY <1>0, <2>2, <3>3, Requesting DEF reqBar
        <4>4. Service!SReleaseWrite
          BY <2>1, <4>1, <4>2, <4>3 DEF Service!SReleaseWrite, reqBar, answerBar, regsBar
        <4> QED
          BY <4>4 DEF Service!SNext
      <3> QED
        BY <3>2, <3>3
    <2>3. CASE ~Held
      <3>1. sts.rd \/ sts.src = "none"
        BY <1>0, <1>7, <2>3 DEF Alone, InService, Exchange
      <3>2. pc' = "loop" /\ got' = got
        BY <1>7, <2>3, <3>1 DEF Exchange, Return
      <3> QED
        BY <2>1, <2>3, <3>2, NotRequesting DEF answerBar, regsBar, ReadDone
    <2> QED
      BY <2>2, <2>3
  <1>8. CASE ApplyWrite
    BY <1>8 DEF ApplyWrite, Return, reqBar, answerBar, regsBar, ReadDone, Held
  <1>9. CASE ZxInit \/ SoftReset \/ HardReset
    <2>1. /\ ReadDone = FALSE /\ ReadDone' = FALSE /\ reqBar' = Service!NoReq
          /\ answerBar' = answerBar /\ regsBar = regs /\ regsBar' = regs'
      BY <1>9
      DEF ZxInit, SoftReset, HardReset, FpgaReset, Running, reqBar, answerBar, regsBar, ReadDone,
          Held, Service!NoReq
    <2>2. regs' = regs \/ regs' = [r \in Regs |-> IF r[1] = "com" THEN 0 ELSE regs[r]]
      BY <1>9 DEF ZxInit, SoftReset, HardReset, ComDefaults
    <2>3. Service!SReset
      BY <2>1, <2>2 DEF Service!SReset, reqBar, answerBar, regsBar
    <2> QED
      BY <2>3 DEF Service!SNext
  <1>10. ASSUME NEW rd, NEW v, GluAccess(rd, v) PROVE Service!SNext
    BY <1>1, <1>10 DEF GluAccess, Held, Service!SNext
  <1>11. ASSUME NEW rd, NEW v, NEW a, ComAccess(rd, a, v) PROVE Service!SNext
    BY <1>1, <1>11 DEF ComAccess, Held, Service!SNext
  <1> QED
    BY <1>2, <1>3, <1>4, <1>5, <1>6, <1>7, <1>8, <1>9, <1>10, <1>11 DEF Next, Z80Step, AvrStep

LEMMA RefinementInit == Init => Service!SInit
  <1> SUFFICES ASSUME Init PROVE Service!SInit
    OBVIOUS
  <1>1. ~Held /\ ReadDone = FALSE /\ pc # "write"
    BY DEF Init, Held, Running, ReadDone
  <1> QED
    BY <1>1, Zero DEF Init, Service!SInit, Service!NoReq, Service!Values, Values

\* Seen from the Z80 the wait ports execute each access once, in order, and
\* answer a read with the register's value.
THEOREM Refinement ==
  ASSUME ~Shared, Quiet
  PROVE  Spec => ImplementsPortService
  <1>1. IInv /\ IInv' /\ [Next]_vars => [Service!SNext]_(Service!svars)
    BY RefinementStep
  <1> QED
    BY <1>1, RefinementInit, Inductive, PTL DEF Spec, ImplementsPortService, Service!SSpec

=============================================================================
