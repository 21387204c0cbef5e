------------------------------- MODULE UartRx -------------------------------
(***************************************************************************)
(* The receive side of the AVR's serial port (rs232.c, rs232_asm.S).  The  *)
(* USART's interrupt puts bytes into a ring of 512; the main loop takes    *)
(* them out when the Z80 reads a data register, through the Kondratyev     *)
(* registers (with the line status LSR) or the ZiFi ones (with the number  *)
(* of waiting bytes, IFR).  The main loop's accesses are split where the   *)
(* interrupt can come between: the AVR stores the 16 bits of rs_rx_tl one  *)
(* byte at a time, and LSR is read, changed and written.  The ZiFi port's  *)
(* ring is the same without LSR.                                           *)
(***************************************************************************)
EXTENDS Naturals, Sequences, SequencesExt

CONSTANTS
  Half,        \* numbers a pointer's low byte holds; the ring has twice as many
  Bytes,       \* byte values
  NoByte,      \* what an empty ring gives
  IfrLim       \* ZF_DR_REG_LIM, the most IFR says

ASSUME RxAssumption ==
  /\ Half \in Nat \ {0}
  /\ IfrLim \in Nat
  /\ NoByte \notin Bytes

Size == 2 * Half

VARIABLES
  buf,         \* rs_rxbuff
  hd,          \* rs_rx_hd, where the interrupt writes next
  tl,          \* rs_rx_tl as it is in memory
  dr,          \* bit 0 of rs232_LSR: data ready
  oe,          \* bit 1: overrun
  pc,          \* where the main loop is in the access
  kond,        \* the access is through the Kondratyev registers
  tmp,         \* the copy of rs_rx_hd that rs232_zx_read() took
  tlNew,       \* what it is storing into rs_rx_tl
  copy,        \* dr and oe as it has read them from LSR
  data,        \* its answer
  owed,        \* history: bytes that an IFR value promises
  lost         \* history: parity of the number of bytes dropped

ring  == <<buf, hd>>
lsr   == <<dr, oe>>
local == <<pc, kond, tmp, tlNew, copy>>
hist  == <<owed, lost>>
vars  == <<ring, tl, lsr, local, data, hist>>

Indices == 0 .. Size - 1

Next1(i) == (i + 1) % Size

Used(h, t) == (h + Size - t) % Size

\* (rs_rx_tl - 1) & 0x1ff equals rs_rx_hd.
Full == (tl + Size - 1) % Size = hd

-----------------------------------------------------------------------------
(* USART1_RX_vect                                                          *)

\* Between the two stores of rs_rx_tl the interrupt comes at most once: the
\* AVR executes one instruction after the return from an interrupt.
Store(p) == IF p = "torn" THEN "tornOnce" ELSE p

Rx(b) ==
  /\ pc # "tornOnce"
  /\ pc' = Store(pc)
  /\ dr' = TRUE
  /\ IF Full
     THEN oe' = TRUE /\ lost' = 1 - lost /\ UNCHANGED ring
     ELSE buf' = [buf EXCEPT ![hd] = b] /\ hd' = Next1(hd) /\ UNCHANGED <<oe, lost>>
  /\ UNCHANGED <<tl, kond, tmp, tlNew, copy, data, owed>>

-----------------------------------------------------------------------------
(* rs232_zx_read(), data registers                                         *)

\* The access ends and its local variables are gone.
Return ==
  /\ pc' = "loop"
  /\ kond' = FALSE
  /\ tmp' = 0
  /\ tlNew' = 0
  /\ copy' = <<FALSE, FALSE>>

\* A Kondratyev read goes on with LSR.
ReadDone ==
  IF kond THEN pc' = "flag" /\ UNCHANGED <<kond, tmp, tlNew, copy>> ELSE Return

\* The atomic block copies rs_rx_hd.
BeginRead(k) ==
  /\ pc = "loop"
  /\ kond' = k
  /\ tmp' = hd
  /\ pc' = "test"
  /\ UNCHANGED <<ring, tl, lsr, tlNew, copy, data, hist>>

Take ==
  /\ pc = "test"
  /\ tl # tmp
  /\ data' = buf[tl]
  /\ tlNew' = Next1(tl)
  /\ pc' = "store"
  /\ owed' = IF owed = 0 THEN 0 ELSE owed - 1
  /\ UNCHANGED <<ring, tl, lsr, kond, tmp, copy, lost>>

TakeNothing ==
  /\ pc = "test"
  /\ tl = tmp
  /\ data' = NoByte
  /\ ReadDone
  /\ UNCHANGED <<ring, tl, lsr, hist>>

\* One of the two bytes of rs_rx_tl is new; the compiler chooses the order.
StoreFirst ==
  /\ pc = "store"
  /\ pc' = "torn"
  /\ tl' \in {(tlNew \div Half) * Half + (tl % Half), (tl \div Half) * Half + (tlNew % Half)}
  /\ UNCHANGED <<ring, lsr, kond, tmp, tlNew, copy, data, hist>>

StoreRest ==
  /\ pc \in {"torn", "tornOnce"}
  /\ tl' = tlNew
  /\ ReadDone
  /\ UNCHANGED <<ring, lsr, data, hist>>

\* "set empty FIFO flag": the test uses the copy of rs_rx_hd; then LSR is
\* read ...
FlagRead ==
  /\ pc = "flag"
  /\ IF tl = tmp
     THEN pc' = "rmw" /\ copy' = lsr /\ UNCHANGED <<kond, tmp, tlNew>>
     ELSE Return
  /\ UNCHANGED <<ring, tl, lsr, data, hist>>

\* ... and written.
FlagWrite ==
  /\ pc = "rmw"
  /\ dr' = FALSE
  /\ oe' = copy[2]
  /\ Return
  /\ UNCHANGED <<ring, tl, data, hist>>

-----------------------------------------------------------------------------
(* The other registers                                                     *)

AtMost(n, m) == IF n < m THEN n ELSE m

\* Mutant: read_rs_ifr() without its atomic block: the interrupt can change
\* rs_rx_hd between its two bytes.
ReadIfrTorn ==
  /\ pc = "loop"
  /\ \E h \in {hd, (Next1(hd) \div Half) * Half + (hd % Half)} :
       owed' = AtMost(Used(h, tl), IfrLim)
  /\ UNCHANGED <<ring, tl, lsr, local, data, lost>>

\* RS_IFR: how many bytes wait.
ReadIfr ==
  /\ pc = "loop"
  /\ owed' = AtMost(Used(hd, tl), IfrLim)
  /\ UNCHANGED <<ring, tl, lsr, local, data, lost>>

\* The CLRFIFO command for the input, in an atomic block.
ClrFifo ==
  /\ pc = "loop"
  /\ hd' = 0
  /\ tl' = 0
  /\ owed' = 0
  /\ UNCHANGED <<buf, lsr, local, data, lost>>

FcrHeadOnly ==          \* mutant: only the head is set back
  /\ pc = "loop"
  /\ hd' = 0
  /\ dr' = FALSE
  /\ oe' = FALSE
  /\ owed' = 0
  /\ UNCHANGED <<buf, tl, local, data, lost>>

\* FCR with bits 0 and 1, in an atomic block.
FcrReset ==
  /\ pc = "loop"
  /\ hd' = 0
  /\ tl' = 0
  /\ dr' = FALSE
  /\ oe' = FALSE
  /\ owed' = 0
  /\ UNCHANGED <<buf, local, data, lost>>

-----------------------------------------------------------------------------
Init ==
  /\ \E b \in Bytes : buf = [i \in Indices |-> b]
  /\ hd = 0
  /\ tl = 0
  /\ dr = FALSE
  /\ oe = FALSE
  /\ pc = "loop"
  /\ kond = FALSE
  /\ tmp = 0
  /\ tlNew = 0
  /\ copy = <<FALSE, FALSE>>
  /\ data = NoByte
  /\ owed = 0
  /\ lost = 0

Access ==
  \/ Take \/ TakeNothing \/ StoreFirst \/ StoreRest \/ FlagRead \/ FlagWrite

Next ==
  \/ \E b \in Bytes : Rx(b)
  \/ \E k \in BOOLEAN : BeginRead(k)
  \/ Access
  \/ ReadIfr \/ ClrFifo \/ FcrReset

Spec == Init /\ [][Next]_vars

-----------------------------------------------------------------------------
(* Properties                                                              *)

IndexTypes ==
  /\ hd \in Indices /\ tl \in Indices
  /\ tmp \in Indices /\ tlNew \in Indices

DataTypes ==
  /\ buf \in [Indices -> Bytes]
  /\ data \in Bytes \cup {NoByte}
  /\ owed \in 0 .. IfrLim
  /\ lost \in {0, 1}

FlagTypes ==
  /\ dr \in BOOLEAN /\ oe \in BOOLEAN /\ kond \in BOOLEAN
  /\ copy \in BOOLEAN \X BOOLEAN

PcTypes == pc \in {"loop", "test", "store", "torn", "tornOnce", "flag", "rmw"}

\* Indices stay inside the ring and each variable in its type.
TypeOK == IndexTypes /\ DataTypes /\ FlagTypes /\ PcTypes

\* Where the next byte is, whatever half of rs_rx_tl has been stored.
Tail1 == IF pc \in {"store", "torn", "tornOnce"} THEN tlNew ELSE tl

\* A program that reads IFR may read as many bytes: each of them is there,
\* whatever the interrupt does meanwhile.
IfrKept ==
  /\ owed <= Used(hd, Tail1)
  /\ pc = "test" /\ owed > 0 => tl # tmp

\* The types, and that IFR's promise is kept.
Inv == TypeOK /\ IfrKept

\* The ring with its interrupts is a queue.  It refuses a byte only when
\* Half - 2 wait: between the two stores the pointer may be off by Half.
Queue == INSTANCE ByteFifo WITH
  queue <- [i \in 1 .. Used(hd, Tail1) |-> buf[(Tail1 + i - 1) % Size]],
  out <- IF pc = "test" /\ tl = tmp THEN NoByte ELSE data,
  Capacity <- Size - 1,
  DropFrom <- Half - 2

ImplementsQueue == Queue!FSpec

=============================================================================
