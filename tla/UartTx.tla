------------------------------- MODULE UartTx -------------------------------
(***************************************************************************)
(* The transmit side of the AVR's RS-232 port (rs232.c, rs232_asm.S): the  *)
(* main loop puts bytes into a ring of 256 and enables the interrupt of    *)
(* the empty data register, which takes them out and disables itself when  *)
(* it finds the ring empty.  UCSR1B and LSR are read, changed and written  *)
(* by the main loop with the interrupt possible in between.  The ZiFi      *)
(* port's transmitter is the same without LSR.                             *)
(***************************************************************************)
EXTENDS Naturals, Sequences

CONSTANTS
  Size,        \* places of the ring, 256
  Bytes,       \* byte values
  NoByte       \* nothing sent yet

\* What the instances of this module assume of the constants.
TxAssumption ==
  /\ Size \in Nat /\ Size >= 4
  /\ NoByte \notin Bytes

VARIABLES
  buf,         \* rs_txbuff
  hd,          \* rs_tx_hd, where the main loop writes next
  tl,          \* rs_tx_tl, what the interrupt takes next
  udrie,       \* UDRIE1 in UCSR1B
  udr,         \* places in the USART: 2, 1 or 0 (data and shift register)
  thre,        \* bit 5 of rs232_LSR: room for a byte
  pc,          \* where the main loop is
  lsrCopy,     \* thre as the main loop has read it
  window,      \* UDRE interrupts since it read it
  data,        \* the last byte given to the USART
  lost         \* history: parity of the number of bytes refused

ring == <<buf, hd, tl>>
vars == <<ring, udrie, udr, thre, pc, lsrCopy, window, data, lost>>

Indices == 0 .. Size - 1

Next1(i) == (i + 1) % Size
Used == (hd + Size - tl) % Size

\* (rs_tx_tl - 1 - rs_tx_hd) & 0xff is zero.
Full == (tl + Size - 1) % Size = hd

-----------------------------------------------------------------------------
(* The USART                                                               *)

\* A byte leaves the shift register.
Shifted ==
  /\ udr < 2
  /\ udr' = udr + 1
  /\ UNCHANGED <<ring, udrie, thre, pc, lsrCopy, window, data, lost>>

\* While the main loop changes LSR, microseconds, at most two bytes go: the
\* USART holds two.
Window == IF pc \in {"fullWrite", "readWrite"} THEN window + 1 ELSE 0

CanInterrupt == udrie /\ udr > 0 /\ (pc \in {"fullWrite", "readWrite"} => window < 2)

\* Mutant: LSR is set only when the ring is found empty.
UdreSendNoFlag ==
  /\ CanInterrupt
  /\ hd # tl
  /\ data' = buf[tl]
  /\ tl' = Next1(tl)
  /\ udr' = udr - 1
  /\ window' = Window
  /\ UNCHANGED <<buf, hd, udrie, thre, pc, lsrCopy, lost>>

\* USART1_UDRE_vect with a byte in the ring.
UdreSend ==
  /\ CanInterrupt
  /\ hd # tl
  /\ data' = buf[tl]
  /\ tl' = Next1(tl)
  /\ udr' = udr - 1
  /\ thre' = TRUE
  /\ window' = Window
  /\ UNCHANGED <<buf, hd, udrie, pc, lsrCopy, lost>>

\* USART1_UDRE_vect with the ring empty.
UdreEmpty ==
  /\ CanInterrupt
  /\ hd = tl
  /\ udrie' = FALSE
  /\ thre' = TRUE
  /\ window' = Window
  /\ UNCHANGED <<ring, udr, pc, lsrCopy, data, lost>>

-----------------------------------------------------------------------------
(* rs232_zx_write(), data registers                                        *)

Refuse ==
  /\ pc = "loop"
  /\ Full
  /\ lost' = 1 - lost
  /\ pc' = "full"
  /\ UNCHANGED <<ring, udrie, udr, thre, lsrCopy, window, data>>

Put(b) ==
  /\ pc = "loop"
  /\ ~Full
  /\ buf' = [buf EXCEPT ![hd] = b]
  /\ pc' = "head"
  /\ UNCHANGED <<hd, tl, udrie, udr, thre, lsrCopy, window, data, lost>>

\* Mutant: the interrupt is left as it is.
AdvanceNoEnable ==
  /\ pc = "head"
  /\ hd' = Next1(hd)
  /\ pc' = "full"
  /\ UNCHANGED <<buf, tl, udrie, udr, thre, lsrCopy, window, data, lost>>

\* rs_tx_hd++; UCSR1B is read after it.
Advance ==
  /\ pc = "head"
  /\ hd' = Next1(hd)
  /\ pc' = "enable"
  /\ UNCHANGED <<buf, tl, udrie, udr, thre, lsrCopy, window, data, lost>>

\* UCSR1B |= _BV(UDRIE1), written.
Enable ==
  /\ pc = "enable"
  /\ udrie' = TRUE
  /\ pc' = "full"
  /\ UNCHANGED <<ring, udr, thre, lsrCopy, window, data, lost>>

Loop == pc' = "loop" /\ lsrCopy' = FALSE /\ window' = 0

\* The second test of the ring; if it is full, LSR is read ...
FullTest ==
  /\ pc = "full"
  /\ IF Full THEN pc' = "fullWrite" /\ UNCHANGED <<lsrCopy, window>> ELSE Loop
  /\ UNCHANGED <<ring, udrie, udr, thre, data, lost>>

\* ... and written without bits 5 and 6.
FullWrite ==
  /\ pc = "fullWrite"
  /\ thre' = FALSE
  /\ Loop
  /\ UNCHANGED <<ring, udrie, udr, data, lost>>

\* rs232_zx_read() clears bit 0 of LSR: the other bits are read ...
ReadFlag ==
  /\ pc = "loop"
  /\ pc' = "readWrite"
  /\ lsrCopy' = thre
  /\ window' = 0
  /\ UNCHANGED <<ring, udrie, udr, thre, data, lost>>

\* ... and written back.
ReadFlagWrite ==
  /\ pc = "readWrite"
  /\ thre' = lsrCopy
  /\ Loop
  /\ UNCHANGED <<ring, udrie, udr, data, lost>>

-----------------------------------------------------------------------------
(* Commands                                                                *)

ClrFifoTailOnly ==      \* mutant: the head stays
  /\ pc = "loop"
  /\ tl' = 0
  /\ UNCHANGED <<buf, hd, udrie, udr, thre, pc, lsrCopy, window, data, lost>>

\* CLRFIFO for the output, in an atomic block.
ClrFifo ==
  /\ pc = "loop"
  /\ hd' = 0
  /\ tl' = 0
  /\ UNCHANGED <<buf, udrie, udr, thre, pc, lsrCopy, window, data, lost>>

\* FCR with bits 0 and 2, in an atomic block.
FcrReset ==
  /\ pc = "loop"
  /\ hd' = 0
  /\ tl' = 0
  /\ thre' = TRUE
  /\ UNCHANGED <<buf, udrie, udr, pc, lsrCopy, window, data, lost>>

-----------------------------------------------------------------------------
Init ==
  /\ \E b \in Bytes : buf = [i \in Indices |-> b]
  /\ hd = 0
  /\ tl = 0
  /\ udrie = FALSE
  /\ udr = 2
  /\ thre = TRUE
  /\ pc = "loop"
  /\ lsrCopy = FALSE
  /\ window = 0
  /\ data = NoByte
  /\ lost = 0

Udre == UdreSend \/ UdreEmpty
MainStep == Advance \/ Enable \/ FullTest \/ FullWrite \/ ReadFlagWrite

Next ==
  \/ Shifted
  \/ Udre
  \/ Refuse
  \/ \E b \in Bytes : Put(b)
  \/ MainStep
  \/ ReadFlag
  \/ ClrFifo
  \/ FcrReset

Spec == Init /\ [][Next]_vars

\* The USART sends what it has, an enabled interrupt comes, and an access
\* that has begun ends.
Fairness == WF_vars(Shifted) /\ SF_vars(Udre) /\ WF_vars(MainStep)

FairSpec == Spec /\ Fairness

-----------------------------------------------------------------------------
(* Properties                                                              *)

\* Indices stay inside the ring and each variable in its type.
TypeOK ==
  /\ buf \in [Indices -> Bytes]
  /\ hd \in Indices /\ tl \in Indices
  /\ udrie \in BOOLEAN /\ thre \in BOOLEAN /\ lsrCopy \in BOOLEAN
  /\ udr \in 0 .. 2 /\ window \in 0 .. 2
  /\ pc \in {"loop", "head", "enable", "full", "fullWrite", "readWrite"}
  /\ data \in Bytes \cup {NoByte}
  /\ lost \in {0, 1}

\* Bytes in the ring are never forgotten: the interrupt that sends them is
\* enabled, or the main loop is about to enable it, though the interrupt
\* disables itself whenever it finds the ring empty.
KickNotLost == hd # tl => udrie \/ pc = "enable"

\* The types, and that the transmitter is kept going.
Inv == TypeOK /\ KickNotLost

\* The ring with its interrupt is a queue that refuses a byte only when it
\* is full.
Queue == INSTANCE ByteFifo WITH
  queue <- [i \in 1 .. Used |-> buf[(tl + i - 1) % Size]],
  out <- data,
  Capacity <- Size - 1,
  DropFrom <- Size - 1

ImplementsQueue == Queue!FSpec

\* LSR may say "no room" when there is room, for the main loop writes it
\* from an old test; but a program that waits for the bit ("set fifo is empty
\* flag", rs232.c:348) does not wait for ever.  That is so for a program that
\* does not read the receive register while it sends: such a read can write
\* back an old bit after the interrupt that set it, the last for now.
RoomIsSeen == [](pc # "readWrite") => (~thre ~> thre)

=============================================================================
