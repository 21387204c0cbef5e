------------------------------- MODULE Serial -------------------------------
(***************************************************************************)
(* The serial ports of the AVR (rs232.c) as a whole: a receiver (UartRx),  *)
(* a transmitter (UartTx) and the interrupts of a ZiFi port (ZifiInt).     *)
(* The three have no variable in common, and each takes the others' steps  *)
(* of the main loop for time that passes; so a behaviour moves one of them *)
(* while the other two stand still.                                        *)
(***************************************************************************)
EXTENDS UartRx

CONSTANTS
  TxSize,                           \* places of the transmitter's ring
  Capacity, TmoMax, Ibtr, Itor      \* of the ZiFi port

VARIABLES
  part,                             \* "rx", "tx" or "zifi"
  txBuf, txHd, txTl, udrie, udr, thre, txPc, lsrCopy, window, sent, refused,
  waiting, tmo, mask, src, taskPc, intWtp, handler, asked

Tx == INSTANCE UartTx WITH
  Size <- TxSize,
  buf <- txBuf, hd <- txHd, tl <- txTl, pc <- txPc, data <- sent, lost <- refused

Zifi == INSTANCE ZifiInt WITH used <- waiting, pc <- taskPc

ASSUME PartsAssumption == Tx!TxAssumption /\ Zifi!IntAssumption

txVars   == <<txBuf, txHd, txTl, udrie, udr, thre, txPc, lsrCopy, window, sent, refused>>
zifiVars == <<waiting, tmo, mask, src, taskPc, intWtp, handler, asked>>
svars    == <<part, vars, txVars, zifiVars>>

SerialInit ==
  /\ part \in {"rx", "tx", "zifi"}
  /\ Init /\ Tx!Init /\ Zifi!Init
  \* The ring that stands still holds one and the same byte.
  /\ part # "rx" => \A i \in Indices : buf[i] = CHOOSE b \in Bytes : TRUE
  /\ part # "tx" => \A i \in Tx!Indices : txBuf[i] = CHOOSE b \in Bytes : TRUE

OfRx(A)   == part = "rx"   /\ A /\ UNCHANGED <<part, txVars, zifiVars>>
OfTx(A)   == part = "tx"   /\ A /\ UNCHANGED <<part, vars, zifiVars>>
OfZifi(A) == part = "zifi" /\ A /\ UNCHANGED <<part, vars, txVars>>

SerialNext == OfRx(Next) \/ OfTx(Tx!Next) \/ OfZifi(Zifi!Next)

\* The fairness of the parts: the USART sends, an enabled interrupt comes, the
\* timer ticks, and the main loop goes on.
SerialFairness ==
  /\ WF_svars(OfTx(Tx!Shifted))
  /\ SF_svars(OfTx(Tx!Udre))
  /\ WF_svars(OfTx(Tx!MainStep))
  /\ WF_svars(OfZifi(Zifi!Task))
  /\ WF_svars(OfZifi(Zifi!Millisecond))

SerialSpec == SerialInit /\ [][SerialNext]_svars /\ SerialFairness

-----------------------------------------------------------------------------
(* Properties; Inv and ImplementsQueue are the receiver's.                 *)

\* The types of the transmitter, and that its interrupt is enabled, or about to
\* be, while bytes wait in its ring.
KickKept == Tx!Inv

\* The transmitter's ring is a queue that refuses a byte only when it is full.
SendQueue == Tx!ImplementsQueue

\* A program that only writes sees room in LSR again after every full ring.
RoomIsSeen == part = "tx" => Tx!RoomIsSeen

\* The types of the ZiFi port's interrupts: the counters stop at their ends.
ZifiTypeOK == Zifi!TypeOK

\* An event is noted in ISR once for each time the program has enabled it.
OncePerEnable == Zifi!OncePerEnable

\* Bytes that wait long enough are reported, if the program asks for it and
\* nothing else happens to them.
TimeoutReported == part = "zifi" => Zifi!TimeoutReported

\* A reported event reaches the Z80's interrupt, or the program has read it.
ReportInterrupts == part = "zifi" => Zifi!ReportInterrupts

=============================================================================
