------------------------------- MODULE ZifiInt -------------------------------
(***************************************************************************)
(* The interrupts of a ZiFi port (rs232.c).  rs232_task() compares the     *)
(* number of waiting bytes with the threshold IBTR, and the milliseconds   *)
(* since the last byte with ITOR; an event that IMR enables is noted in    *)
(* ISR, disabled, and sent to the Z80 by the FPGA (slavespi.v, zint.v).    *)
(* The buffer is a number of bytes: UartRx shows that the ring is a queue. *)
(* The two ports do the same with other bits; one of them is modelled.     *)
(***************************************************************************)
EXTENDS Naturals

CONSTANTS
  Capacity,    \* bytes the buffer holds, 511
  TmoMax,      \* where the millisecond counter stops, 255
  Ibtr,        \* the threshold register
  Itor         \* the timeout register

\* What the instances of this module assume of the constants.
IntAssumption ==
  /\ Capacity \in Nat /\ TmoMax \in Nat
  /\ Ibtr \in 0 .. Capacity
  /\ Itor \in 0 .. TmoMax

VARIABLES
  used,        \* bytes that wait
  tmo,         \* zf_tmo_cnt
  mask,        \* zf_int_mask
  src,         \* zf_int_src
  pc,          \* where the main loop is in rs232_task()
  intWtp,      \* int_wtp of zint.v
  handler,     \* the Z80 has taken the interrupt, and not yet read ISR
  asked        \* history: events enabled and not yet reported

buffer == <<used, tmo>>
z80    == <<intWtp, handler>>
vars == <<buffer, mask, src, pc, z80, asked>>

Events == {"IBT", "ITO"}

-----------------------------------------------------------------------------
(* Interrupts of the AVR                                                   *)

\* Mutant: the full ring is not noticed.
RxNoLimit ==
  /\ used' = used + 1
  /\ tmo' = 0
  /\ UNCHANGED <<mask, src, pc, z80, asked>>

\* USART0_RX_vect
Rx ==
  /\ used' = IF used = Capacity THEN used ELSE used + 1
  /\ tmo' = 0
  /\ UNCHANGED <<mask, src, pc, z80, asked>>

\* TIMER1_COMPA_vect
Millisecond ==
  /\ tmo < TmoMax
  /\ tmo' = tmo + 1
  /\ UNCHANGED <<used, mask, src, pc, z80, asked>>

-----------------------------------------------------------------------------
(* rs232_task()                                                            *)

Report(e) == mask' = mask \ {e} /\ src' = src \cup {e} /\ asked' = asked \ {e}

\* Mutant: the event stays enabled.
ThresholdStays ==
  /\ pc = "loop"
  /\ pc' = "timeout"
  /\ IF "IBT" \in mask /\ used >= Ibtr
     THEN src' = src \cup {"IBT"} /\ asked' = asked \ {"IBT"} /\ UNCHANGED mask
     ELSE UNCHANGED <<mask, src, asked>>
  /\ UNCHANGED <<buffer, z80>>

\* read_zf_ifr() >= zf_ibtr
Threshold ==
  /\ pc = "loop"
  /\ pc' = "timeout"
  /\ IF "IBT" \in mask /\ used >= Ibtr THEN Report("IBT") ELSE UNCHANGED <<mask, src, asked>>
  /\ UNCHANGED <<buffer, z80>>

\* zf_tmo_cnt >= zf_itor
TimeoutTest ==
  /\ pc = "timeout"
  /\ pc' = IF "ITO" \in mask /\ tmo >= Itor THEN "bytes" ELSE "send"
  /\ UNCHANGED <<buffer, mask, src, z80, asked>>

TimeoutBytesLate ==     \* mutant: one byte is not enough
  /\ pc = "bytes"
  /\ pc' = "send"
  /\ IF used > 1 THEN Report("ITO") ELSE UNCHANGED <<mask, src, asked>>
  /\ UNCHANGED <<buffer, z80>>

\* && read_zf_ifr(), which an interrupt may precede
TimeoutBytes ==
  /\ pc = "bytes"
  /\ pc' = "send"
  /\ IF used > 0 THEN Report("ITO") ELSE UNCHANGED <<mask, src, asked>>
  /\ UNCHANGED <<buffer, z80>>

SendNothing ==          \* mutant: the configuration is not sent
  /\ pc = "send"
  /\ pc' = "loop"
  /\ UNCHANGED <<buffer, mask, src, z80, asked>>

\* The configuration byte with MODE_TS_WTP_INT, as long as there is a source.
Send ==
  /\ pc = "send"
  /\ pc' = "loop"
  /\ intWtp' = (intWtp \/ src # {})
  /\ UNCHANGED <<buffer, mask, src, handler, asked>>

-----------------------------------------------------------------------------
(* The Z80                                                                 *)

\* It reads bytes from the data register.
ReadByte ==
  /\ pc = "loop"
  /\ used > 0
  /\ used' = used - 1
  /\ UNCHANGED <<tmo, mask, src, pc, z80, asked>>

\* OUT (IMR)
WriteImr(e) ==
  /\ pc = "loop"
  /\ mask' = mask \cup {e}
  /\ asked' = asked \cup {e}
  /\ UNCHANGED <<buffer, src, pc, z80>>

\* It acknowledges the interrupt: intack_s clears int_wtp.
Acknowledge ==
  /\ intWtp
  /\ ~handler
  /\ intWtp' = FALSE
  /\ handler' = TRUE
  /\ UNCHANGED <<buffer, mask, src, pc, asked>>

\* IN (ISR): in its handler, or to poll.
ReadIsr ==
  /\ pc = "loop"
  /\ src' = {}
  /\ handler' = FALSE
  /\ UNCHANGED <<buffer, mask, pc, intWtp, asked>>

-----------------------------------------------------------------------------
Init ==
  /\ used = 0
  /\ tmo = 0
  /\ mask = {}
  /\ src = {}
  /\ pc = "loop"
  /\ intWtp = FALSE
  /\ handler = FALSE
  /\ asked = {}

Task == Threshold \/ TimeoutTest \/ TimeoutBytes \/ Send

Next ==
  \/ Rx \/ Millisecond
  \/ Task
  \/ ReadByte \/ (\E e \in Events : WriteImr(e)) \/ Acknowledge \/ ReadIsr

Spec == Init /\ [][Next]_vars

\* The main loop goes round and the timer ticks; the Z80 need not do
\* anything.
Fairness == WF_vars(Task) /\ WF_vars(Millisecond)

FairSpec == Spec /\ Fairness

-----------------------------------------------------------------------------
(* Properties                                                              *)

\* Each variable has its type; the counters stop at their ends.
TypeOK ==
  /\ used \in 0 .. Capacity
  /\ tmo \in 0 .. TmoMax
  /\ mask \subseteq Events /\ src \subseteq Events /\ asked \subseteq Events
  /\ pc \in {"loop", "timeout", "bytes", "send"}
  /\ intWtp \in BOOLEAN /\ handler \in BOOLEAN

\* "Each interrupt event disables correspondent source" (zifi.md:59): an
\* event is noted in ISR once for each time the program has enabled it.
OncePerEnable == [][src' \ src \subseteq asked]_vars

\* Bytes that wait long enough are reported, if the program asks for it and
\* nothing else happens to them.
TimeoutReported ==
  [](("ITO" \in mask /\ used > 0) =>
       <>("ITO" \notin mask \/ used = 0)) \/ []<><<Rx>>_vars

\* A reported event reaches the Z80's interrupt, or the program has read it.
ReportInterrupts == src # {} ~> intWtp \/ src = {}

=============================================================================
