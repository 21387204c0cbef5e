-------------------------------- MODULE Zint --------------------------------
(***************************************************************************)
(* The interrupt controller (zint.v) and the Z80 it interrupts.  Four      *)
(* sources set a flip-flop each; the acknowledge cycle latches the number  *)
(* of the first that is set, which gives the vector, and clears it.  The   *)
(* frame interrupt ends by itself after a number of Z80 clocks, in which   *)
(* neither waits nor the time in VDOS count.                               *)
(*                                                                         *)
(* One step is one posedge of clk.  The Z80 is what the properties need:   *)
(* when it samples ~INT, when it acknowledges, and the port writes that    *)
(* change the mask and VDOS.  The copper's fifth source is not built in.   *)
(***************************************************************************)
EXTENDS Naturals

CONSTANTS
  Dur,         \* Z80 clocks of a frame interrupt, 32
  InstrMax,    \* clocks between two samples of ~INT, 23
  BeforeIo,    \* of them, before an instruction's port access, 14
  AfterIo,     \* and after it, 13
  AckDelay,    \* clocks from the sample to the acknowledge, 4
  Masks        \* values written to INTMASK

Sources == {"frm", "lin", "dma", "wtp"}

ASSUME DelayAssumption ==
  /\ {Dur, InstrMax, BeforeIo, AfterIo, AckDelay} \subseteq Nat \ {0}
  /\ InstrMax + AckDelay <= Dur
  /\ BeforeIo + AfterIo + AckDelay <= Dur
ASSUME MaskAssumption == Masks \subseteq SUBSET Sources

VARIABLES
  pending,     \* int_frm, int_lin, int_dma, int_wtp
  int_sel,     \* the source whose vector the acknowledge reads
  intack_r,    \* intack, a clock ago
  intctr,      \* clocks of the frame interrupt so far
  wait_r,      \* ~WAIT, resynchronised
  intmask,     \* INTMASK: the sources enabled
  vdos,        \* pre_vdos
  phase,       \* Z80: "run", "taken" after its sample, "ack"
  left,        \* Z80: clocks left in the phase, at most
  io,          \* Z80: the instruction has had its port access
  iff,         \* Z80: interrupts are on
  owed,        \* history: events whose vector the Z80 has not had
  hidden,      \* history: and those that zint.v's comment calls lost
  watch        \* history: interrupts were on ever since the frame event

zint == <<pending, int_sel, intack_r, intctr, wait_r>>
regs == <<intmask, vdos>>
z80  == <<phase, left, io, iff>>
vars == <<zint, regs, z80, owed, hidden, watch>>

-----------------------------------------------------------------------------
(* zint.v                                                                  *)

Rank == [frm |-> 0, lin |-> 1, dma |-> 2, wtp |-> 3]

Before(s) == {t \in pending : Rank[t] < Rank[s]}

intack     == phase = "ack"
intack_s   == intack /\ ~intack_r
int_n      == ~(pending # {} /\ ~vdos)
intctr_fin == intctr = Dur

\* Mutant: an acknowledge clears whatever it finds below the frame interrupt.
ClearedBelow(s) ==
  \/ intack_s /\ (s = "frm" \/ "frm" \notin pending)
  \/ s = "frm" /\ intctr_fin

Cleared(s) ==
  \/ intack_s /\ Before(s) = {}
  \/ s = "frm" /\ intctr_fin

\* ~INT generating: a start comes before an acknowledge, the mask before both.
Latch(start) ==
  pending' = {s \in intmask : s \in start \/ (s \in pending /\ ~Cleared(s))}

\* ~INT source latch
Select ==
  int_sel' = IF intack_s /\ pending # {}
             THEN CHOOSE s \in pending : Before(s) = {} ELSE int_sel

\* Mutant: the time in wait states counts.
CountWaits(start, zpos) ==
  intctr' = IF "frm" \in start THEN 0
            ELSE IF zpos /\ ~intctr_fin /\ ~vdos THEN intctr + 1 ELSE intctr

\* ~INT counter
Count(start, zpos) ==
  intctr' = IF "frm" \in start THEN 0
            ELSE IF zpos /\ ~intctr_fin /\ ~wait_r /\ ~vdos THEN intctr + 1 ELSE intctr

-----------------------------------------------------------------------------
(* The Z80, at zpos outside wait states                                    *)

TState ==
  /\ phase = "run"
  /\ left > 1
  /\ left' = left - 1
  /\ UNCHANGED <<phase, io, iff>>

\* The last clock of an instruction, where ~INT is sampled.
Sample ==
  /\ phase = "run"
  /\ io' = FALSE
  /\ IF iff /\ ~int_n
     THEN phase' = "taken" /\ left' = AckDelay
     ELSE phase' = "run" /\ left' = InstrMax
  /\ UNCHANGED iff

\* The last clock of EI or DI, which do not sample.
EiDi ==
  /\ phase = "run"
  /\ iff' = ~iff
  /\ left' = InstrMax /\ io' = FALSE
  /\ UNCHANGED phase

\* ~M1 and ~IORQ go low, and a clock later high again.
Acknowledge ==
  \/ /\ phase = "taken"
     /\ IF left > 1 THEN left' = left - 1 /\ UNCHANGED <<phase, iff>>
                    ELSE phase' = "ack" /\ iff' = FALSE /\ UNCHANGED left
     /\ UNCHANGED io
  \/ /\ phase = "ack"
     /\ phase' = "run"
     /\ left' = InstrMax
     /\ UNCHANGED <<io, iff>>

-----------------------------------------------------------------------------
(* Steps                                                                   *)

\* "For Frame, Line INT its generation is blocked, it will be lost", in VDOS
\* (zint.v:30); the code does not block it.
Blocked == IF vdos THEN {"frm", "lin"} ELSE {}

\* The vector settles an event, and for a frame the time does.
Settled ==
  (IF intack_s /\ pending # {} THEN {int_sel'} ELSE {})
    \cup (IF intctr_fin THEN {"frm"} ELSE {})

\* An event is owed if it comes while enabled, until it is settled or masked.
Remember(start) ==
  /\ owed' = intmask \cap ((start \ Blocked) \cup (owed \ Settled))
  /\ hidden' = intmask \cap ((start \cap Blocked) \cup (hidden \ Settled))
  /\ watch' = (iff' /\ (watch \/ "frm" \in start))

\* One posedge of clk, in which the sources of start come, wait_n is w, and
\* the Z80's clock rises or not.
Hardware(start, zpos) ==
  /\ Latch(start)
  /\ Select
  /\ Count(start, zpos)
  /\ intack_r' = intack
  /\ wait_r' \in BOOLEAN
  /\ Remember(start)

Clock(start) == UNCHANGED <<regs, z80>> /\ Hardware(start, FALSE)

WaitState(start) == wait_r /\ UNCHANGED <<regs, z80>> /\ Hardware(start, TRUE)

Z80Clock(start) ==
  /\ ~wait_r
  /\ TState \/ Sample \/ EiDi \/ Acknowledge
  /\ Hardware(start, TRUE)
  /\ UNCHANGED regs

\* The port access of an instruction, which follows a zpos: OUT (INTMASK),
\* or one that enters or leaves VDOS (zports.v, zmem.v).
PortAccess(start) ==
  /\ phase = "run"
  /\ ~io
  /\ InstrMax - left <= BeforeIo
  /\ io' = TRUE
  /\ left' = IF left > AfterIo THEN AfterIo ELSE left
  /\ \/ intmask' \in Masks /\ UNCHANGED vdos
     \/ vdos' = ~vdos /\ UNCHANGED intmask
  /\ UNCHANGED <<phase, iff>>
  /\ Hardware(start, FALSE)

\* res, which resets the Z80 too; int_sel and the counter keep their values.
Reset ==
  /\ pending' = {} /\ intmask' = {"frm"} /\ vdos' = FALSE
  /\ intack_r' = FALSE /\ wait_r' = FALSE
  /\ phase' = "run" /\ left' = InstrMax /\ io' = FALSE /\ iff' = FALSE
  /\ owed' = {} /\ hidden' = {} /\ watch' = FALSE
  /\ UNCHANGED <<int_sel, intctr>>

Init ==
  /\ pending = {} /\ int_sel = "frm"
  /\ intack_r = FALSE /\ intctr \in 0 .. Dur /\ wait_r = FALSE
  /\ intmask = {"frm"} /\ vdos = FALSE
  /\ phase = "run" /\ left = InstrMax /\ io = FALSE /\ iff = FALSE
  /\ owed = {} /\ hidden = {} /\ watch = FALSE

Next ==
  \/ \E start \in SUBSET Sources :
       Clock(start) \/ WaitState(start) \/ Z80Clock(start) \/ PortAccess(start)
  \/ Reset

Spec == Init /\ [][Next]_vars

-----------------------------------------------------------------------------
(* Properties                                                              *)

\* Each variable has its type.
TypeOK ==
  /\ pending \subseteq Sources /\ int_sel \in Sources
  /\ intack_r \in BOOLEAN /\ wait_r \in BOOLEAN /\ intctr \in 0 .. Dur
  /\ intmask \subseteq Sources /\ vdos \in BOOLEAN
  /\ phase \in {"run", "taken", "ack"} /\ left \in 1 .. Dur
  /\ io \in BOOLEAN /\ iff \in BOOLEAN
  /\ owed \subseteq Sources /\ hidden \subseteq Sources /\ watch \in BOOLEAN

\* The flip-flops hold the events the Z80 has not been told of, and no others:
\* the one whose vector it reads is the one that is cleared, and events that
\* come in the clock of an acknowledge stay.  Of frame and line events that
\* come in VDOS it says only that nothing else is made of them.
PendingIsOwed == owed \subseteq pending /\ pending \subseteq owed \cup hidden

Inv == TypeOK /\ PendingIsOwed

\* The frame interrupt does not end before it is acknowledged, if interrupts
\* are on from its start: whatever waits, VDOS and other sources come between.
FrameTaken ==
  [][intctr_fin /\ "frm" \in pending /\ phase # "ack" => ~watch]_vars

\* What zint.v:30 says of the frame and line interrupts: in VDOS they are not
\* generated.  The code only keeps ~INT high, so the run zint_vdos finds this
\* violated.
BlockedInVdos ==
  [][vdos => (pending' \ pending) \cap {"frm", "lin"} = {}]_vars

=============================================================================
