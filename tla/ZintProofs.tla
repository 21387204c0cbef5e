----------------------------- MODULE ZintProofs -----------------------------
(***************************************************************************)
(* What the run of Zint shows with short delays, for all delays that       *)
(* leave the frame interrupt long enough.                                  *)
(***************************************************************************)
EXTENDS Zint, TLAPS

-----------------------------------------------------------------------------
(* The flip-flops and what is owed                                         *)

\* Of the pending sources there is a first one.
LEMMA SomeIsFirst ==
  ASSUME NEW s \in pending, pending \subseteq Sources
  PROVE  \E r \in pending : Before(r) = {}
<1>1. CASE "frm" \in pending
  <2>1. \A u \in pending : ~(Rank[u] < Rank["frm"])
    BY DEF Sources, Rank
  <2> QED  BY <1>1, <2>1 DEF Before
<1>2. CASE "frm" \notin pending /\ "lin" \in pending
  <2>1. \A u \in pending : ~(Rank[u] < Rank["lin"])
    BY <1>2 DEF Sources, Rank
  <2> QED  BY <1>2, <2>1 DEF Before
<1>3. CASE "frm" \notin pending /\ "lin" \notin pending /\ "dma" \in pending
  <2>1. \A u \in pending : ~(Rank[u] < Rank["dma"])
    BY <1>3 DEF Sources, Rank
  <2> QED  BY <1>3, <2>1 DEF Before
<1>4. CASE pending \subseteq {"wtp"}
  <2>1. \A u \in pending : ~(Rank[u] < Rank[s])
    BY <1>4 DEF Rank
  <2> QED  BY <2>1 DEF Before
<1> QED  BY <1>1, <1>2, <1>3, <1>4 DEF Sources

\* A pending source that no other precedes is the one whose vector is read:
\* what an acknowledge clears (zint.v:140-179) is what it selects
\* (zint.v:117-132).
LEMMA FirstIsSelected ==
  ASSUME NEW s \in pending, pending \subseteq Sources
  PROVE  Before(s) = {} <=> s = (CHOOSE r \in pending : Before(r) = {})
<1> DEFINE first == CHOOSE r \in pending : Before(r) = {}
<1>1. \A r \in Sources : Rank[r] \in 0 .. 3
  BY DEF Sources, Rank
<1>2. \A r, u \in Sources : Rank[r] = Rank[u] => r = u
  BY DEF Sources, Rank
<1>3. ASSUME NEW r \in pending, NEW u \in pending, Before(r) = {}, Before(u) = {}
      PROVE  r = u
  <2>1. ~(Rank[r] < Rank[u]) /\ ~(Rank[u] < Rank[r])
    BY <1>3 DEF Before
  <2> QED  BY <2>1, <1>1, <1>2
<1>4. first \in pending /\ Before(first) = {}
  BY SomeIsFirst
<1> QED  BY <1>3, <1>4

\* The code keeps the events that come in VDOS with the others, so that the
\* flip-flops are determined.
KInv == Inv /\ pending = owed \cup hidden

\* In every clock the flip-flops lose what the vector, the mask and the time
\* settle, and nothing else.
LEMMA LatchKeepsOwed ==
  ASSUME KInv, NEW start \in SUBSET Sources, Latch(start), Select, Remember(start)
  PROVE  pending' = owed' \cup hidden'
<1>1. pending = owed \cup hidden /\ pending \subseteq Sources
  BY DEF KInv, Inv, TypeOK
<1> DEFINE read == IF intack_s /\ pending # {} THEN {int_sel'} ELSE {}
<1>2. ASSUME NEW s \in pending
      PROVE  Cleared(s) <=> s \in Settled
  <2>1. CASE intack_s
    <3>1. int_sel' = CHOOSE r \in pending : Before(r) = {}
      BY <2>1, <1>2 DEF Select
    <3>2. s \in read <=> Before(s) = {}
      BY <2>1, <3>1, <1>1, <1>2, FirstIsSelected
    <3> QED  BY <2>1, <3>2 DEF Cleared, Settled
  <2>2. CASE ~intack_s
    BY <2>2 DEF Cleared, Settled
  <2> QED  BY <2>1, <2>2
<1>3. pending' = {s \in intmask : s \in start \/ (s \in pending /\ ~Cleared(s))}
  BY DEF Latch
<1>4. owed' \cup hidden' = intmask \cap (start \cup (pending \ Settled))
  BY <1>1 DEF Remember
<1> QED  BY <1>1, <1>2, <1>3, <1>4

\* The clock keeps the types of the controller.
LEMMA HardwareKeepsInv ==
  ASSUME KInv, NEW start \in SUBSET Sources, NEW zpos \in BOOLEAN, Hardware(start, zpos),
         iff' \in BOOLEAN
  PROVE  /\ pending' = owed' \cup hidden'
         /\ pending' \subseteq Sources /\ int_sel' \in Sources
         /\ intack_r' \in BOOLEAN /\ wait_r' \in BOOLEAN /\ intctr' \in 0 .. Dur
         /\ owed' \subseteq Sources /\ hidden' \subseteq Sources /\ watch' \in BOOLEAN
<1>1. pending' = owed' \cup hidden'
  BY LatchKeepsOwed DEF Hardware
<1>2. pending' \subseteq Sources
  BY DEF Hardware, Latch, KInv, Inv, TypeOK
<1>3. int_sel' \in Sources
  <2>1. CASE intack_s /\ pending # {}
    <3>1. PICK s \in pending : TRUE
      BY <2>1
    <3>2. pending \subseteq Sources
      BY DEF KInv, Inv, TypeOK
    <3>3. \E r \in pending : Before(r) = {}
      BY <3>1, <3>2, SomeIsFirst
    <3> QED  BY <2>1, <3>2, <3>3 DEF Hardware, Select
  <2>2. CASE ~(intack_s /\ pending # {})
    BY <2>2 DEF Hardware, Select, KInv, Inv, TypeOK
  <2> QED  BY <2>1, <2>2
<1>4. intack_r' \in BOOLEAN /\ wait_r' \in BOOLEAN
  BY DEF Hardware, intack
<1>5. intctr' \in 0 .. Dur
  BY DelayAssumption DEF Hardware, Count, intctr_fin, KInv, Inv, TypeOK
<1>6. watch' \in BOOLEAN
  BY DEF Hardware, Remember, KInv, Inv, TypeOK
<1>7. owed' \subseteq Sources /\ hidden' \subseteq Sources
  BY <1>1, <1>2
<1> QED  BY <1>1, <1>2, <1>3, <1>4, <1>5, <1>6, <1>7

-----------------------------------------------------------------------------
(* Inv                                                                     *)

\* The delays, one by one.
LEMMA Delays ==
  /\ Dur \in Nat /\ InstrMax \in Nat /\ BeforeIo \in Nat /\ AfterIo \in Nat
  /\ AckDelay \in Nat
  /\ InstrMax > 0 /\ BeforeIo > 0 /\ AfterIo > 0 /\ AckDelay > 0
  /\ InstrMax + AckDelay <= Dur /\ BeforeIo + AfterIo + AckDelay <= Dur
BY DelayAssumption

\* Clocks gone and clocks to come, over one clock that counts or does not.
LEMMA OneClock ==
  ASSUME NEW n \in Nat, NEW m \in Nat, NEW l \in Nat, NEW k \in Nat, NEW d \in Nat,
         m <= n + 1, l > 0
  PROVE  /\ n + l + k <= d => m + (l - 1) + k <= d /\ m + k <= d
         /\ n + l <= d => m + (l - 1) <= d
OBVIOUS

\* What the Z80 does within a clock keeps its types.
LEMMA Z80KeepsTypes ==
  ASSUME Inv, TState \/ Sample \/ EiDi \/ Acknowledge
  PROVE  /\ phase' \in {"run", "taken", "ack"} /\ left' \in 1 .. Dur
         /\ io' \in BOOLEAN /\ iff' \in BOOLEAN
<1>1. InstrMax \in 1 .. Dur /\ AckDelay \in 1 .. Dur
  BY Delays
<1>2. /\ phase \in {"run", "taken", "ack"} /\ left \in 1 .. Dur
      /\ io \in BOOLEAN /\ iff \in BOOLEAN
  BY DEF Inv, TypeOK
<1>3. left > 1 => left - 1 \in 1 .. Dur
  BY <1>2, Delays
<1>4. CASE TState
  BY <1>2, <1>3, <1>4 DEF TState
<1>5. CASE Sample
  BY <1>1, <1>2, <1>5 DEF Sample
<1>6. CASE EiDi
  BY <1>1, <1>2, <1>6 DEF EiDi
<1>7. CASE Acknowledge
  BY <1>1, <1>2, <1>3, <1>7 DEF Acknowledge
<1> QED  BY <1>4, <1>5, <1>6, <1>7

\* The reset state, and each clock of zint.v.
LEMMA Keeps == Spec => []KInv
<1>1. InstrMax \in 1 .. Dur
  BY Delays
<1>2. Init => KInv
  BY <1>1 DEF Init, KInv, Inv, TypeOK, PendingIsOwed, Sources
<1>3. KInv /\ [Next]_vars => KInv'
  <2> SUFFICES ASSUME KInv, [Next]_vars
               PROVE  KInv'
    OBVIOUS
  <2>1. ASSUME NEW start \in SUBSET Sources, Clock(start)
        PROVE  KInv'
    <3>1. Hardware(start, FALSE) /\ UNCHANGED <<regs, z80>>
      BY <2>1 DEF Clock
    <3>2. iff' \in BOOLEAN
      BY <3>1 DEF KInv, Inv, TypeOK, z80
    <3> QED  BY <3>1, <3>2, HardwareKeepsInv DEF KInv, Inv, TypeOK, PendingIsOwed, regs, z80
  <2>2. ASSUME NEW start \in SUBSET Sources, WaitState(start)
        PROVE  KInv'
    <3>1. Hardware(start, TRUE) /\ UNCHANGED <<regs, z80>>
      BY <2>2 DEF WaitState
    <3>2. iff' \in BOOLEAN
      BY <3>1 DEF KInv, Inv, TypeOK, z80
    <3> QED  BY <3>1, <3>2, HardwareKeepsInv DEF KInv, Inv, TypeOK, PendingIsOwed, regs, z80
  <2>3. ASSUME NEW start \in SUBSET Sources, Z80Clock(start)
        PROVE  KInv'
    <3>1. Hardware(start, TRUE) /\ UNCHANGED regs
      BY <2>3 DEF Z80Clock
    <3>2. /\ phase' \in {"run", "taken", "ack"} /\ left' \in 1 .. Dur
          /\ io' \in BOOLEAN /\ iff' \in BOOLEAN
      BY <2>3, Z80KeepsTypes DEF Z80Clock, KInv
    <3> QED  BY <3>1, <3>2, HardwareKeepsInv DEF KInv, Inv, TypeOK, PendingIsOwed, regs
  <2>4. ASSUME NEW start \in SUBSET Sources, PortAccess(start)
        PROVE  KInv'
    <3>1. Hardware(start, FALSE) /\ phase' = phase /\ iff' = iff
      BY <2>4 DEF PortAccess
    <3>2. phase' \in {"run", "taken", "ack"} /\ iff' \in BOOLEAN
      BY <3>1 DEF KInv, Inv, TypeOK
    <3>3. left' \in 1 .. Dur /\ io' \in BOOLEAN
      <4>1. left \in 1 .. Dur
        BY DEF KInv, Inv, TypeOK
      <4> QED  BY <2>4, <4>1, Delays DEF PortAccess
    <3>4. intmask' \subseteq Sources /\ vdos' \in BOOLEAN
      BY <2>4, MaskAssumption DEF PortAccess, KInv, Inv, TypeOK
    <3> QED  BY <3>1, <3>2, <3>3, <3>4, HardwareKeepsInv DEF KInv, Inv, TypeOK, PendingIsOwed
  <2>5. CASE Reset
    BY <1>1, <2>5 DEF Reset, KInv, Inv, TypeOK, PendingIsOwed, Sources
  <2>6. CASE UNCHANGED vars
    BY <2>6 DEF KInv, Inv, TypeOK, PendingIsOwed, vars, zint, regs, z80, intack
  <2> QED  BY <2>1, <2>2, <2>3, <2>4, <2>5, <2>6 DEF Next
<1> QED  BY <1>2, <1>3, PTL DEF Spec

\* At every moment the flip-flops hold the events whose vectors the Z80 has not
\* read, and no others.
THEOREM NothingLost == Spec => []Inv
<1>1. KInv => Inv
  BY DEF KInv
<1> QED  BY <1>1, Keeps, PTL

-----------------------------------------------------------------------------
(* FrameTaken                                                              *)

\* Of a frame interrupt that the Z80 is bound to take, the clocks gone and
\* those it still needs fit in its duration.  In VDOS no clock is counted, and
\* those before it are the ones before a port access.
Room ==
  /\ phase = "taken" => intctr + left <= Dur
  /\ phase = "run" /\ vdos => intctr <= BeforeIo
  /\ phase = "run" /\ ~vdos =>
       /\ intctr + left + AckDelay <= Dur
       /\ ~io => intctr + left <= InstrMax

\* After the acknowledge, and after DI, nobody is bound to take anything.
Bound ==
  /\ watch => iff
  /\ phase = "ack" => ~iff
  /\ phase = "run" => left <= InstrMax
  /\ watch /\ "frm" \in pending => Room

\* The inductive invariant.
IInv == Inv /\ Bound

\* Each clock counts at most one, and none in VDOS and in a wait state; a new
\* event counts from zero.
LEMMA CountIsSlow ==
  ASSUME Inv, Inv', Bound, NEW start \in SUBSET Sources, NEW zpos \in BOOLEAN,
         Hardware(start, zpos)
  PROVE  /\ intctr \in Nat /\ intctr' \in Nat /\ left \in Nat /\ left > 0 /\ left' \in Nat
         /\ left' <= Dur
         /\ watch' => iff'
         /\ watch' /\ "frm" \in pending' =>
              \/ intctr' = 0
              \/ /\ watch /\ "frm" \in pending /\ Room
                 /\ intctr' <= intctr + 1
                 /\ vdos \/ wait_r \/ ~zpos => intctr' = intctr
<1>1. /\ intctr \in Nat /\ intctr' \in Nat /\ left \in Nat /\ left > 0 /\ left' \in Nat
      /\ left' <= Dur
  BY Delays DEF Inv, TypeOK
<1>2. "frm" \in start => intctr' = 0
  BY DEF Hardware, Count
<1>3. "frm" \notin start =>
        intctr' <= intctr + 1 /\ (vdos \/ wait_r \/ ~zpos => intctr' = intctr)
  BY <1>1 DEF Hardware, Count
<1>4. "frm" \notin start /\ "frm" \in pending' => "frm" \in pending
  BY DEF Hardware, Latch
<1>5. watch' => iff' /\ (watch \/ "frm" \in start)
  BY DEF Hardware, Remember
<1> QED  BY <1>1, <1>2, <1>3, <1>4, <1>5 DEF Bound

\* The Z80's part of a clock.
LEMMA Z80KeepsBound ==
  ASSUME Inv, Inv', Bound, NEW start \in SUBSET Sources, Z80Clock(start)
  PROVE  Bound'
<1> DEFINE old == /\ watch /\ "frm" \in pending /\ Room
                  /\ intctr' <= intctr + 1
                  /\ vdos => intctr' = intctr
<1>1. /\ intctr \in Nat /\ intctr' \in Nat /\ left \in Nat /\ left > 0 /\ left' \in Nat
      /\ left' <= Dur
      /\ watch' => iff'
      /\ watch' /\ "frm" \in pending' => intctr' = 0 \/ old
  BY CountIsSlow DEF Z80Clock
<1>2. vdos' = vdos
  BY DEF Z80Clock, regs
<1>0. old => /\ watch /\ "frm" \in pending /\ Room
             /\ intctr' <= intctr + 1
             /\ vdos => intctr' = intctr
  OBVIOUS
<1> HIDE DEF old
<1>3. CASE TState
  <2>1. /\ phase = "run" /\ phase' = "run" /\ left' = left - 1 /\ io' = io /\ iff' = iff
        /\ left <= InstrMax
    BY <1>3 DEF TState, Bound
  <2>2. ASSUME intctr' = 0 \/ old
        PROVE  Room'
    <3>1. CASE intctr' = 0
      BY <1>1, <2>1, <3>1, Delays DEF Room
    <3>2. CASE old /\ vdos
      <4>1. intctr' = intctr /\ intctr <= BeforeIo /\ vdos'
        BY <1>0, <1>2, <2>1, <3>2 DEF Room
      <4> QED  BY <2>1, <4>1 DEF Room
    <3>3. CASE old /\ ~vdos
      <4>1. intctr' <= intctr + 1 /\ intctr + left + AckDelay <= Dur /\ ~vdos'
        BY <1>0, <1>2, <2>1, <3>3 DEF Room
      <4>2. intctr' + left' + AckDelay <= Dur
        BY <1>1, <2>1, <4>1, Delays, OneClock
      <4>3. ~io' => intctr + left <= InstrMax
        BY <1>0, <2>1, <3>3 DEF Room
      <4>4. ~io' => intctr' + left' <= InstrMax
        BY <1>1, <2>1, <4>1, <4>3, Delays, OneClock
      <4> QED  BY <2>1, <4>1, <4>2, <4>4 DEF Room
    <3> QED  BY <2>2, <3>1, <3>2, <3>3
  <2> QED  BY <1>1, <2>1, <2>2, Delays DEF Bound
<1>4. CASE Sample
  <2>1. phase = "run" /\ io' = FALSE /\ iff' = iff
    BY <1>4 DEF Sample
  <2>2. CASE iff /\ ~int_n
    <3>1. phase' = "taken" /\ left' = AckDelay
      BY <1>4, <2>2 DEF Sample
    <3>2. ~vdos
      BY <2>2 DEF int_n
    <3>3. ASSUME intctr' = 0 \/ old
          PROVE  Room'
      <4>1. CASE intctr' = 0
        BY <3>1, <4>1, Delays DEF Room
      <4>2. CASE old
        <5>1. intctr' <= intctr + 1 /\ intctr + left + AckDelay <= Dur
          BY <1>0, <2>1, <3>2, <4>2 DEF Room
        <5>2. intctr' + left' <= Dur
          BY <1>1, <3>1, <5>1, Delays, OneClock
        <5> QED  BY <3>1, <5>2 DEF Room
      <4> QED  BY <3>3, <4>1, <4>2
    <3> QED  BY <1>1, <3>1, <3>3 DEF Bound
  <2>3. CASE ~(iff /\ ~int_n)
    <3>1. phase' = "run" /\ left' = InstrMax
      BY <1>4, <2>3 DEF Sample
    <3>2. old => vdos
      BY <1>0, <2>3 DEF int_n, Bound
    <3>3. ASSUME intctr' = 0 \/ old
          PROVE  Room'
      <4>1. CASE intctr' = 0
        BY <3>1, <4>1, Delays DEF Room
      <4>2. CASE old
        <5>1. intctr' = intctr /\ intctr <= BeforeIo /\ vdos'
          BY <1>0, <1>2, <2>1, <3>2, <4>2 DEF Room
        <5> QED  BY <3>1, <5>1 DEF Room
      <4> QED  BY <3>3, <4>1, <4>2
    <3> QED  BY <1>1, <3>1, <3>3, Delays DEF Bound
  <2> QED  BY <2>2, <2>3
<1>5. CASE EiDi
  <2>1. phase' = "run" /\ left' = InstrMax /\ iff' = ~iff
    BY <1>5 DEF EiDi
  <2>2. watch' /\ "frm" \in pending' => intctr' = 0
    BY <1>0, <1>1, <2>1 DEF Bound
  <2>3. intctr' = 0 => Room'
    BY <2>1, Delays DEF Room
  <2> QED  BY <1>1, <2>1, <2>2, <2>3, Delays DEF Bound
<1>6. CASE Acknowledge
  <2>1. CASE phase = "taken" /\ left > 1
    <3>1. phase' = "taken" /\ left' = left - 1 /\ iff' = iff
      BY <1>6, <2>1 DEF Acknowledge
    <3>2. ASSUME intctr' = 0 \/ old
          PROVE  Room'
      <4>1. CASE intctr' = 0
        BY <1>1, <3>1, <4>1, Delays DEF Room
      <4>2. CASE old
        <5>1. intctr' <= intctr + 1 /\ intctr + left <= Dur
          BY <1>0, <2>1, <4>2 DEF Room
        <5>2. intctr' + left' <= Dur
          BY <1>1, <3>1, <5>1, Delays, OneClock
        <5> QED  BY <3>1, <5>2 DEF Room
      <4> QED  BY <3>2, <4>1, <4>2
    <3> QED  BY <1>1, <3>1, <3>2 DEF Bound
  <2>2. CASE phase = "taken" /\ ~(left > 1)
    <3>1. phase' = "ack" /\ ~iff'
      BY <1>6, <2>2 DEF Acknowledge
    <3> QED  BY <1>1, <3>1 DEF Bound
  <2>3. CASE phase = "ack"
    <3>1. phase' = "run" /\ left' = InstrMax /\ ~iff'
      BY <1>6, <2>3 DEF Acknowledge, Bound
    <3> QED  BY <1>1, <3>1, Delays DEF Bound
  <2> QED  BY <1>6, <2>1, <2>2, <2>3 DEF Acknowledge
<1> QED  BY <1>3, <1>4, <1>5, <1>6 DEF Z80Clock

\* A port access: what it leaves of the instruction is what follows it.
LEMMA PortKeepsBound ==
  ASSUME Inv, Inv', Bound, NEW start \in SUBSET Sources, PortAccess(start)
  PROVE  Bound'
<1> DEFINE old == /\ watch /\ "frm" \in pending /\ Room
                  /\ intctr' = intctr
<1>1. /\ intctr \in Nat /\ intctr' \in Nat /\ left \in Nat /\ left > 0 /\ left' \in Nat
      /\ left' <= Dur
      /\ watch' => iff'
      /\ watch' /\ "frm" \in pending' => intctr' = 0 \/ old
  BY CountIsSlow DEF PortAccess
<1>0. old => Room /\ intctr' = intctr
  OBVIOUS
<1> HIDE DEF old
<1>2. /\ phase = "run" /\ phase' = "run" /\ ~io /\ io' /\ left <= InstrMax
      /\ InstrMax - left <= BeforeIo
      /\ left' <= AfterIo /\ left' <= left
  BY <1>1, Delays DEF PortAccess, Bound
<1>3. ASSUME intctr' = 0 \/ old
      PROVE  Room'
  <2>1. intctr' <= BeforeIo
    <3>1. CASE intctr' = 0
      BY <3>1, Delays
    <3>2. CASE old /\ vdos
      BY <1>0, <1>2, <3>2 DEF Room
    <3>3. CASE old /\ ~vdos
      <4>1. intctr' = intctr /\ intctr + left <= InstrMax
        BY <1>0, <1>2, <3>3 DEF Room
      <4> QED  BY <1>1, <1>2, <4>1, Delays
    <3> QED  BY <1>3, <3>1, <3>2, <3>3
  <2>2. ASSUME NEW i \in Nat, NEW l \in Nat, i <= BeforeIo, l <= AfterIo
        PROVE  i + l + AckDelay <= Dur
    BY <2>2, Delays
  <2>3. intctr' + left' + AckDelay <= Dur
    BY <1>1, <1>2, <2>1, <2>2
  <2> QED  BY <1>2, <2>1, <2>3 DEF Room
<1> QED  BY <1>1, <1>2, <1>3, Delays DEF Bound

\* A frame interrupt that finds the Z80 with interrupts on is acknowledged
\* before its 32 clocks (zint.v:186-196) are over, by a Z80 whose longest
\* instruction, whether or not it enters or leaves VDOS, and whose delay to
\* the acknowledge fit in them.
THEOREM FrameIsTaken == Spec => FrameTaken
<1>1. Init => Bound
  BY Delays DEF Init, Bound
<1>2. Inv /\ Inv' /\ Bound /\ [Next]_vars => Bound'
  <2> SUFFICES ASSUME Inv, Inv', Bound, [Next]_vars
               PROVE  Bound'
    OBVIOUS
  <2>1. ASSUME NEW start \in SUBSET Sources, Clock(start) \/ WaitState(start)
        PROVE  Bound'
    <3>1. PICK zpos \in BOOLEAN : Hardware(start, zpos) /\ (wait_r \/ ~zpos)
      BY <2>1 DEF Clock, WaitState
    <3>2. UNCHANGED <<phase, left, io, iff, vdos>>
      BY <2>1 DEF Clock, WaitState, z80, regs
    <3>3. /\ watch' => iff'
          /\ watch' /\ "frm" \in pending' =>
               intctr' = 0 \/ (Room /\ intctr' = intctr)
      BY <3>1, CountIsSlow
    <3>4. intctr' = 0 => Room'
      <4>1. left \in Nat /\ left <= Dur
        BY Delays DEF Inv, TypeOK
      <4> QED  BY <3>2, <4>1, Delays DEF Room, Bound
    <3>5. Room /\ intctr' = intctr => Room'
      BY <3>2 DEF Room
    <3> QED  BY <3>2, <3>3, <3>4, <3>5 DEF Bound
  <2>2. ASSUME NEW start \in SUBSET Sources, Z80Clock(start)
        PROVE  Bound'
    BY <2>2, Z80KeepsBound
  <2>3. ASSUME NEW start \in SUBSET Sources, PortAccess(start)
        PROVE  Bound'
    BY <2>3, PortKeepsBound
  <2>4. CASE Reset
    BY <2>4, Delays DEF Reset, Bound
  <2>5. CASE UNCHANGED vars
    BY <2>5 DEF Bound, Room, vars, zint, regs, z80
  <2> QED  BY <2>1, <2>2, <2>3, <2>4, <2>5 DEF Next
<1>3. IInv => (intctr_fin /\ "frm" \in pending /\ phase # "ack" => ~watch)
  <2> SUFFICES ASSUME Inv, Bound, intctr = Dur, "frm" \in pending, phase # "ack", watch
               PROVE  FALSE
    BY DEF IInv, intctr_fin
  <2>1. Room /\ phase \in {"run", "taken"} /\ left \in Nat \ {0} /\ vdos \in BOOLEAN
    BY Delays DEF Bound, Inv, TypeOK
  <2> QED  BY <2>1, Delays DEF Room
<1>4. Spec => []IInv
  BY <1>1, <1>2, NothingLost, PTL DEF Spec, IInv
<1>5. IInv /\ [Next]_vars =>
        [intctr_fin /\ "frm" \in pending /\ phase # "ack" => ~watch]_vars
  BY <1>3
<1> QED  BY <1>4, <1>5, PTL DEF Spec, FrameTaken

=============================================================================
