------------------------------ MODULE Ps2Link ------------------------------
(***************************************************************************)
(* One PS/2 port of the AVR (ps2.c, INT4 and INT5 of interrupts.c) and the *)
(* device on it.  The keyboard's and the mouse's port have the same code.  *)
(* Each falling edge of CLK moves one bit of a frame; count goes from Full *)
(* to 0, and CLK is held low until the main loop has seen the frame.  A    *)
(* timer gives a frame up whose edges stay away.                           *)
(*                                                                         *)
(* A byte is a value, and the shift register is the byte its bits come     *)
(* from.  The interrupts come between any two steps of the task, of which  *)
(* Ps2Keyboard and Ps2Mouse have the rest.                                 *)
(***************************************************************************)
EXTENDS Naturals, Sequences, FiniteSets

CONSTANTS
  Bits,        \* of a frame, 11: a byte counts them
  Timeout,     \* PS2KEYBOARD_TIMEOUT, in overflows of timer 2, 20
  PauseBits,   \* edges that fit between the test of count and a command
  MaxFaults    \* kinds of faults in a run

ASSUME LinkAssumption ==
  /\ Bits \in 3 .. 254 /\ Timeout \in Nat \ {0}
  /\ PauseBits \in 0 .. (Bits - 2)
  /\ MaxFaults \in Nat

VARIABLES
  count,       \* ps2keyboard_count: edges to come, and 1
  timeout,     \* ps2keyboard_timeout
  dir,         \* FLAG_PS2KEYBOARD_DIRECTION: "recv" or "send"
  shifter,     \* the byte in the shift register
  hold,        \* the AVR holds CLK low
  drive,       \* the AVR drives DAT
  edge,        \* INTF4: an edge waits for its interrupt
  pc,          \* where the task is
  mode,        \* device: "idle", "send", "recv", "gone"
  bits,        \* device: edges given in this frame
  byte,        \* device: what it sends, or sent last
  queue,       \* device: what it has to send
  expects,     \* device: a command or the argument of one
  done,        \* history: the byte it has sent, until the task takes it
  faults       \* history: kinds of faults so far

port   == <<count, timeout, dir, shifter, hold, drive, edge>>
device == <<mode, bits, byte, queue, expects>>
link   == <<port, device, done, faults>>

Full == Bits + 1

None == "none"

-----------------------------------------------------------------------------
(* The interrupts                                                          *)

\* The interrupt of the AVR's own edge waits for 250 us before it lets CLK go:
\* a device that was sending has given up by then.
HeldLongEnough == hold /\ dir = "send" /\ count = Full => mode \notin {"send", "recv"}

\* INT4_vect.  The first edge of a command is the AVR's own: it drives DAT
\* and lets CLK go.  After the last bit CLK is held.
Int4 ==
  /\ edge /\ HeldLongEnough
  /\ count' = IF dir = "recv" /\ count = 2 THEN 0 ELSE (count + 255) % 256
  /\ shifter' = IF dir = "send" THEN shifter
                ELSE IF bits = Full - count + 1 /\ (count = Full \/ shifter = byte)
                     THEN byte ELSE "mixed"
  /\ drive' = IF dir = "recv" \/ count' \in {0} \cup (2 .. Bits - 1) THEN drive
              ELSE count' = Bits
  /\ hold' = ((hold /\ ~(dir = "send" /\ count' = Bits)) \/ count' = 0)
  /\ edge' = FALSE
  /\ timeout' = Timeout
  /\ UNCHANGED <<dir, pc, device, done, faults>>

\* The timeout takes longer than a device that is at work, and than one that
\* has to see that CLK is held.
Idle == mode = "gone" \/ (mode = "idle" /\ (hold \/ ~drive))

\* Mutant: a command whose first edge is the only one never times out.
TickLate ==
  /\ count \in 1 .. Bits - 1
  /\ timeout > 0
  /\ timeout = 1 => ~edge /\ Idle /\ pc # "pull"
  /\ timeout' = timeout - 1
  /\ UNCHANGED <<count, dir, shifter, hold, drive, edge, pc, device, done, faults>>

\* TIMER2_OVF_vect.
Tick ==
  /\ count \in 1 .. Bits
  /\ timeout > 0
  /\ timeout = 1 => ~edge /\ Idle /\ pc # "pull"
  /\ timeout' = timeout - 1
  /\ UNCHANGED <<count, dir, shifter, hold, drive, edge, pc, device, done, faults>>

-----------------------------------------------------------------------------
(* Parts of the task                                                       *)

\* ps2keyboard_send(): up to the direction, and the pull of CLK.  It makes an
\* edge unless CLK is held already or the device has it low just then; as the
\* pause is longer than that, the device's edge has been counted or is about
\* to be.
Load(b) == shifter' = b /\ dir' = "send"

Pull ==
  /\ pc = "pull"
  /\ hold' = TRUE
  /\ edge' \in IF hold THEN {edge}
               ELSE IF mode = "send" /\ bits > 0 /\ count < Full THEN {edge, TRUE}
               ELSE {TRUE}
  /\ pc' = "check"
  /\ UNCHANGED <<count, timeout, dir, shifter, drive, device, done, faults>>

\* ps2keyboard_release_clk(): the counter first, then the pins.
Release1 ==
  /\ pc = "release"
  /\ count' = Full
  /\ pc' = "pins"
  /\ UNCHANGED <<timeout, dir, shifter, hold, drive, edge, device, done, faults>>

Release2 ==
  /\ pc = "pins"
  /\ dir' = "recv"
  /\ drive' = (drive /\ dir = "recv")
  /\ edge' = FALSE
  /\ hold' = FALSE
  /\ pc' = "loop"
  /\ UNCHANGED <<count, timeout, shifter, device, done, faults>>

TimedOut == count < Full /\ timeout = 0

\* ps2_decode(): nothing, if the frame is damaged.  Bits of two frames may
\* look like any byte or like none.
Decoded(Bytes) ==
  IF shifter = "mixed" THEN Bytes \cup {None} ELSE {shifter}

-----------------------------------------------------------------------------
(* The device                                                              *)

Short == {"pause", "pull", "release", "pins"}

\* It sees CLK high and DAT low, and takes a byte.
DevRequest ==
  /\ mode = "idle" /\ ~hold /\ ~edge /\ drive
  /\ pc \notin Short
  /\ mode' = "recv" /\ bits' = 0
  /\ UNCHANGED <<port, pc, byte, queue, expects, done, faults>>

\* It starts to send what it has to send.
DevStart ==
  /\ mode = "idle" /\ ~hold /\ ~edge /\ ~drive
  /\ queue # <<>>
  /\ mode' = "send" /\ bits' = 0 /\ byte' = Head(queue)
  /\ UNCHANGED <<port, pc, queue, expects, done, faults>>

\* A falling edge.  It comes long after the interrupt of the one before, and
\* few of a frame fit into the pause before a command and a release.
Edge ==
  /\ ~hold /\ ~edge
  /\ pc \in Short => bits < PauseBits
  /\ edge' = TRUE
  /\ bits' = bits + 1
  /\ UNCHANGED <<count, timeout, dir, shifter, hold, drive, pc, byte>>

DevSend ==
  /\ mode = "send"
  /\ Edge
  /\ IF bits' = Bits
     THEN mode' = "idle" /\ queue' = Tail(queue) /\ done' = byte
     ELSE UNCHANGED <<mode, queue, done>>
  /\ UNCHANGED <<expects, faults>>

\* The AVR holds CLK before the frame is over: it will be sent again.
DevAbort ==
  /\ mode \in {"send", "recv"} /\ hold
  /\ mode' = "idle"
  /\ UNCHANGED <<port, pc, bits, byte, queue, expects, done, faults>>

\* Each once at most: an edge comes while another interrupt runs and the one
\* before still waits (INT5_vect waits for 250 us); noise damages a frame,
\* one way or the other; the plug is pulled.
Missed ==
  /\ edge /\ mode = "send" /\ bits + 1 < Bits
  /\ bits' = bits + 1
  /\ UNCHANGED <<mode, queue, shifter, done>>

Damaged ==
  /\ (count = 0 /\ dir = "recv") \/ mode = "recv"
  /\ shifter' = None /\ done' = None
  /\ UNCHANGED <<mode, queue, bits>>

Gone ==
  /\ mode' = "gone" /\ queue' = <<>>
  /\ UNCHANGED <<shifter, bits, done>>

Fault ==
  /\ \E f \in {"missed", "damaged", "gone"} \ faults :
       /\ faults' = faults \cup {f}
       /\ \/ f = "missed" /\ Missed
          \/ f = "damaged" /\ Damaged
          \/ f = "gone" /\ Gone
  /\ Cardinality(faults') <= MaxFaults
  /\ UNCHANGED <<count, timeout, dir, hold, drive, edge, pc, byte, expects>>

-----------------------------------------------------------------------------
(* What both ports begin with, and what they keep                          *)

LinkInit ==
  /\ count = Full /\ timeout = 0 /\ dir = "recv" /\ shifter = None
  /\ hold = FALSE /\ drive = FALSE /\ edge = FALSE
  /\ pc = "loop"
  /\ mode = "idle" /\ bits = 0 /\ byte = None /\ queue = <<>> /\ expects = "cmd"
  /\ done = None /\ faults = {}

LinkTypeOK(Bytes) ==
  /\ count \in 0 .. Full /\ timeout \in 0 .. Timeout
  /\ dir \in {"recv", "send"} /\ shifter \in Bytes \cup {None, "mixed"}
  /\ hold \in BOOLEAN /\ drive \in BOOLEAN /\ edge \in BOOLEAN
  /\ pc \in {"loop", "pause", "pull", "check", "release", "pins"}
  /\ mode \in {"idle", "send", "recv", "gone"} /\ bits \in 0 .. Bits
  /\ byte \in Bytes \cup {None} /\ queue \in Seq(Bytes) /\ expects \in {"cmd", "arg"}
  /\ done \in Bytes \cup {None}
  /\ faults \subseteq {"missed", "damaged", "gone"}

\* A byte that the device has sent waits in the port, whole, for the task.
\* The last interrupt may still be under way; the exception is a frame of
\* which an interrupt was missed, and the frames until the timeout.
ByteKept ==
  done # None /\ "missed" \notin faults =>
    edge \/ (count = 0 /\ dir = "recv" /\ hold /\ shifter = done)

\* The AVR lets CLK go again, whatever the device does.
LineFreed == hold ~> ~hold

=============================================================================
