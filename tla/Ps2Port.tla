------------------------------ MODULE Ps2Port ------------------------------
(***************************************************************************)
(* A PS/2 port with its task and its device: the keyboard's or the         *)
(* mouse's.  The link is the same in both; the variables of the other      *)
(* port's task stand still.                                                *)
(***************************************************************************)
EXTENDS Ps2Link

CONSTANTS
  MaxKeys, InitSequence, MaxHaste, MaxChanges,
  MouseFaults    \* MaxFaults of the mouse's port

ASSUME PortAssumption == {MaxKeys, MaxHaste, MaxChanges, MouseFaults} \subseteq Nat

VARIABLES
  which,         \* "keyboard" or "mouse"
  cmd, cmd_count, keys,
  initstep, resp_count, mcmd, in_cmd, reinit_delay, wait_state,
  wheel_type, both, present, stream, wheel, haste, changes

K == INSTANCE Ps2Keyboard
M == INSTANCE Ps2Mouse

ASSUME SequenceAssumption == InitSequence \in Seq(M!MBytes)

\* It begins with a reset, has an argument only after a command that takes one,
\* and enables the mouse last.
ASSUME OrderAssumption ==
  /\ InitSequence # <<>> /\ InitSequence[1] = "RESET"
  /\ \A i \in 2 .. Len(InitSequence) :
       /\ InitSequence[i] = "arg" => InitSequence[i - 1] \in {"RATE", "RES"}
       /\ InitSequence[i - 1] # "ENABLE"

kown == <<cmd, cmd_count, keys>>
mown == <<initstep, resp_count, mcmd, in_cmd, reinit_delay, wait_state,
          wheel_type, both, present, stream, wheel, haste, changes>>
vars == <<link, pc, which, kown, mown>>

Init ==
  /\ which \in {"keyboard", "mouse"}
  /\ LinkInit
  /\ K!Init /\ M!Init
  /\ which = "keyboard" => ~stream

OfLink(A) == A /\ UNCHANGED <<which, kown, mown>>
OfKeyboard(A) == which = "keyboard" /\ A /\ UNCHANGED <<which, mown>>
OfMouse(A) == which = "mouse" /\ A /\ UNCHANGED <<which, kown>>

MayFail == which = "mouse" => Cardinality(faults) < MouseFaults

Next ==
  \/ OfLink(Int4)
  \/ OfLink(Tick)
  \/ (MayFail /\ OfLink(Fault))
  \/ OfKeyboard(K!Next)
  \/ OfMouse(M!Next)

Spec == Init /\ [][Next]_vars

\* Interrupts are served, the timer ticks, the loop goes round, and a device
\* that is there does what it has to.  The mouse's pauses end, though its task
\* sees that they have only when it looks, and the user moves the mouse again
\* when all is quiet.
Fairness ==
  /\ WF_vars(OfLink(Int4))
  /\ WF_vars(OfLink(Tick))
  /\ WF_vars(OfKeyboard(K!Task) \/ OfMouse(M!Task))
  /\ WF_vars(OfKeyboard(K!DevStep) \/ OfMouse(M!DevStep))
  /\ SF_vars(OfMouse(M!WaitOver))
  /\ SF_vars(OfMouse(M!Delayed))
  /\ SF_vars(OfMouse(M!Move))

FairSpec == Spec /\ Fairness

-----------------------------------------------------------------------------
(* Properties                                                              *)

\* The types, and: no byte of the device is lost or mixed with another; the
\* Z80 is shown a mouse only when there is one that sends its movements.
Inv ==
  /\ which = "keyboard" => K!Inv
  /\ which = "mouse" => M!Inv

\* The device takes an argument - the LEDs, a rate, the resolution - for what
\* it is: it comes when the device has acknowledged the command it belongs to,
\* also after noise.  (A frame that lacks a bit may look like an acknowledge,
\* and a change of the mouse's resolution may come amidst another command.)
ArgumentExpected ==
  [][mode = "recv" /\ mode' = "idle" /\ bits' = Bits /\ shifter = "arg"
     /\ "missed" \notin faults /\ changes = 0 => expects = "arg"]_vars

\* A command to the keyboard comes to an end, unless the plug is pulled.
CommandEnds == K!CommandEnds

\* The packets of the mouse are taken in step.
InStep == M!InStep

\* The mouse gets ready, and does so again whatever moment it is moved at.
MouseReady == which = "mouse" => M!MouseReady

=============================================================================
