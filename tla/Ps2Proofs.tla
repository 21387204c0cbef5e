----------------------------- MODULE Ps2Proofs -----------------------------
(***************************************************************************)
(* Proofs about Ps2Port, for every length of a frame that its counter can  *)
(* count, every timeout, any number of keys, movements, changes of the     *)
(* resolution and kinds of faults: types; that no byte of the device is    *)
(* lost or mixed with another; that it takes an argument for what it is;   *)
(* and that the mouse's packets are taken in step.                         *)
(*                                                                         *)
(* The AVR's count and the device's bits are two ends of one frame: while  *)
(* the device sends, edges given and edges still to be counted make a      *)
(* whole one (Receiving, Pulling).  LinkInv says this for each phase of    *)
(* the line and of the task that shares it with the interrupts; it is the  *)
(* same for both ports, with the bytes of the port as its parameter.  What *)
(* the keyboard's and the mouse's task add is that no command is loaded    *)
(* while another is on its way (Asked, InOrder), and for the mouse that    *)
(* the acknowledge the task waits for is that of its own command           *)
(* (Answers), which is why only a mouse that streams is shown to the Z80.  *)
(*                                                                         *)
(* A second invariant, ArgsInv, counts the answers: while a byte is on its *)
(* way there is no acknowledge before its own (OneAnswer), so that a stage *)
(* ends when the device has obeyed and no sooner; and behind the answer of *)
(* the mouse there is nothing, or what is left of one packet (InPackets).  *)
(***************************************************************************)
EXTENDS Ps2Port, SequenceTheorems, TLAPS

-----------------------------------------------------------------------------
(* The inductive invariant: the line, for either port                      *)

\* What InPhase says does not outlive a missed interrupt.
Whole == "missed" \notin faults

\* An edge that waits for its interrupt has been given, but not counted.
Waiting == IF edge THEN 1 ELSE 0

\* Edges that may still come in a moment of the task.
Left == IF mode = "gone" THEN 0
        ELSE IF mode = "idle" THEN PauseBits
        ELSE IF bits < PauseBits THEN PauseBits - bits ELSE 0

\* The device is within a frame, and sends the first byte of its queue.
Device ==
  /\ mode \in {"send", "recv"} => bits < Bits
  /\ mode = "send" => queue # <<>> /\ byte = Head(queue)

\* A complete frame holds CLK, and its last edge was counted in time.
Empty == count = 0 => hold /\ ~edge /\ timeout > 0

\* Between the two halves of a release the counter is full, but for the edges
\* that the device can still give, which are too few for a frame.
Pins == pc = "pins" => count >= Waiting + 2 + Left /\ (hold => count >= Bits + Waiting)

\* A byte comes: edges given and edges to count make a frame, and the shift
\* register has what has been counted.  done is set with the last edge, which is
\* then to be counted.
Receiving ==
  dir = "recv" /\ ~hold =>
    /\ mode = "send" => /\ count + bits = Full + Waiting /\ done = None
                        /\ bits >= 1 + Waiting => shifter = byte
                        /\ count < Full => timeout > 0
    /\ mode = "idle" /\ edge => done # None
    /\ mode = "idle" /\ ~edge => count = Full
    /\ mode = "gone" => count >= 2 /\ (edge /\ count = 2 => done # None)
    /\ done # None => /\ edge /\ count = 2 /\ bits = Bits
                      /\ shifter = done /\ byte = done /\ timeout > 0
    /\ pc \in {"release", "pins"} => mode = "gone" /\ done = None
    /\ pc # "pull"

\* A byte has come: CLK is held until the task has taken it and let the line go.
Complete ==
  dir = "recv" /\ hold =>
    /\ mode \in {"idle", "gone"} /\ ~edge
    /\ \/ count = 0 /\ pc \in {"loop", "check", "release"}
       \/ count = Full /\ pc = "pins"
    /\ pc \in {"release", "pins"} => done = None
    /\ pc \in {"loop", "check"} => shifter = done

\* DAT is driven only for a command, and the device takes a byte only then.
Quiet ==
  /\ drive => dir = "send"
  /\ dir = "send" => done = None
  /\ mode = "recv" => dir = "send" /\ ~hold /\ pc \in {"loop", "check", "pause"}

\* Before a command the task has seen an idle line ...
Pausing ==
  pc = "pause" =>
    /\ done = None
    /\ dir = "recv" => ~hold /\ (mode = "idle" => ~edge)

\* ... but at the pull the device may have begun a frame.
Pulling ==
  pc = "pull" =>
    /\ dir = "send"
    /\ hold => count = 0
    /\ ~hold => /\ mode = "send" => count + bits = Full + Waiting
                /\ mode = "idle" => IF edge THEN count = 2 ELSE count \in {1, Full}
                /\ mode # "gone" /\ count < Full => timeout > 0
                /\ mode = "gone" => count >= 1 + Waiting

\* A command holds CLK, for its first edge or after its last.
Held ==
  dir = "send" /\ hold =>
    /\ mode = "send" => /\ pc \in {"loop", "pause", "check"}
                        /\ count < Full => timeout > 0
                        /\ count >= 1 + Waiting
    /\ mode = "idle" /\ edge => /\ pc \notin {"release", "pins"}
                                /\ count < Full => timeout > 0
    /\ count = Full => pc # "release" /\ (edge \/ pc = "pins")
    /\ count < Full => pc # "pins" /\ count >= Waiting

\* The device takes the bits of a command.
Sending ==
  dir = "send" /\ ~hold /\ pc # "pull" =>
    /\ mode # "send"
    /\ mode # "gone" => /\ pc \in {"loop", "pause", "check"}
                        /\ timeout > 0 /\ (drive <=> count >= 2)
    /\ mode = "recv" => count + bits = Bits + Waiting
    /\ mode = "idle" => IF edge THEN count = 1 ELSE count = Bits

InPhase == Receiving /\ Complete /\ Quiet /\ Pausing /\ Pulling /\ Held /\ Sending

\* The line, if the bytes of its port are B.
LinkInv(B) == LinkTypeOK(B) /\ Device /\ Empty /\ Pins /\ (Whole => InPhase)

-----------------------------------------------------------------------------
(* The inductive invariant: the two tasks                                  *)

KeyboardTypes ==
  /\ cmd \in K!Commands \cup {None} /\ cmd_count \in 0 .. 4
  /\ cmd = None <=> cmd_count = 0
  /\ keys \in 0 .. MaxKeys

\* The keyboard's task sends only what it then waits to be acknowledged, and a
\* second command only when that has come ...
Asked == dir = "send" /\ pc \notin {"release", "pins"} => K!AwaitsFA

\* ... and its pull finds CLK free, and the counter full unless the device has
\* begun a frame in the pause.
Unbegun == Whole /\ pc = "pull" => ~hold /\ (mode = "idle" => count = Full)

KeyboardInv == LinkInv(K!Bytes) /\ KeyboardTypes /\ Asked /\ Unbegun

\* The mouse's task: its stages are numbered within the sequence and the answers.
MouseTypes ==
  /\ initstep \in 1 .. Len(InitSequence) + 1 /\ resp_count \in 0 .. 3
  /\ mcmd \in {None, "RES", "ENABLE"} /\ wait_state \in {None, "INIT", "CMD", "RES"}
  /\ in_cmd \in BOOLEAN /\ reinit_delay \in BOOLEAN /\ wheel_type \in BOOLEAN
  /\ both \in BOOLEAN /\ present \in BOOLEAN /\ stream \in BOOLEAN /\ wheel \in BOOLEAN
  /\ haste \in 0 .. MaxHaste /\ changes \in 0 .. MaxChanges

\* A byte that is on its way has been counted as the first or the third of a
\* stage.
InOrder ==
  /\ in_cmd => mcmd # None /\ M!InitByte = None /\ resp_count >= 1
  /\ M!InitByte # None => mcmd = "RES" /\ ~present /\ ~in_cmd
  /\ dir = "send" /\ pc \notin {"release", "pins"} => resp_count \in {1, 3}
  /\ pc # "pause"

\* While it waits for 200 us, the task has not begun what it waits for.
Silent ==
  wait_state # None =>
    /\ pc \in {"loop", "check"} /\ dir = "recv"
    /\ wait_state = "INIT" <=> M!InitByte # None
    /\ wait_state = "CMD" => resp_count = 0 /\ mcmd # None
    /\ wait_state = "RES" => resp_count = 2 /\ mcmd = "RES" /\ in_cmd
    /\ wait_state = "INIT" => resp_count = 0

\* A mouse that is being reset is not shown, and ENABLE is sent as a command.
Given ==
  dir = "send" =>
    /\ shifter = "RESET" => ~present
    /\ mcmd = "ENABLE" => in_cmd /\ shifter \in {"ENABLE", None}

\* The task sees an acknowledge next.
Acknowledged ==
  \/ done = "FA"
  \/ queue # <<>> /\ Head(queue) = "FA"

\* There is at most one, in front, and if ENABLE is what it acknowledges, the
\* mouse streams.
Answers ==
  /\ \A i \in 2 .. Len(queue) : queue[i] # "FA"
  /\ done = "FA" /\ queue # <<>> => Head(queue) # "FA"
  /\ mcmd = "ENABLE" /\ Acknowledged => in_cmd /\ stream
  /\ present => stream

MouseInv ==
  LinkInv(M!MBytes) /\ MouseTypes /\ InOrder /\ Silent /\ (Whole => Given /\ Answers)

IInv ==
  /\ which \in {"keyboard", "mouse"}
  /\ which = "keyboard" => KeyboardInv
  /\ which = "mouse" => MouseInv

-----------------------------------------------------------------------------
(* The line: interrupts, device and faults                                 *)

\* The counter does not wrap: an edge is counted from Full down.
LEMMA Int4Counts ==
  ASSUME NEW B, LinkInv(B), Int4
  PROVE  /\ count \in 1 .. Full
         /\ count' = IF dir = "recv" /\ count = 2 THEN 0 ELSE count - 1
         /\ hold' <=> ((hold /\ ~(dir = "send" /\ count' = Bits)) \/ count' = 0)
  <1> USE LinkAssumption DEF Full
  <1>1. count \in 1 .. Full
    BY DEF LinkInv, LinkTypeOK, Int4, Empty
  <1>2. (count + 255) % 256 = count - 1
    <2> DEFINE c == count
    <2>1. c \in 1 .. 255
      BY <1>1
    <2> HIDE DEF c
    <2>2. (c + 255) % 256 = c - 1
      BY <2>1
    <2> QED
      BY <2>2 DEF c
  <1> QED
    BY <1>1, <1>2 DEF Int4

LEMMA Int4Keeps ==
  ASSUME NEW B, None \notin B, LinkInv(B), Int4
  PROVE  LinkInv(B)'
  <1> USE LinkAssumption DEF Full, None
  <1>1. /\ count \in 1 .. Full /\ timeout \in 0 .. Timeout /\ edge
        /\ bits \in 0 .. Bits /\ dir \in {"recv", "send"} /\ hold \in BOOLEAN
        /\ LinkTypeOK(B)
    BY Int4Counts DEF LinkInv, LinkTypeOK, Int4
  <1>2. count' = IF dir = "recv" /\ count = 2 THEN 0 ELSE count - 1
    BY Int4Counts
  <1>3. /\ shifter' = IF dir = "send" THEN shifter
                  ELSE IF bits = Full - count + 1 /\ (count = Full \/ shifter = byte)
                       THEN byte ELSE "mixed"
        /\ drive' = IF dir = "recv" \/ count' \in {0} \cup (2 .. Bits - 1) THEN drive
                    ELSE count' = Bits
        /\ edge' = FALSE
        /\ timeout' = Timeout
        /\ dir' = dir /\ pc' = pc /\ mode' = mode /\ bits' = bits /\ byte' = byte
        /\ queue' = queue /\ expects' = expects /\ done' = done /\ faults' = faults
    BY DEF Int4, device
  <1>4. hold' <=> ((hold /\ ~(dir = "send" /\ count' = Bits)) \/ count' = 0)
    BY Int4Counts
  <1>5. LinkTypeOK(B)'
    <2>1. hold' \in BOOLEAN /\ edge' \in BOOLEAN /\ drive' \in BOOLEAN
      BY <1>1 DEF Int4, LinkTypeOK
    <2>2. count' \in 0 .. Full /\ timeout' \in 0 .. Timeout
      BY <1>1, <1>2, <1>3
    <2>3. shifter' \in B \cup {None, "mixed"}
      BY <1>1, <1>3 DEF LinkTypeOK
    <2> QED
      BY <1>1, <1>3, <2>1, <2>2, <2>3 DEF LinkTypeOK
  <1>6. Device' /\ Empty' /\ Pins'
    <2>1. Device'
      BY <1>3 DEF LinkInv, Device
    <2>2. Empty'
      BY <1>1, <1>2, <1>3, <1>4 DEF Empty
    <2>3. Pins'
      BY <1>1, <1>2, <1>3, <1>4 DEF LinkInv, Pins, Waiting, Left
    <2> QED
      BY <2>1, <2>2, <2>3
  <1>7. ASSUME Whole' PROVE InPhase'
    <2>1. InPhase /\ Device /\ Empty /\ Pins
      BY <1>3, <1>7 DEF Whole, LinkInv
    <2>2. Receiving'
      BY <1>1, <1>2, <1>3, <1>4, <2>1 DEF InPhase, Receiving, Waiting
    <2>3. Complete'
      BY <1>1, <1>2, <1>3, <1>4, <2>1
      DEF InPhase, Receiving, Complete, Quiet, Pausing, Waiting, Device, LinkTypeOK
    <2>4. Quiet' /\ Pausing'
      BY <1>1, <1>2, <1>3, <1>4, <2>1
      DEF InPhase, Receiving, Quiet, Pausing, Sending, Waiting, Device, LinkTypeOK
    <2>5. Pulling'
      BY <1>1, <1>2, <1>3, <1>4, <2>1 DEF InPhase, Pulling, Waiting
    <2>6. Held'
      <3>1. CASE hold
        BY <1>1, <1>2, <1>3, <1>4, <2>1, <3>1 DEF InPhase, Held, Waiting
      <3>2. CASE ~hold
        BY <1>1, <1>2, <1>3, <1>4, <2>1, <3>2
        DEF InPhase, Held, Sending, Pulling, Pins, Waiting, Left
      <3> QED
        BY <3>1, <3>2
    <2>7. Sending'
      BY <1>1, <1>2, <1>3, <1>4, <2>1
      DEF InPhase, Held, Sending, Int4, HeldLongEnough, Waiting, LinkTypeOK
    <2> QED
      BY <2>2, <2>3, <2>4, <2>5, <2>6, <2>7 DEF InPhase
  <1> QED
    BY <1>5, <1>6, <1>7 DEF LinkInv

LEMMA TickKeeps ==
  ASSUME NEW B, None \notin B, LinkInv(B),
         Tick
  PROVE  LinkInv(B)'
  <1> USE LinkAssumption DEF Full, None, Tick, Idle, port, device, LinkInv
  <1>1. LinkTypeOK(B)'
    BY DEF LinkTypeOK
  <1>2. Device' /\ Empty' /\ Pins'
    BY DEF Device, Empty, Pins, Waiting, Left
  <1>3. ASSUME Whole' PROVE InPhase'
    <2>1. Whole /\ InPhase
      BY <1>3 DEF Whole
    <2>2. Receiving' /\ Complete'
      BY <2>1 DEF InPhase, Receiving, Complete, Waiting, LinkTypeOK
    <2>3. Quiet' /\ Pausing' /\ Pulling'
      BY <2>1 DEF InPhase, Quiet, Pausing, Pulling, Waiting, LinkTypeOK
    <2>4. Held' /\ Sending'
      BY <2>1 DEF InPhase, Held, Sending, Waiting, LinkTypeOK
    <2> QED
      BY <2>2, <2>3, <2>4 DEF InPhase
  <1> QED
    BY <1>1, <1>2, <1>3

LEMMA PullKeeps ==
  ASSUME NEW B, None \notin B, LinkInv(B),
         Pull
  PROVE  LinkInv(B)'
  <1> USE LinkAssumption DEF Full, None, Pull, port, device, LinkInv
  <1>1. LinkTypeOK(B)'
    BY DEF LinkTypeOK
  <1>2. Device' /\ Empty' /\ Pins'
    BY DEF LinkTypeOK, Device, Empty, Pins, Waiting, Left
  <1>3. ASSUME Whole' PROVE InPhase'
    <2>1. Whole /\ InPhase
      BY <1>3 DEF Whole
    <2>2. Receiving' /\ Complete'
      BY <2>1 DEF InPhase, Receiving, Complete
    <2>3. Quiet' /\ Pausing' /\ Pulling'
      BY <2>1 DEF InPhase, Quiet, Pausing, Pulling
    <2>4. Held' /\ Sending'
      <3>1. /\ pc = "pull" /\ dir = "send" /\ dir' = "send" /\ hold' = TRUE
            /\ pc' = "check" /\ count' = count
        BY <2>1 DEF InPhase, Pulling
      <3>2. mode # "recv"
        BY <2>1, <3>1 DEF InPhase, Quiet
      <3>3. CASE hold
        BY <2>1, <3>1, <3>2, <3>3 DEF InPhase, Held, Sending, Waiting
      <3>4. CASE ~hold
        <4>1. CASE mode = "send"
          <5>1. edge' \/ (count < Full /\ ~edge')
            BY <3>4, <4>1, Zenon DEF LinkTypeOK
          <5>2. /\ count \in 0 .. Full /\ bits \in 0 .. Bits /\ bits < Bits
                /\ count + bits >= Full /\ (count < Full => timeout > 0)
            BY <2>1, <3>1, <3>4, <4>1 DEF InPhase, Pulling, Device, Waiting, LinkTypeOK
          <5> QED
            BY <3>1, <4>1, <5>1, <5>2 DEF Held, Sending, Waiting
        <4>2. CASE mode # "send"
          <5>1. edge'
            BY <3>4, <4>2
          <5>2. mode \in {"idle", "gone"} /\ count \in 0 .. Full
            BY <3>2, <4>2 DEF LinkTypeOK
          <5>3. count >= 1 /\ (mode = "idle" /\ count < Full => timeout > 0)
            BY <2>1, <3>1, <3>4, <5>2 DEF InPhase, Pulling, Waiting
          <5> QED
            BY <3>1, <5>1, <5>2, <5>3 DEF Held, Sending, Waiting
        <4> QED
          BY <4>1, <4>2
      <3> QED
        BY <3>3, <3>4
    <2> QED
      BY <2>2, <2>3, <2>4 DEF InPhase
  <1> QED
    BY <1>1, <1>2, <1>3

LEMMA Release1Keeps ==
  ASSUME NEW B, None \notin B, LinkInv(B),
         Release1
  PROVE  LinkInv(B)'
  <1> USE LinkAssumption DEF Full, None, Release1, port, device, LinkInv
  <1>1. LinkTypeOK(B)'
    BY DEF LinkTypeOK
  <1>2. Device' /\ Empty' /\ Pins'
    BY DEF LinkTypeOK, Device, Empty, Pins, Waiting, Left
  <1>3. ASSUME Whole' PROVE InPhase'
    <2>1. Whole /\ InPhase
      BY <1>3 DEF Whole
    <2>2. Receiving' /\ Complete'
      BY <2>1 DEF InPhase, Receiving, Complete
    <2>3. Quiet' /\ Pausing' /\ Pulling'
      BY <2>1 DEF InPhase, Quiet, Pausing, Pulling
    <2>4. Held' /\ Sending'
      BY <2>1 DEF InPhase, Held, Sending
    <2> QED
      BY <2>2, <2>3, <2>4 DEF InPhase
  <1> QED
    BY <1>1, <1>2, <1>3

LEMMA Release2Keeps ==
  ASSUME NEW B, None \notin B, LinkInv(B),
         Release2
  PROVE  LinkInv(B)'
  <1> USE LinkAssumption DEF Full, None, Release2, port, device, LinkInv
  <1>1. LinkTypeOK(B)'
    BY DEF LinkTypeOK
  <1>2. Device' /\ Empty' /\ Pins'
    BY DEF Device, Empty, Pins, Waiting
  <1>3. ASSUME Whole' PROVE InPhase'
    <2>1. Whole /\ InPhase
      BY <1>3 DEF Whole
    <2>2. Receiving' /\ Complete'
      BY <2>1
      DEF InPhase, Receiving, Complete, Quiet, Held, Sending, Waiting, LinkTypeOK, Pins, Left
    <2>3. Quiet' /\ Pausing' /\ Pulling'
      BY <2>1
      DEF InPhase, Receiving, Complete, Quiet, Pausing, Pulling, Held, Sending, Device,
          Empty, Waiting, LinkTypeOK
    <2>4. Held' /\ Sending'
      BY <2>1 DEF Held, Sending
    <2> QED
      BY <2>2, <2>3, <2>4 DEF InPhase
  <1> QED
    BY <1>1, <1>2, <1>3

LEMMA RequestKeeps ==
  ASSUME NEW B, None \notin B, LinkInv(B),
         DevRequest
  PROVE  LinkInv(B)'
  <1> USE LinkAssumption DEF Full, None, DevRequest, Short, port, device, LinkInv
  <1>1. LinkTypeOK(B)'
    BY DEF LinkTypeOK
  <1>2. Device' /\ Empty' /\ Pins'
    BY DEF Device, Empty, Pins
  <1>3. ASSUME Whole' PROVE InPhase'
    <2>1. Whole /\ InPhase
      BY <1>3 DEF Whole
    <2>2. Receiving' /\ Complete'
      BY <2>1 DEF InPhase, Receiving, Complete
    <2>3. Quiet' /\ Pausing' /\ Pulling'
      BY <2>1 DEF InPhase, Quiet, Pausing, Pulling, LinkTypeOK
    <2>4. Held' /\ Sending'
      BY <2>1 DEF InPhase, Held, Sending, Waiting
    <2> QED
      BY <2>2, <2>3, <2>4 DEF InPhase
  <1> QED
    BY <1>1, <1>2, <1>3

LEMMA StartKeeps ==
  ASSUME NEW B, None \notin B, LinkInv(B),
         DevStart, Whole /\ pc = "pull" => count = Full
  PROVE  LinkInv(B)'
  <1> USE LinkAssumption DEF Full, None, DevStart, port, device, LinkInv
  <1>1. LinkTypeOK(B)'
    BY DEF LinkTypeOK
  <1>2. Device' /\ Empty' /\ Pins'
    BY DEF Device, Empty, Pins, Waiting, Left
  <1>3. ASSUME Whole' PROVE InPhase'
    <2>1. Whole /\ InPhase
      BY <1>3 DEF Whole
    <2>2. Receiving' /\ Complete'
      BY <2>1 DEF InPhase, Receiving, Complete, Waiting
    <2>3. Quiet' /\ Pausing' /\ Pulling'
      BY <2>1 DEF InPhase, Quiet, Pausing, Pulling, Waiting
    <2>4. Held' /\ Sending'
      BY <2>1 DEF InPhase, Held, Sending
    <2> QED
      BY <2>2, <2>3, <2>4 DEF InPhase
  <1> QED
    BY <1>1, <1>2, <1>3

LEMMA SendKeeps ==
  ASSUME NEW B, None \notin B, LinkInv(B),
         DevSend
  PROVE  LinkInv(B)'
  <1> USE LinkAssumption DEF Full, None, DevSend, Edge, Short, port, device, LinkInv
  <1>1. LinkTypeOK(B)'
    <2>1. queue # <<>> /\ queue \in Seq(B) /\ bits + 1 \in 0 .. Bits /\ byte \in B \cup {None}
      BY DEF LinkTypeOK, Device
    <2>2. Tail(queue) \in Seq(B)
      BY <2>1
    <2>3. queue' \in Seq(B) /\ bits' \in 0 .. Bits /\ done' \in B \cup {None}
      BY <2>1, <2>2 DEF LinkTypeOK
    <2> QED
      BY <2>3 DEF LinkTypeOK
  <1>2. Device' /\ Empty' /\ Pins'
    BY DEF LinkTypeOK, Device, Empty, Pins, Waiting, Left
  <1>3. ASSUME Whole' PROVE InPhase'
    <2>1. Whole /\ InPhase
      BY <1>3 DEF Whole
    <2>2. Receiving' /\ Complete'
      BY <2>1 DEF InPhase, Receiving, Complete, Device, Waiting, LinkTypeOK
    <2>3. Quiet' /\ Pausing' /\ Pulling'
      BY <2>1 DEF InPhase, Quiet, Pausing, Pulling, Sending, Waiting, LinkTypeOK
    <2>4. Held' /\ Sending'
      BY <2>1 DEF InPhase, Held, Sending
    <2> QED
      BY <2>2, <2>3, <2>4 DEF InPhase
  <1> QED
    BY <1>1, <1>2, <1>3

LEMMA AbortKeeps ==
  ASSUME NEW B, None \notin B, LinkInv(B),
         DevAbort
  PROVE  LinkInv(B)'
  <1> USE LinkAssumption DEF Full, None, DevAbort, port, device, LinkInv
  <1>1. LinkTypeOK(B)'
    BY DEF LinkTypeOK
  <1>2. Device' /\ Empty' /\ Pins'
    BY DEF LinkTypeOK, Device, Empty, Pins, Waiting, Left
  <1>3. ASSUME Whole' PROVE InPhase'
    <2>1. Whole /\ InPhase
      BY <1>3 DEF Whole
    <2>2. Receiving' /\ Complete'
      BY <2>1 DEF InPhase, Receiving, Complete
    <2>3. Quiet' /\ Pausing' /\ Pulling'
      BY <2>1 DEF InPhase, Quiet, Pausing, Pulling
    <2>4. Held' /\ Sending'
      BY <2>1 DEF InPhase, Quiet, Held, Sending, Waiting
    <2> QED
      BY <2>2, <2>3, <2>4 DEF InPhase
  <1> QED
    BY <1>1, <1>2, <1>3

LEMMA FaultKeeps ==
  ASSUME NEW B, None \notin B, LinkInv(B), Fault
  PROVE  LinkInv(B)'
  <1> USE LinkAssumption DEF Full, None, LinkInv
  <1>1. /\ count' = count /\ timeout' = timeout /\ dir' = dir /\ drive' = drive
        /\ hold' = hold /\ edge' = edge /\ pc' = pc /\ byte' = byte /\ expects' = expects
        /\ faults' \subseteq {"missed", "damaged", "gone"} /\ (Whole' => Whole)
    BY DEF Fault, LinkTypeOK, Whole
  <1>2. (Missed /\ ~Whole') \/ Damaged \/ Gone
    BY DEF Fault, Whole
  <1>3. CASE Missed /\ ~Whole'
    BY <1>1, <1>3 DEF Missed, LinkTypeOK, Device, Empty, Pins, Waiting, Left
  <1>4. CASE Damaged
    <2>1. LinkTypeOK(B)' /\ Device' /\ Empty' /\ Pins'
      BY <1>1, <1>4 DEF Damaged, LinkTypeOK, Device, Empty, Pins, Waiting, Left
    <2>2. ASSUME Whole' PROVE InPhase'
      <3>1. InPhase
        BY <1>1, <2>2
      <3>2. Receiving' /\ Complete'
        BY <1>1, <1>4, <3>1 DEF Damaged, InPhase, Receiving, Complete, Empty
      <3>3. Quiet' /\ Pausing' /\ Pulling' /\ Held' /\ Sending'
        BY <1>1, <1>4, <3>1
        DEF Damaged, InPhase, Quiet, Pausing, Pulling, Held, Sending, Waiting
      <3> QED
        BY <3>2, <3>3 DEF InPhase
    <2> QED
      BY <2>1, <2>2
  <1>5. CASE Gone
    <2>1. LinkTypeOK(B)' /\ Device' /\ Empty' /\ Pins'
      BY <1>1, <1>5 DEF Gone, LinkTypeOK, Device, Empty, Pins, Waiting, Left
    <2>2. ASSUME Whole' PROVE InPhase'
      <3>1. InPhase
        BY <1>1, <2>2
      <3>2. Receiving' /\ Complete'
        BY <1>1, <1>5, <3>1
        DEF Gone, InPhase, Receiving, Complete, Quiet, Device, Waiting, LinkTypeOK
      <3>3. Quiet' /\ Pausing' /\ Pulling'
        BY <1>1, <1>5, <3>1 DEF Gone, InPhase, Quiet, Pausing, Pulling, Waiting, LinkTypeOK
      <3>4. Held' /\ Sending'
        BY <1>1, <1>5, <3>1 DEF Gone, InPhase, Held, Sending, Waiting
      <3> QED
        BY <3>2, <3>3, <3>4 DEF InPhase
    <2> QED
      BY <2>1, <2>2
  <1> QED
    BY <1>2, <1>3, <1>4, <1>5

\* What the tasks do with the line.
LEMMA TakeKeeps ==
  ASSUME NEW B, None \notin B, LinkInv(B),
         mode = "recv", Edge,
         mode' = IF bits' = Bits THEN "idle" ELSE mode,
         queue' \in Seq(B), expects' \in {"cmd", "arg"},
         UNCHANGED <<done, faults>>
  PROVE  LinkInv(B)'
  <1> USE LinkAssumption DEF Full, None, Edge, Short, port, device, link, LinkInv
  <1>1. LinkTypeOK(B)'
    <2>1. bits' \in 0 .. Bits
      BY DEF LinkTypeOK, Device
    <2> QED
      BY <2>1 DEF LinkTypeOK
  <1>2. Device' /\ Empty' /\ Pins'
    BY DEF LinkTypeOK, Device, Empty, Pins, Waiting, Left
  <1>3. ASSUME Whole' PROVE InPhase'
    <2>1. Whole /\ InPhase
      BY <1>3 DEF Whole
    <2>2. Receiving' /\ Complete'
      BY <2>1 DEF InPhase, Receiving, Complete, Quiet
    <2>3. Quiet' /\ Pausing' /\ Pulling'
      BY <2>1 DEF InPhase, Quiet, Pausing, Pulling
    <2>4. Held' /\ Sending'
      BY <2>1 DEF InPhase, Held, Sending, Waiting, LinkTypeOK
    <2> QED
      BY <2>2, <2>3, <2>4 DEF InPhase
  <1> QED
    BY <1>1, <1>2, <1>3

LEMMA QueueKeeps ==
  ASSUME NEW B, None \notin B, LinkInv(B),
         mode # "gone", queue' \in Seq(B),
         queue # <<>> => queue' # <<>> /\ Head(queue') = Head(queue),
         UNCHANGED <<port, pc, mode, bits, byte, expects, done, faults>>
  PROVE  LinkInv(B)'
  <1> USE LinkAssumption DEF Full, None, port, device, link, LinkInv
  <1>1. LinkTypeOK(B)'
    BY DEF LinkTypeOK
  <1>2. Device' /\ Empty' /\ Pins'
    BY DEF Device, Empty, Pins, Waiting, Left
  <1>3. ASSUME Whole' PROVE InPhase'
    <2>1. Whole /\ InPhase
      BY <1>3 DEF Whole
    <2>2. Receiving' /\ Complete'
      BY <2>1 DEF InPhase, Receiving, Complete, Waiting
    <2>3. Quiet' /\ Pausing' /\ Pulling'
      BY <2>1 DEF InPhase, Quiet, Pausing, Pulling, Waiting
    <2>4. Held' /\ Sending'
      BY <2>1 DEF InPhase, Held, Sending, Waiting
    <2> QED
      BY <2>2, <2>3, <2>4 DEF InPhase
  <1> QED
    BY <1>1, <1>2, <1>3

LEMMA TurnKeeps ==
  ASSUME NEW B, None \notin B, LinkInv(B),
         pc \in {"loop", "pause", "check"}, pc' \in {"loop", "check"},
         UNCHANGED link
  PROVE  LinkInv(B)'
  <1> USE LinkAssumption DEF Full, None, port, device, link, LinkInv
  <1>1. LinkTypeOK(B)'
    BY DEF LinkTypeOK
  <1>2. Device' /\ Empty' /\ Pins'
    BY DEF Device, Empty, Pins
  <1>3. ASSUME Whole' PROVE InPhase'
    <2>1. Whole /\ InPhase
      BY <1>3 DEF Whole
    <2>2. Receiving' /\ Complete'
      BY <2>1 DEF InPhase, Receiving, Complete, Waiting
    <2>3. Quiet' /\ Pausing' /\ Pulling'
      BY <2>1 DEF InPhase, Quiet, Pausing, Pulling
    <2>4. Held' /\ Sending'
      BY <2>1 DEF InPhase, Held, Sending, Waiting
    <2> QED
      BY <2>2, <2>3, <2>4 DEF InPhase
  <1> QED
    BY <1>1, <1>2, <1>3

LEMMA PauseKeeps ==
  ASSUME NEW B, None \notin B, LinkInv(B),
         pc = "loop", count = Full, pc' = "pause",
         UNCHANGED link
  PROVE  LinkInv(B)'
  <1> USE LinkAssumption DEF Full, None, port, device, link, LinkInv
  <1>1. LinkTypeOK(B)'
    BY DEF LinkTypeOK
  <1>2. Device' /\ Empty' /\ Pins'
    BY DEF Device, Empty, Pins
  <1>3. ASSUME Whole' PROVE InPhase'
    <2>1. Whole /\ InPhase
      BY <1>3 DEF Whole
    <2>2. Receiving' /\ Complete'
      BY <2>1 DEF InPhase, Receiving, Complete, Waiting
    <2>3. Quiet' /\ Pausing' /\ Pulling'
      BY <2>1 DEF InPhase, Receiving, Complete, Quiet, Pausing, Pulling, LinkTypeOK
    <2>4. Held' /\ Sending'
      BY <2>1 DEF InPhase, Held, Sending, Waiting
    <2> QED
      BY <2>2, <2>3, <2>4 DEF InPhase
  <1> QED
    BY <1>1, <1>2, <1>3

LEMMA EndKeeps ==
  ASSUME NEW B, None \notin B, LinkInv(B),
         pc = "check", pc' = "release",
         \/ done' = done /\ (TimedOut \/ (count = 0 /\ dir = "send"))
         \/ done' = None /\ count = 0 /\ dir = "recv",
         UNCHANGED <<port, device, faults>>
  PROVE  LinkInv(B)'
  <1> USE LinkAssumption DEF Full, None, TimedOut, port, device, link, LinkInv
  <1>1. LinkTypeOK(B)'
    BY DEF LinkTypeOK
  <1>2. Device' /\ Empty' /\ Pins'
    BY DEF Device, Empty, Pins
  <1>3. ASSUME Whole' PROVE InPhase'
    <2>1. Whole /\ InPhase
      BY <1>3 DEF Whole
    <2>2. Receiving' /\ Complete'
      BY <2>1 DEF InPhase, Receiving, Complete, Quiet, Empty, LinkTypeOK
    <2>3. Quiet' /\ Pausing' /\ Pulling'
      BY <2>1 DEF InPhase, Quiet, Pausing, Pulling, Sending, Empty
    <2>4. Held' /\ Sending'
      BY <2>1 DEF InPhase, Held, Sending, Empty, Waiting
    <2> QED
      BY <2>2, <2>3, <2>4 DEF InPhase
  <1> QED
    BY <1>1, <1>2, <1>3

LEMMA LoadKeeps ==
  ASSUME NEW B, None \notin B, LinkInv(B),
         NEW b \in B, pc' = "pull", dir = "recv", Load(b),
         \/ pc = "pause" /\ done' = done
         \/ pc = "check" /\ done' = None,
         UNCHANGED <<count, timeout, hold, drive, edge, device, faults>>
  PROVE  LinkInv(B)'
  <1> USE LinkAssumption DEF Full, None, Load, port, device, link, LinkInv
  <1>1. LinkTypeOK(B)'
    BY DEF LinkTypeOK
  <1>2. Device' /\ Empty' /\ Pins'
    BY DEF Device, Empty, Pins
  <1>3. ASSUME Whole' PROVE InPhase'
    <2>1. Whole /\ InPhase
      BY <1>3 DEF Whole
    <2>2. Receiving' /\ Complete'
      BY <2>1 DEF Receiving, Complete
    <2>3. Quiet' /\ Pausing' /\ Pulling'
      BY <2>1 DEF InPhase, Receiving, Complete, Quiet, Pausing, Pulling, Waiting, LinkTypeOK
    <2>4. Held' /\ Sending'
      BY <2>1 DEF InPhase, Complete, Held, Sending, Waiting
    <2> QED
      BY <2>2, <2>3, <2>4 DEF InPhase
  <1> QED
    BY <1>1, <1>2, <1>3

LEMMA LinkStarts ==
  ASSUME NEW B, None \notin B, LinkInit
  PROVE  LinkInv(B)
  <1> USE LinkAssumption DEF Full, None, LinkInit
  <1>1. LinkTypeOK(B)
    <2>1. hold \in BOOLEAN /\ drive \in BOOLEAN /\ edge \in BOOLEAN
      OBVIOUS
    <2>2. queue \in Seq(B) /\ faults \subseteq {"missed", "damaged", "gone"}
      OBVIOUS
    <2> QED
      BY <2>1, <2>2 DEF LinkTypeOK
  <1>2. Device /\ Empty /\ Pins
    BY DEF Device, Empty, Pins
  <1>3. InPhase
    BY DEF InPhase, Receiving, Complete, Quiet, Pausing, Pulling, Held, Sending
  <1> QED
    BY <1>1, <1>2, <1>3 DEF LinkInv

-----------------------------------------------------------------------------
(* The keyboard's task and the keyboard                                    *)

LEMMA KeyboardBytes == None \notin K!Bytes /\ {"FA", "FE", "AA", "key"} \subseteq K!Bytes
  BY DEF None, K!Bytes, K!Commands

LEMMA KeyboardLink ==
  ASSUME KeyboardInv, Int4 \/ Tick \/ Fault \/ Pull \/ Release1 \/ Release2
                   \/ DevRequest \/ DevStart \/ DevSend \/ DevAbort,
         UNCHANGED kown
  PROVE  KeyboardInv'
  <1> USE KeyboardBytes DEF KeyboardInv
  <1>1. LinkInv(K!Bytes)'
    <2>1. CASE DevStart
      <3>1. Whole /\ pc = "pull" => count = Full
        BY <2>1 DEF DevStart, Unbegun
      <3> QED
        BY <2>1, <3>1, StartKeeps
    <2>2. CASE ~DevStart
      BY <2>2, Int4Keeps, TickKeeps, FaultKeeps, PullKeeps, Release1Keeps, Release2Keeps,
         RequestKeeps, SendKeeps, AbortKeeps
    <2> QED
      BY <2>1, <2>2
  <1>2. KeyboardTypes'
    BY DEF KeyboardTypes, kown
  <1>3. Asked'
    <2>1. UNCHANGED <<cmd, cmd_count>>
      BY DEF kown
    <2>2. CASE Pull
      BY <2>1, <2>2 DEF Pull, Asked, K!AwaitsFA
    <2>3. CASE Release1 \/ Release2
      BY <2>1, <2>3 DEF Release1, Release2, Asked
    <2>4. CASE ~Pull /\ ~Release1 /\ ~Release2
      <3>1. pc' = pc /\ dir' = dir
        BY <2>4 DEF Int4, Tick, Fault, DevRequest, DevStart, DevSend, DevAbort, Edge, port
      <3> QED
        BY <2>1, <3>1 DEF Asked, K!AwaitsFA
    <2> QED
      BY <2>2, <2>3, <2>4
  <1>4. Unbegun'
    <2> USE LinkAssumption DEF LinkInv, Unbegun, Full
    <2>1. SUFFICES ASSUME Whole', pc' = "pull"
                   PROVE  Unbegun'
      BY DEF Unbegun
    <2>2. /\ pc = "pull" /\ Whole /\ InPhase /\ LinkTypeOK(K!Bytes)
          /\ dir = "send" /\ Device
      BY <2>1
      DEF Int4, Tick, Fault, Pull, Release1, Release2, DevRequest, DevStart, DevSend, DevAbort,
          Edge, Whole, InPhase, Pulling
    <2>3. ~hold /\ ~Pull /\ ~Release1 /\ ~Release2 /\ ~DevAbort /\ ~DevRequest
      BY <2>1, <2>2 DEF Pull, Release1, Release2, DevAbort, DevRequest, Short
    <2>4. CASE Int4
      <3>1. mode # "idle" /\ count \in 2 .. Full /\ edge
        BY <2>2, <2>3, <2>4 DEF Int4, InPhase, Pulling, Quiet, Waiting, LinkTypeOK
      <3>2. ~hold'
        BY <2>2, <2>3, <2>4, <3>1, Int4Counts
      <3> QED
        BY <2>4, <3>1, <3>2 DEF Int4, device
    <2>5. CASE DevSend
      <3>1. bits' # Bits
        BY <2>2, <2>5 DEF DevSend, Edge, Short, LinkTypeOK
      <3> QED
        BY <2>2, <2>3, <2>5, <3>1 DEF DevSend, Edge, port
    <2>6. CASE Tick \/ Fault \/ DevStart
      BY <2>2, <2>3, <2>6 DEF Tick, Fault, Missed, Damaged, Gone, DevStart, device, port
    <2> QED
      BY <2>3, <2>4, <2>5, <2>6
  <1> QED
    BY <1>1, <1>2, <1>3, <1>4

LEMMA KeyboardTask ==
  ASSUME KeyboardInv,
         \/ \E c \in K!TwoByte : K!SendCmd(c)
         \/ K!Begin \/ K!Command \/ K!Check
  PROVE  KeyboardInv'
  <1> USE KeyboardBytes DEF KeyboardInv
  <1>1. CASE \E c \in K!TwoByte : K!SendCmd(c)
    <2>1. PICK c \in K!TwoByte : K!SendCmd(c)
      BY <1>1
    <2>2. pc = "loop" /\ pc' = pc /\ UNCHANGED link /\ cmd = None
      BY <2>1 DEF K!SendCmd, K!link, K!port, K!device, link, port, device, K!None, None
    <2>3. LinkInv(K!Bytes)'
      BY <2>2, TurnKeeps
    <2>4. KeyboardTypes'
      BY <2>1 DEF K!SendCmd, KeyboardTypes, K!TwoByte, K!Commands, None
    <2>5. Asked' /\ Unbegun'
      BY <2>2 DEF Asked, K!AwaitsFA, K!TwoByte, None, Unbegun, link, port
    <2> QED
      BY <2>3, <2>4, <2>5
  <1>2. CASE K!Begin
    <2>1. /\ pc = "loop" /\ UNCHANGED link /\ UNCHANGED <<cmd, cmd_count, keys>>
          /\ pc' = "check" \/ (pc' = "pause" /\ count = Full)
      BY <1>2 DEF K!Begin, K!link, K!port, K!device, link, port, device, K!command, K!Full, Full
    <2>2. LinkInv(K!Bytes)'
      BY <2>1, TurnKeeps, PauseKeeps
    <2>3. KeyboardTypes' /\ Asked' /\ Unbegun'
      BY <2>1 DEF KeyboardTypes, Asked, K!AwaitsFA, Unbegun, link, port
    <2> QED
      BY <2>2, <2>3
  <1>3. CASE K!Command
    <2> USE DEF K!Command, K!None, None
    <2>1. CASE K!StageByte = "none"
      <3>1. /\ pc = "pause" /\ pc' = "check" /\ UNCHANGED link
            /\ UNCHANGED <<cmd, cmd_count, keys>>
        BY <1>3, <2>1 DEF K!device, link, port, device
      <3>2. LinkInv(K!Bytes)'
        BY <3>1, TurnKeeps
      <3>3. KeyboardTypes' /\ Asked' /\ Unbegun'
        BY <3>1 DEF KeyboardTypes, Asked, K!AwaitsFA, Unbegun, link, port
      <3> QED
        BY <3>2, <3>3
    <2>2. CASE K!StageByte # "none"
      <3>1. /\ pc = "pause" /\ pc' = "pull" /\ Load(K!StageByte)
            /\ UNCHANGED <<count, timeout, hold, drive, edge, device, done, faults>>
            /\ cmd_count' = cmd_count - 1 /\ UNCHANGED <<cmd, keys>>
        BY <1>3, <2>2 DEF K!device, device, K!Load, Load
      <3>2. K!StageByte \in K!Bytes
        BY <2>2 DEF K!StageByte, K!Bytes, K!Commands, K!TwoByte
      <3>3. dir = "recv"
        BY <2>2, <3>1 DEF LinkInv, LinkTypeOK, Asked, K!AwaitsFA, K!StageByte, K!TwoByte
      <3>4. LinkInv(K!Bytes)'
        BY <3>1, <3>2, <3>3, LoadKeeps
      <3>5. KeyboardTypes' /\ Asked'
        BY <2>2, <3>1 DEF KeyboardTypes, Asked, K!AwaitsFA, K!StageByte
      <3>6. Unbegun'
        BY <3>1, <3>3 DEF LinkInv, Whole, Unbegun, InPhase, Pausing, Receiving, device
      <3> QED
        BY <3>4, <3>5, <3>6
    <2> QED
      BY <2>1, <2>2
  <1>4. CASE K!Check
    <2> USE DEF K!Check, K!None, None, K!TimedOut, TimedOut, K!Full, Full,
                K!port, K!device, port, device
    <2>1. CASE K!Nothing
      <3>1. pc = "check" /\ pc' = "loop" /\ UNCHANGED link /\ UNCHANGED <<cmd, cmd_count, keys>>
        BY <1>4, <2>1 DEF K!Nothing, link, K!command
      <3>2. LinkInv(K!Bytes)'
        BY <3>1, TurnKeeps
      <3>3. KeyboardTypes' /\ Asked' /\ Unbegun'
        BY <3>1 DEF KeyboardTypes, Asked, K!AwaitsFA, Unbegun, link
      <3> QED
        BY <3>2, <3>3
    <2>2. CASE K!Failed \/ K!Sent \/ K!Received
      <3>1. pc = "check" /\ pc' = "release" /\ UNCHANGED <<port, device, faults, keys>>
        BY <1>4, <2>2 DEF K!Failed, K!Sent, K!Received
      <3>2. \/ done' = done /\ (TimedOut \/ (count = 0 /\ dir = "send"))
            \/ done' = None /\ count = 0 /\ dir = "recv"
        BY <1>4, <2>2 DEF K!Failed, K!Sent, K!Received
      <3>3. LinkInv(K!Bytes)'
        BY <3>1, <3>2, EndKeeps
      <3>4. KeyboardTypes'
        BY <2>2, <3>1
        DEF KeyboardTypes, K!Failed, K!Sent, K!Received, K!Answered, K!AwaitsFA, K!command,
            K!Commands
      <3> QED
        BY <3>1, <3>3, <3>4 DEF Asked, Unbegun
    <2> QED
      BY <1>4, <2>1, <2>2
  <1> QED
    BY <1>1, <1>2, <1>3, <1>4

LEMMA KeyboardDevice ==
  ASSUME KeyboardInv, K!KbdTake \/ K!Press
  PROVE  KeyboardInv'
  <1> USE KeyboardBytes DEF KeyboardInv
  <1>1. CASE K!KbdTake
    <2>1. /\ mode = "recv" /\ Edge
          /\ mode' = IF bits' = Bits THEN "idle" ELSE mode
          /\ UNCHANGED <<done, faults, cmd, cmd_count, keys>>
      BY <1>1 DEF K!KbdTake, K!Edge, K!Short, Edge, Short, K!command
    <2>2. queue' \in Seq(K!Bytes) /\ expects' \in {"cmd", "arg"}
      <3>1. {queue, <<"FA", "AA">>, <<"FE">>, <<"FA">>} \subseteq Seq(K!Bytes)
        BY DEF LinkInv, LinkTypeOK
      <3>2. /\ queue' \in {queue, <<"FA", "AA">>, <<"FE">>, <<"FA">>}
            /\ expects' \in {expects, "cmd", "arg"}
        BY <1>1, Zenon DEF K!KbdTake, K!Answer
      <3> QED
        BY <3>1, <3>2 DEF LinkInv, LinkTypeOK
    <2>3. LinkInv(K!Bytes)'
      BY <2>1, <2>2, TakeKeeps
    <2>4. KeyboardTypes' /\ Asked'
      BY <2>1 DEF Edge, KeyboardTypes, Asked, K!AwaitsFA
    <2>5. Unbegun'
      BY <2>1 DEF Edge, Unbegun, Whole, LinkInv, InPhase, Quiet
    <2> QED
      BY <2>3, <2>4, <2>5
  <1>2. CASE K!Press
    <2>1. /\ mode # "gone" /\ queue' = Append(queue, "key")
          /\ UNCHANGED <<port, pc, mode, bits, byte, expects, done, faults, cmd, cmd_count>>
          /\ keys < MaxKeys /\ keys' = keys + 1
      BY <1>2 DEF K!Press, K!port, port, K!command
    <2>2. /\ queue' \in Seq(K!Bytes)
          /\ queue # <<>> => queue' # <<>> /\ Head(queue') = Head(queue)
      BY <2>1 DEF LinkInv, LinkTypeOK
    <2>3. LinkInv(K!Bytes)'
      BY <2>1, <2>2, QueueKeeps
    <2>4. KeyboardTypes' /\ Asked' /\ Unbegun'
      BY <2>1, PortAssumption DEF KeyboardTypes, Asked, K!AwaitsFA, Unbegun, Whole, port
    <2> QED
      BY <2>3, <2>4
  <1> QED
    BY <1>1, <1>2

LEMMA KeyboardStep ==
  ASSUME KeyboardInv, K!Next
  PROVE  KeyboardInv'
  <1>1. CASE (\E c \in K!TwoByte : K!SendCmd(c)) \/ K!Begin \/ K!Command \/ K!Check
    BY <1>1, KeyboardTask
  <1>2. CASE K!KbdTake \/ K!Press
    BY <1>2, KeyboardDevice
  <1>3. CASE K!Release \/ (K!Pull /\ UNCHANGED <<K!command, keys>>)
    <2>1. Release1 \/ Release2 \/ Pull
      BY <1>3 DEF K!Release, K!Release1, K!Release2, K!Pull, Release1, Release2, Pull,
                  K!device, device, K!Full, Full
    <2> QED
      BY <1>3, <2>1, KeyboardLink DEF K!Release, K!command, kown
  <1>4. CASE /\ K!DevRequest \/ K!DevStart \/ K!DevSend \/ K!DevAbort
             /\ UNCHANGED <<K!command, keys>>
    <2>1. DevRequest \/ DevStart \/ DevSend \/ DevAbort
      BY <1>4
      DEF K!DevRequest, K!DevStart, K!DevSend, K!DevAbort, K!Edge, K!Short, K!port, DevRequest,
          DevStart, DevSend, DevAbort, Edge, Short, port
    <2> QED
      BY <1>4, <2>1, KeyboardLink DEF K!command, kown
  <1> QED
    BY <1>1, <1>2, <1>3, <1>4 DEF K!Next, K!Task, K!DevStep

-----------------------------------------------------------------------------
(* The mouse's task and the mouse                                          *)

LEMMA MouseBytes ==
  /\ None \notin M!MBytes /\ {"FA", "FE", "AA"} \subseteq M!MBytes
  BY DEF None, M!MBytes

\* An answer has one acknowledge, in front; a packet has none.
LEMMA AnswerBytes ==
  ASSUME NEW q,
         q \in {<<"FA", "AA", "id0">>, <<"FA", "id0">>, <<"FA", "id3">>, <<"FE">>, <<"FA">>}
  PROVE  q \in Seq(M!MBytes) /\ \A i \in 2 .. Len(q) : q[i] # "FA"
  <1> USE DEF M!MBytes
  <1>1. CASE q = <<"FA", "AA", "id0">>
    BY <1>1
  <1>2. CASE q = <<"FA", "id0">>
    BY <1>2
  <1>3. CASE q = <<"FA", "id3">>
    BY <1>3
  <1>4. CASE q = <<"FE">>
    BY <1>4
  <1>5. CASE q = <<"FA">>
    BY <1>5
  <1> QED
    BY <1>1, <1>2, <1>3, <1>4, <1>5

LEMMA PacketBytes ==
  ASSUME NEW q, q \in {M!Packet, SubSeq(M!Packet, 1, 3)}
  PROVE  q \in Seq(M!MBytes) /\ q # <<>> /\ \A i \in 1 .. Len(q) : q[i] # "FA"
  <1>1. /\ M!Packet \in Seq(M!MBytes) /\ Len(M!Packet) = 4
        /\ M!Packet[1] = "m1" /\ M!Packet[2] = "m2" /\ M!Packet[3] = "m3" /\ M!Packet[4] = "m4"
    BY DEF M!Packet, M!MBytes
  <1>2. \A i \in 1 .. 4 : M!Packet[i] # "FA" /\ M!Packet[i] \in M!MBytes
    <2>1. \A i \in 1 .. 4 : i = 1 \/ i = 2 \/ i = 3 \/ i = 4
      OBVIOUS
    <2> QED
      BY <1>1, <2>1 DEF M!MBytes
  <1>3. CASE q = M!Packet
    <2>1. q # <<>>
      BY <1>1, <1>3
    <2> QED
      BY <1>1, <1>2, <1>3, <2>1
  <1>4. CASE q = SubSeq(M!Packet, 1, 3)
    <2>1. \A i \in 1 .. 3 : M!Packet[i] \in M!MBytes
      BY <1>2
    <2>2. /\ q \in Seq(M!MBytes) /\ Len(q) = 3
          /\ \A i \in 1 .. 3 - 1 + 1 : q[i] = M!Packet[1 + i - 1]
      BY <1>4, <2>1, SubSeqProperties
    <2>3. \A i \in 1 .. 3 : q[i] = M!Packet[i]
      BY <2>2
    <2>4. q # <<>>
      BY <2>2
    <2> QED
      BY <1>2, <2>2, <2>3, <2>4
  <1> QED
    BY <1>3, <1>4

\* The sequence of initialisation is made of bytes.
LEMMA InitBytes ==
  ASSUME MouseTypes, M!InitByte # None
  PROVE  M!InitByte \in M!MBytes /\ initstep <= Len(InitSequence)
  <1>1. initstep \in 1 .. Len(InitSequence) + 1 /\ Len(InitSequence) \in Nat
    BY SequenceAssumption DEF MouseTypes
  <1>2. initstep <= Len(InitSequence)
    BY DEF M!InitByte, M!None, None
  <1> QED
    BY <1>1, <1>2, SequenceAssumption DEF M!InitByte

LEMMA MouseLink ==
  ASSUME MouseInv, \/ Int4 \/ Tick \/ Fault \/ Pull \/ Release1 \/ Release2
                   \/ DevRequest \/ (DevStart /\ pc # "pull") \/ DevSend \/ DevAbort,
         UNCHANGED mown
  PROVE  MouseInv'
  <1> USE MouseBytes DEF MouseInv
  <1>1. LinkInv(M!MBytes)'
    BY Int4Keeps, TickKeeps, FaultKeeps, PullKeeps, Release1Keeps, Release2Keeps,
       RequestKeeps, StartKeeps, SendKeeps, AbortKeeps
  <1>2. /\ UNCHANGED <<initstep, resp_count, mcmd, in_cmd, wait_state, present, stream>>
        /\ M!InitByte' = M!InitByte
    BY DEF mown, M!InitByte
  <1>3. MouseTypes'
    BY DEF MouseTypes, mown
  <1>4. \/ pc' = pc /\ dir' = dir
        \/ pc \in {"pull", "release", "pins"} /\ (pc = "pull" => pc' = "check" /\ dir' = dir)
           /\ (pc = "release" => pc' = "pins") /\ (pc = "pins" => pc' = "loop" /\ dir' = "recv")
    BY DEF Int4, Tick, Fault, Pull, Release1, Release2, DevRequest, DevStart, DevSend, DevAbort,
           Edge, port
  <1>5. InOrder' /\ Silent'
    BY <1>2, <1>4 DEF InOrder, Silent
  <1>6. ASSUME Whole' PROVE Given' /\ Answers'
    <2>1. Whole /\ Given /\ Answers /\ LinkTypeOK(M!MBytes)
      BY <1>6 DEF Whole, LinkInv, Int4, Tick, Fault, Pull, Release1, Release2, DevRequest,
                  DevStart, DevSend, DevAbort, device
    <2>2. dir' = "send" => dir = "send" /\ shifter' \in {shifter, None}
      BY <2>1 DEF Int4, Tick, Fault, Missed, Damaged, Gone, Pull, Release1, Release2, DevRequest,
                  DevStart, DevSend, DevAbort, Edge, port
    <2>3. Given'
      BY <1>2, <2>1, <2>2 DEF Given, None
    <2>4. CASE queue' = queue /\ done' \in {done, None}
      BY <1>2, <2>1, <2>3, <2>4 DEF Answers, Acknowledged, None
    <2>5. CASE queue' = <<>> /\ done' = done
      BY <1>2, <2>1, <2>3, <2>5 DEF Answers, Acknowledged
    <2>6. CASE queue # <<>> /\ queue' = Tail(queue) /\ done' = Head(queue)
      <3>1. Len(queue') = Len(queue) - 1 /\ \A i \in 1 .. Len(queue') : queue'[i] = queue[i + 1]
        BY <2>1, <2>6 DEF LinkTypeOK
      <3>2. \A i \in 1 .. Len(queue') : queue'[i] # "FA"
        BY <2>1, <3>1 DEF Answers, LinkTypeOK
      <3>3. queue' # <<>> => Head(queue') # "FA"
        BY <2>1, <2>6, <3>2 DEF LinkTypeOK
      <3>4. Acknowledged' => Acknowledged
        BY <2>6, <3>3 DEF Acknowledged
      <3> QED
        BY <1>2, <2>1, <2>3, <2>6, <3>1, <3>2, <3>3, <3>4 DEF Answers, LinkTypeOK
    <2>7. \/ queue' = queue /\ done' \in {done, None}
          \/ queue' = <<>> /\ done' = done
          \/ queue # <<>> /\ queue' = Tail(queue) /\ done' = Head(queue)
      <3>1. CASE Fault
        BY <1>6, <3>1 DEF Fault, Damaged, Gone, Whole
      <3>2. CASE DevSend
        BY <3>2 DEF DevSend, LinkInv, Device
      <3> QED
        BY <3>1, <3>2 DEF Int4, Tick, Pull, Release1, Release2, DevRequest, DevStart,
                                DevAbort, device
    <2> QED
      BY <2>3, <2>4, <2>5, <2>6, <2>7
  <1> QED
    BY <1>1, <1>3, <1>5, <1>6

LEMMA HandledKeeps ==
  ASSUME MouseTypes, InOrder, wait_state = None, NEW b, M!Handled(b)
  PROVE  /\ initstep' \in 1 .. Len(InitSequence) + 1 /\ resp_count' \in 0 .. 3
         /\ mcmd' \in {None, "RES", "ENABLE"} /\ wait_state' = None
         /\ in_cmd' \in BOOLEAN /\ reinit_delay' \in BOOLEAN
         /\ wheel_type' \in BOOLEAN /\ both' \in BOOLEAN /\ present' \in BOOLEAN
         /\ in_cmd' => mcmd' # None /\ M!InitByte' = None /\ resp_count' >= 1
         /\ M!InitByte' # None => mcmd' = "RES" /\ ~present' /\ ~in_cmd'
         /\ mcmd' = "ENABLE" => (mcmd = "ENABLE" /\ (in_cmd => in_cmd')) \/ b = "FA"
         /\ present' => present \/ (mcmd = "ENABLE" /\ b = "FA")
  <1> USE SequenceAssumption DEF None, M!None, MouseTypes, InOrder
  <1>1. CASE M!Reinit
    <2>1. /\ initstep' = 1 /\ resp_count' = 0 /\ mcmd' = "RES" /\ ~in_cmd' /\ wait_state' = None
          /\ ~present'
      BY <1>1 DEF M!Reinit
    <2>2. /\ in_cmd' \in BOOLEAN /\ reinit_delay' \in BOOLEAN
          /\ wheel_type' \in BOOLEAN /\ both' \in BOOLEAN /\ present' \in BOOLEAN
      BY <1>1, Zenon DEF M!Reinit
    <2> QED
      BY <2>1, <2>2
  <1>2. CASE M!Advance /\ resp_count < 3
    <2>1. M!InitByte' = M!InitByte
      BY <1>2 DEF M!Advance, M!InitByte
    <2> QED
      BY <1>2, <2>1 DEF M!Advance, M!Kept
  <1>3. CASE M!Movement(b) /\ M!Current = None
    <2>1. M!InitByte' = M!InitByte /\ M!InitByte = None /\ ~in_cmd
      BY <1>3 DEF M!Movement, M!InitByte, M!Current
    <2>2. both' \in BOOLEAN
      BY <1>3, Zenon DEF M!Movement
    <2> QED
      BY <1>3, <2>1, <2>2 DEF M!Movement, M!Kept
  <1>4. CASE M!Finish /\ wheel_type' \in BOOLEAN /\ M!Current # None
             /\ (in_cmd => mcmd = "ENABLE" /\ b = "FA")
    <2>1. CASE in_cmd
      <3>1. mcmd' = None /\ ~in_cmd' /\ initstep' = initstep /\ M!InitByte' = M!InitByte
        BY <1>4, <2>1 DEF M!Finish, M!InitByte
      <3>2. in_cmd' \in BOOLEAN /\ both' \in BOOLEAN /\ present' \in BOOLEAN
        BY <1>4, <2>1, Zenon DEF M!Finish
      <3> QED
        BY <1>4, <2>1, <3>1, <3>2 DEF M!Finish, M!Kept
    <2>2. CASE ~in_cmd
      <3>1. M!InitByte # None /\ initstep <= Len(InitSequence) /\ mcmd = "RES"
        BY <1>4, <2>2, InitBytes DEF M!Current
      <3>2. /\ initstep' = initstep + 1 /\ mcmd' = mcmd /\ in_cmd' = in_cmd /\ resp_count' = 0
            /\ wait_state' = wait_state
        BY <1>4, <2>2 DEF M!Finish, M!Kept
      <3>3. ~M!Ready'
        BY <3>1, <3>2 DEF M!Ready
      <3>4. ~present'
        BY <1>4, <3>1, <3>3 DEF M!Finish
      <3>5. in_cmd' \in BOOLEAN /\ both' \in BOOLEAN /\ present' \in BOOLEAN
        BY <1>4, <2>2, Zenon DEF M!Finish
      <3> QED
        BY <1>4, <2>2, <3>1, <3>2, <3>4, <3>5 DEF M!Finish, M!Kept
    <2> QED
      BY <2>1, <2>2
  <1>5. CASE /\ resp_count' = 0 /\ in_cmd' = FALSE /\ mcmd' = "ENABLE" /\ b = "FA" /\ in_cmd
             /\ M!Kept /\ UNCHANGED <<initstep, M!flags>>
    <2>1. M!InitByte' = M!InitByte /\ M!InitByte = None
      BY <1>5 DEF M!InitByte
    <2>2. /\ in_cmd' \in BOOLEAN /\ reinit_delay' \in BOOLEAN
          /\ wheel_type' \in BOOLEAN /\ both' \in BOOLEAN /\ present' \in BOOLEAN
      BY <1>5, Zenon DEF M!Kept, M!flags
    <2> QED
      BY <1>5, <2>1, <2>2 DEF M!Kept, M!flags
  <1>6. \/ M!Reinit
        \/ M!Advance /\ resp_count < 3
        \/ M!Movement(b) /\ M!Current = None
        \/ /\ M!Finish /\ wheel_type' \in BOOLEAN /\ M!Current # None
           /\ in_cmd => mcmd = "ENABLE" /\ b = "FA"
        \/ /\ resp_count' = 0 /\ in_cmd' = FALSE /\ mcmd' = "ENABLE" /\ b = "FA" /\ in_cmd
           /\ M!Kept /\ UNCHANGED <<initstep, M!flags>>
    <2>0. wheel_type' = wheel_type => wheel_type' \in BOOLEAN
      BY Zenon DEF MouseTypes
    <2>1. CASE M!Current = None
      BY <2>1 DEF M!Handled
    <2>2. CASE M!Current = "RESET"
      <3>1. ~in_cmd /\ resp_count \in 0 .. 3 /\ M!OfReset(b)
        BY <2>2 DEF M!Handled, M!Current
      <3> QED
        BY <2>0, <2>2, <3>1 DEF M!OfReset
    <2>3. CASE M!Current = "TYPE"
      <3>1. ~in_cmd /\ M!OfType(b)
        BY <2>3 DEF M!Handled, M!Current
      <3>2. wheel_type' = (b \notin {None, "id0"}) => wheel_type' \in BOOLEAN
        BY Zenon
      <3> QED
        BY <2>3, <3>1, <3>2 DEF M!OfType
    <2>4. CASE M!Current = "RES"
      <3>1. M!OfResolution(b) /\ resp_count \in 0 .. 3
        BY <2>4 DEF M!Handled
      <3> QED
        BY <2>0, <2>4, <3>1 DEF M!OfResolution
    <2>5. CASE M!Current \notin {None, "RESET", "TYPE", "RES"}
      BY <2>5 DEF M!Handled, M!OfOther, M!Current
    <2> QED
      BY <2>1, <2>2, <2>3, <2>4, <2>5
  <1> QED
    BY <1>1, <1>2, <1>3, <1>4, <1>5, <1>6

LEMMA MouseTask ==
  ASSUME MouseInv, M!Turn \/ M!WaitOn \/ M!Delayed \/ M!SetResolution
  PROVE  MouseInv'
  <1> USE MouseBytes DEF MouseInv, M!None, None
  <1> DEFINE Effect ==
        /\ UNCHANGED <<link, initstep, resp_count, in_cmd, wait_state, M!flags, M!mouse, haste>>
        /\ mcmd' \in {mcmd, "RES"}
        /\ reinit_delay' \in BOOLEAN /\ changes' \in 0 .. MaxChanges
        /\ \/ pc = "loop" /\ pc' \in {"loop", "check"}
           \/ pc = "check" /\ pc' = "loop"
  <1>1. Effect
    <2> USE DEF M!own, M!stage, M!user, M!link, M!port, M!device, link, port, device, MouseTypes
    <2>1. CASE M!Turn \/ M!WaitOn
      BY <2>1 DEF M!Turn, M!WaitOn
    <2>2. CASE M!Delayed
      <3>1. reinit_delay' \in BOOLEAN
        BY <2>2, Zenon DEF M!Delayed
      <3> QED
        BY <2>2, <3>1 DEF M!Delayed
    <2>3. CASE M!SetResolution
      <3>1. changes' \in 0 .. MaxChanges
        BY <2>3, PortAssumption DEF M!SetResolution
      <3> QED
        BY <2>3, <3>1 DEF M!SetResolution
    <2> QED
      BY <2>1, <2>2, <2>3
  <1>2. M!InitByte' = M!InitByte
    BY <1>1 DEF M!InitByte
  <1>3. LinkInv(M!MBytes)'
    BY <1>1, TurnKeeps
  <1>4. MouseTypes'
    BY <1>1 DEF MouseTypes, M!flags, M!mouse
  <1>5. InOrder' /\ Silent'
    BY <1>1, <1>2 DEF InOrder, Silent, M!flags, link, port
  <1>6. Whole' => Given' /\ Answers'
    BY <1>1 DEF Whole, Given, Answers, Acknowledged, M!flags, M!mouse, link, port, device
  <1> QED
    BY <1>3, <1>4, <1>5, <1>6

LEMMA MouseSends ==
  ASSUME MouseInv, M!WaitOver
  PROVE  MouseInv'
  <1> USE MouseBytes DEF MouseInv, M!None, None
  <1> DEFINE b == IF wait_state = "INIT" THEN M!InitByte
                  ELSE IF wait_state = "CMD" THEN mcmd ELSE "arg"
  <1>1. /\ pc = "check" /\ pc' = "pull"
        /\ wait_state # None /\ wait_state' = None /\ done' = None
        /\ shifter' = b /\ dir' = "send" /\ resp_count' = resp_count + 1
        /\ UNCHANGED <<count, timeout, hold, drive, edge, device, faults>>
        /\ UNCHANGED <<initstep, mcmd, reinit_delay, M!flags, M!mouse, M!user>>
    BY DEF M!WaitOver, M!Load, M!device, device
  <1>2. /\ in_cmd' <=> (in_cmd \/ wait_state = "CMD")
        /\ M!InitByte' = M!InitByte
    BY <1>1 DEF M!WaitOver, M!InitByte
  <1>3. b \in M!MBytes
    BY <1>1, InitBytes DEF Silent, MouseTypes, M!MBytes
  <1>4. LinkInv(M!MBytes)'
    BY <1>1, <1>3, LoadKeeps DEF Load, Silent
  <1>5. MouseTypes'
    <2>1. in_cmd' \in BOOLEAN
      BY DEF M!WaitOver, MouseTypes
    <2>2. resp_count' \in 0 .. 3
      BY <1>1 DEF MouseTypes, Silent
    <2> QED
      BY <1>1, <2>1, <2>2 DEF MouseTypes, M!flags, M!mouse, M!user
  <1>6. InOrder' /\ Silent'
    BY <1>1, <1>2 DEF InOrder, Silent, MouseTypes, M!flags
  <1>7. Whole' => Given'
    BY <1>1, <1>2 DEF Given, Silent, InOrder, MouseTypes, M!flags
  <1>8. Whole' => Answers'
    BY <1>1, <1>2 DEF Whole, Answers, Acknowledged, M!flags, M!mouse, device
  <1> QED
    BY <1>4, <1>5, <1>6, <1>7, <1>8

LEMMA MouseChecks ==
  ASSUME MouseInv, M!MouseCheck
  PROVE  MouseInv'
  <1> USE MouseBytes DEF MouseInv, M!None, None
  <1>1. /\ pc = "check" /\ wait_state = None
        /\ UNCHANGED <<port, device, faults, M!mouse, M!user>>
    BY DEF M!MouseCheck, M!port, M!device, port, device
  <1>2. CASE M!WaitStart
    <2>1. /\ wait_state' = M!ToSend /\ M!ToSend # None /\ pc' = "loop" /\ count = Full
          /\ UNCHANGED <<done, M!stage, reinit_delay, M!flags>>
      BY <1>2 DEF M!WaitStart, M!MayStart, M!Full, Full
    <2>2. LinkInv(M!MBytes)'
      BY <1>1, <2>1, TurnKeeps DEF link
    <2>3. M!InitByte' = M!InitByte
      BY <2>1 DEF M!InitByte, M!stage
    <2>4. MouseTypes'
      BY <1>1, <2>1 DEF MouseTypes, M!stage, M!flags, M!mouse, M!user, M!ToSend
    <2>5. dir = "recv"
      BY <1>1, <2>1 DEF InOrder, M!ToSend, LinkInv, LinkTypeOK
    <2>6. InOrder' /\ Silent'
      BY <1>1, <2>1, <2>3, <2>5 DEF InOrder, Silent, M!stage, M!flags, M!ToSend, port
    <2>7. Whole' => Given' /\ Answers'
      BY <1>1, <2>1
      DEF Whole, Given, Answers, Acknowledged, M!stage, M!flags, M!mouse, port, device
    <2> QED
      BY <2>2, <2>4, <2>6, <2>7
  <1>3. CASE M!MouseNothing
    <2>1. /\ pc' = "loop" /\ UNCHANGED <<done, M!stage, reinit_delay, wait_state, M!flags>>
      BY <1>3 DEF M!MouseNothing
    <2>2. LinkInv(M!MBytes)'
      BY <1>1, <2>1, TurnKeeps DEF link
    <2>3. M!InitByte' = M!InitByte
      BY <2>1 DEF M!InitByte, M!stage
    <2>4. MouseTypes'
      BY <1>1, <2>1 DEF MouseTypes, M!stage, M!flags, M!mouse, M!user
    <2>5. InOrder' /\ Silent'
      BY <1>1, <2>1, <2>3 DEF InOrder, Silent, M!stage, M!flags, port
    <2>6. Whole' => Given' /\ Answers'
      BY <1>1, <2>1
      DEF Whole, Given, Answers, Acknowledged, M!stage, M!flags, M!mouse, port, device
    <2> QED
      BY <2>2, <2>4, <2>5, <2>6
  <1>4. CASE M!MouseFailed
    <2>1. /\ pc' = "release" /\ TimedOut /\ done' = done
          /\ initstep' = 1 /\ resp_count' = 0 /\ mcmd' = "RES" /\ ~in_cmd' /\ wait_state' = None
          /\ ~present'
      BY <1>4 DEF M!MouseFailed, M!Reinit, M!TimedOut, TimedOut, M!Full, Full
    <2>2. LinkInv(M!MBytes)'
      BY <1>1, <2>1, EndKeeps
    <2>3. MouseTypes'
      <3>1. /\ in_cmd' \in BOOLEAN /\ reinit_delay' \in BOOLEAN
            /\ wheel_type' \in BOOLEAN /\ both' \in BOOLEAN /\ present' \in BOOLEAN
        BY <1>4, Zenon DEF M!MouseFailed, M!Reinit
      <3> QED
        BY <1>1, <2>1, <3>1, SequenceAssumption DEF MouseTypes, M!mouse, M!user
    <2>4. InOrder' /\ Silent'
      BY <2>1 DEF InOrder, Silent
    <2>5. Whole' => Given' /\ Answers'
      BY <1>1, <2>1 DEF Whole, Given, Answers, device
    <2> QED
      BY <2>2, <2>3, <2>4, <2>5
  <1>5. CASE M!MouseSent
    <2>1. /\ pc' = "release" /\ count = 0 /\ dir = "send"
          /\ UNCHANGED <<done, M!stage, reinit_delay, wait_state, M!flags>>
      BY <1>5 DEF M!MouseSent
    <2>2. LinkInv(M!MBytes)'
      BY <1>1, <2>1, EndKeeps
    <2>3. M!InitByte' = M!InitByte
      BY <2>1 DEF M!InitByte, M!stage
    <2>4. MouseTypes'
      BY <1>1, <2>1 DEF MouseTypes, M!stage, M!flags, M!mouse, M!user
    <2>5. InOrder' /\ Silent'
      BY <1>1, <2>1, <2>3 DEF InOrder, Silent, M!stage, M!flags
    <2>6. Whole' => Given' /\ Answers'
      BY <1>1, <2>1
      DEF Whole, Given, Answers, Acknowledged, M!stage, M!flags, M!mouse, port, device
    <2> QED
      BY <2>2, <2>4, <2>5, <2>6
  <1>6. CASE M!MouseReceived
    <2>1. PICK b \in M!Decoded(M!MBytes) : M!Handled(b)
      BY <1>6 DEF M!MouseReceived
    <2>2. pc' = "release" /\ count = 0 /\ dir = "recv" /\ done' = None
      BY <1>6 DEF M!MouseReceived
    <2>3. LinkInv(M!MBytes)'
      BY <1>1, <2>2, EndKeeps
    <2>4. /\ initstep' \in 1 .. Len(InitSequence) + 1 /\ resp_count' \in 0 .. 3
          /\ mcmd' \in {None, "RES", "ENABLE"} /\ wait_state' = None
          /\ in_cmd' \in BOOLEAN /\ reinit_delay' \in BOOLEAN
          /\ wheel_type' \in BOOLEAN /\ both' \in BOOLEAN /\ present' \in BOOLEAN
          /\ in_cmd' => mcmd' # None /\ M!InitByte' = None /\ resp_count' >= 1
          /\ M!InitByte' # None => mcmd' = "RES" /\ ~present' /\ ~in_cmd'
          /\ mcmd' = "ENABLE" => (mcmd = "ENABLE" /\ (in_cmd => in_cmd')) \/ b = "FA"
          /\ present' => present \/ (mcmd = "ENABLE" /\ b = "FA")
      BY <1>1, <2>1, HandledKeeps
    <2>5. MouseTypes'
      BY <1>1, <2>4 DEF MouseTypes, M!mouse, M!user
    <2>6. InOrder' /\ Silent'
      BY <2>2, <2>4 DEF InOrder, Silent
    <2>7. ASSUME Whole' PROVE Given' /\ Answers'
      <3>1. Whole /\ InPhase /\ Answers /\ Empty
        BY <1>1, <2>7 DEF Whole, LinkInv
      <3>2. shifter = done /\ done # "mixed"
        BY <1>1, <2>2, <3>1 DEF InPhase, Complete, Empty, LinkInv, LinkTypeOK, M!MBytes
      <3>3. b = done
        BY <2>1, <3>2 DEF M!Decoded
      <3>4. Given'
        BY <1>1, <2>2 DEF Given, port
      <3>5. present' => stream'
        BY <1>1, <2>4, <3>1, <3>3 DEF Answers, Acknowledged, M!mouse
      <3>6. mcmd' = "ENABLE" /\ Acknowledged' => in_cmd' /\ stream'
        BY <1>1, <2>2, <2>4, <3>1, <3>3 DEF Answers, Acknowledged, M!mouse, device
      <3> QED
        BY <1>1, <2>2, <3>1, <3>4, <3>5, <3>6 DEF Answers, device
    <2> QED
      BY <2>3, <2>5, <2>6, <2>7
  <1> QED
    BY <1>2, <1>3, <1>4, <1>5, <1>6 DEF M!MouseCheck

LEMMA MouseDevice ==
  ASSUME MouseInv, M!MouseTake \/ M!Move \/ M!Hurry
  PROVE  MouseInv'
  <1> USE MouseBytes DEF MouseInv, M!None, None
  <1>1. /\ UNCHANGED <<pc, dir, done, faults, shifter>>
        /\ UNCHANGED <<M!stage, reinit_delay, wait_state, M!flags>>
        /\ M!InitByte' = M!InitByte
    BY DEF M!MouseTake, M!Move, M!Hurry, M!Moved, M!Edge, M!port, M!InitByte, M!stage
  <1>2. InOrder' /\ Silent'
    BY <1>1 DEF InOrder, Silent, M!stage, M!flags
  <1>3. Given => Given'
    BY <1>1 DEF Given, M!stage, M!flags
  <1>4. CASE M!MouseTake
    <2>1. /\ mode = "recv" /\ Edge
          /\ mode' = IF bits' = Bits THEN "idle" ELSE mode
          /\ UNCHANGED <<done, faults, M!user>>
          /\ \/ UNCHANGED <<queue, expects, M!mouse>>
             \/ M!Obey(shifter)
      BY <1>4 DEF M!MouseTake, M!Edge, M!Short, Edge, Short
    <2>2. CASE UNCHANGED <<queue, expects, M!mouse>>
      <3>1. LinkInv(M!MBytes)'
        <4>1. queue' \in Seq(M!MBytes) /\ expects' \in {"cmd", "arg"}
          BY <2>2 DEF LinkInv, LinkTypeOK
        <4> QED
          BY <2>1, <4>1, TakeKeeps
      <3>2. MouseTypes'
        BY <1>1, <2>1, <2>2 DEF MouseTypes, M!stage, M!flags, M!mouse, M!user
      <3>3. Whole' => Answers'
        BY <1>1, <2>2 DEF Whole, Answers, Acknowledged, M!stage, M!flags, M!mouse
      <3> QED
        BY <1>1, <1>2, <1>3, <3>1, <3>2, <3>3 DEF Whole
    <2>3. CASE M!Obey(shifter)
      <3>1. PICK t \in {"id0", "id3"} :
              /\ queue' = IF shifter = "RESET" THEN <<"FA", "AA", "id0">>
                          ELSE IF shifter = "TYPE" THEN <<"FA", t>>
                          ELSE IF shifter = None \/ (shifter = "arg" /\ expects = "cmd")
                          THEN <<"FE">>
                          ELSE <<"FA">>
              /\ wheel' = IF shifter = "TYPE" THEN t = "id3" ELSE wheel /\ shifter # "RESET"
        BY <2>3 DEF M!Obey
      <3>2. queue' \in {<<"FA", "AA", "id0">>, <<"FA", "id0">>, <<"FA", "id3">>,
                         <<"FE">>, <<"FA">>}
        BY <3>1
      <3>3. /\ queue' \in Seq(M!MBytes)
            /\ \A i \in 2 .. Len(queue') : queue'[i] # "FA"
        BY <3>2, AnswerBytes
      <3>4. shifter = None => queue' = <<"FE">>
        BY <3>1
      <3>5. LinkInv(M!MBytes)'
        <4>1. expects' \in {"cmd", "arg"}
          BY <2>3 DEF M!Obey
        <4> QED
          BY <2>1, <3>3, <4>1, TakeKeeps
      <3>6. MouseTypes'
        <4>1. stream' \in BOOLEAN /\ wheel' \in BOOLEAN
          BY <2>3, <3>1, Zenon DEF M!Obey, MouseTypes
        <4> QED
          BY <1>1, <2>1, <4>1 DEF MouseTypes, M!stage, M!flags, M!user
      <3>7. ASSUME Whole' PROVE Answers'
        <4>1. Whole /\ Given /\ Answers /\ InPhase
          BY <1>1, <3>7 DEF Whole, LinkInv
        <4>2. dir = "send" /\ done = None
          BY <2>1, <4>1 DEF InPhase, Quiet
        <4>3. stream' <=> ((stream \/ shifter = "ENABLE") /\ shifter # "RESET")
          BY <2>3 DEF M!Obey
        <4>4. present' => stream'
          BY <1>1, <4>1, <4>2, <4>3 DEF Given, Answers, M!flags
        <4>5. mcmd' = "ENABLE" /\ Acknowledged' => in_cmd' /\ stream'
          BY <1>1, <3>4, <4>1, <4>2, <4>3 DEF Given, Acknowledged, M!stage
        <4> QED
          BY <1>1, <3>3, <4>2, <4>4, <4>5 DEF Answers
      <3> QED
        BY <1>1, <1>2, <1>3, <3>5, <3>6, <3>7 DEF Whole
    <2> QED
      BY <2>1, <2>2, <2>3
  <1>5. CASE M!Move \/ M!Hurry
    <2>1. /\ mode # "gone" /\ queue = <<>>
          /\ queue' = IF wheel THEN M!Packet ELSE SubSeq(M!Packet, 1, 3)
          /\ UNCHANGED <<port, pc, mode, bits, byte, expects, done, faults, M!mouse, changes>>
          /\ haste' \in 0 .. MaxHaste
      BY <1>5, PortAssumption DEF M!Move, M!Hurry, M!Moved, M!port, port, MouseTypes
    <2>2. /\ queue' \in Seq(M!MBytes) /\ queue' # <<>>
          /\ \A i \in 1 .. Len(queue') : queue'[i] # "FA"
      BY <2>1, PacketBytes
    <2>3. Len(queue') \in Nat /\ 1 <= Len(queue') /\ Head(queue') = queue'[1]
      BY <2>2
    <2>4. Head(queue') # "FA" /\ \A i \in 2 .. Len(queue') : queue'[i] # "FA"
      BY <2>2, <2>3
    <2>5. LinkInv(M!MBytes)'
      BY <2>1, <2>2, QueueKeeps
    <2>6. MouseTypes'
      BY <1>1, <2>1 DEF MouseTypes, M!stage, M!flags, M!mouse
    <2>7. Whole' => Answers'
      BY <1>1, <2>1, <2>4 DEF Whole, Answers, Acknowledged, M!stage, M!flags, M!mouse
    <2> QED
      BY <1>1, <1>2, <1>3, <2>5, <2>6, <2>7 DEF Whole
  <1> QED
    BY <1>4, <1>5

LEMMA MouseStep ==
  ASSUME MouseInv, M!Next
  PROVE  MouseInv'
  <1>1. CASE M!Turn \/ M!WaitOn \/ M!Delayed \/ M!SetResolution
    BY <1>1, MouseTask
  <1>2. CASE M!WaitOver \/ M!MouseCheck
    BY <1>2, MouseSends, MouseChecks
  <1>3. CASE M!MouseTake \/ M!Move \/ M!Hurry
    BY <1>3, MouseDevice
  <1>4. CASE (M!Pull \/ M!Release1 \/ M!Release2) /\ UNCHANGED M!own
    <2>1. Release1 \/ Release2 \/ Pull
      BY <1>4 DEF M!Release1, M!Release2, M!Pull, Release1, Release2, Pull, M!device, device,
                  M!Full, Full
    <2>2. UNCHANGED mown
      BY <1>4 DEF M!own, M!stage, M!flags, M!mouse, M!user, mown
    <2> QED
      BY <2>1, <2>2, MouseLink
  <1>5. CASE /\ M!DevRequest \/ (M!DevStart /\ pc # "pull") \/ M!DevSend \/ M!DevAbort
             /\ UNCHANGED M!own
    <2>1. DevRequest \/ (DevStart /\ pc # "pull") \/ DevSend \/ DevAbort
      BY <1>5
      DEF M!DevRequest, M!DevStart, M!DevSend, M!DevAbort, M!Edge, M!Short, M!port, DevRequest,
          DevStart, DevSend, DevAbort, Edge, Short, port
    <2>2. UNCHANGED mown
      BY <1>5 DEF M!own, M!stage, M!flags, M!mouse, M!user, mown
    <2> QED
      BY <2>1, <2>2, MouseLink
  <1> QED
    BY <1>1, <1>2, <1>3, <1>4, <1>5 DEF M!Next, M!Task, M!DevStep

-----------------------------------------------------------------------------
(* The theorem                                                             *)

LEMMA Starts == Init => IInv
  <1> SUFFICES ASSUME Init PROVE IInv
    OBVIOUS
  <1>1. which \in {"keyboard", "mouse"} /\ LinkInit /\ K!Init /\ M!Init
    BY DEF Init
  <1>2. KeyboardInv
    <2>1. LinkInv(K!Bytes)
      BY <1>1, KeyboardBytes, LinkStarts
    <2>2. KeyboardTypes
      BY <1>1, PortAssumption DEF K!Init, K!None, None, KeyboardTypes
    <2>3. Asked /\ Unbegun
      BY <1>1 DEF LinkInit, Asked, Unbegun
    <2> QED
      BY <2>1, <2>2, <2>3 DEF KeyboardInv
  <1>3. MouseInv
    <2>1. LinkInv(M!MBytes)
      BY <1>1, MouseBytes, LinkStarts
    <2>2. MouseTypes
      <3>1. /\ in_cmd \in BOOLEAN /\ reinit_delay \in BOOLEAN /\ wheel_type \in BOOLEAN
            /\ both \in BOOLEAN /\ present \in BOOLEAN
            /\ stream \in BOOLEAN /\ wheel \in BOOLEAN
        BY <1>1, Zenon DEF M!Init
      <3> QED
        BY <1>1, <3>1, PortAssumption, SequenceAssumption
              DEF M!Init, M!None, None, MouseTypes
    <2>3. InOrder /\ Silent /\ Given /\ Answers
      BY <1>1 DEF LinkInit, M!Init, InOrder, Silent, Given, Answers, M!None, None
    <2> QED
      BY <2>1, <2>2, <2>3 DEF MouseInv
  <1> QED
    BY <1>1, <1>2, <1>3 DEF IInv

LEMMA Steps == IInv /\ [Next]_vars => IInv'
  <1> SUFFICES ASSUME IInv, [Next]_vars PROVE IInv'
    OBVIOUS
  <1>1. CASE UNCHANGED vars
    <2>1. UNCHANGED <<which, link, pc, kown, mown>>
      BY <1>1 DEF vars
    <2>2. CASE which = "keyboard"
      <3>1. LinkInv(K!Bytes)'
        BY <2>1, <2>2
        DEF IInv, KeyboardInv, LinkInv, LinkTypeOK, Device, Empty, Pins, Left, Waiting, Whole,
            InPhase, Receiving, Complete, Quiet, Pausing, Pulling, Held, Sending, link, port,
            device
      <3>2. KeyboardTypes' /\ Asked' /\ Unbegun'
        BY <2>1, <2>2
        DEF IInv, KeyboardInv, KeyboardTypes, Asked, K!AwaitsFA, Unbegun, Whole, link, port,
            device, kown
      <3> QED
        BY <2>1, <2>2, <3>1, <3>2 DEF IInv, KeyboardInv
    <2>3. CASE which = "mouse"
      <3>1. LinkInv(M!MBytes)'
        BY <2>1, <2>3
        DEF IInv, MouseInv, LinkInv, LinkTypeOK, Device, Empty, Pins, Left, Waiting, Whole,
            InPhase, Receiving, Complete, Quiet, Pausing, Pulling, Held, Sending, link, port,
            device
      <3>2. MouseTypes'
        BY <2>1, <2>3 DEF IInv, MouseInv, MouseTypes, mown
      <3>3. InOrder' /\ Silent' /\ (Whole => Given /\ Answers)'
        BY <2>1, <2>3
        DEF IInv, MouseInv, InOrder, Silent, Given, Answers, Acknowledged, Whole, M!InitByte,
            link, port, device, mown
      <3> QED
        BY <2>1, <2>3, <3>1, <3>2, <3>3 DEF IInv, MouseInv
    <2> QED
      BY <2>2, <2>3 DEF IInv
  <1>2. CASE OfLink(Int4) \/ OfLink(Tick) \/ (MayFail /\ OfLink(Fault))
    <2>1. (Int4 \/ Tick \/ Fault) /\ UNCHANGED <<which, kown, mown>>
      BY <1>2 DEF OfLink
    <2>2. CASE which = "keyboard"
      BY <2>1, <2>2, KeyboardLink DEF IInv
    <2>3. CASE which = "mouse"
      BY <2>1, <2>3, MouseLink DEF IInv
    <2> QED
      BY <2>2, <2>3 DEF IInv
  <1>3. CASE OfKeyboard(K!Next)
    BY <1>3, KeyboardStep DEF OfKeyboard, IInv
  <1>4. CASE OfMouse(M!Next)
    BY <1>4, MouseStep DEF OfMouse, IInv
  <1> QED
    BY <1>1, <1>2, <1>3, <1>4 DEF Next

LEMMA Keeps == IInv => Inv
  <1>1. ASSUME NEW B, LinkInv(B) PROVE ByteKept
    BY <1>1 DEF LinkInv, LinkTypeOK, ByteKept, Whole, InPhase, Receiving, Complete, Quiet
  <1>2. ASSUME which = "keyboard", KeyboardInv PROVE K!Inv
    <2>1. LinkTypeOK(K!Bytes) /\ ByteKept /\ KeyboardTypes
      BY <1>1, <1>2 DEF KeyboardInv, LinkInv
    <2>2. K!LinkTypeOK(K!Bytes)
      BY <2>1 DEF LinkTypeOK, K!LinkTypeOK, Full, K!Full, None, K!None
    <2>3. K!ByteKept
      BY <2>1 DEF ByteKept, K!ByteKept, None, K!None
    <2> QED
      BY <2>1, <2>2, <2>3 DEF K!Inv, K!TypeOK, KeyboardTypes, None, K!None
  <1>3. ASSUME which = "mouse", MouseInv PROVE M!Inv
    <2>1. LinkTypeOK(M!MBytes) /\ ByteKept /\ MouseTypes /\ (Whole => Answers)
      BY <1>1, <1>3 DEF MouseInv, LinkInv
    <2>2. M!LinkTypeOK(M!MBytes)
      BY <2>1 DEF LinkTypeOK, M!LinkTypeOK, Full, M!Full, None, M!None
    <2>3. M!ByteKept /\ M!PresentStreams
      BY <2>1 DEF ByteKept, M!ByteKept, M!PresentStreams, Answers, Whole, None, M!None
    <2>4. resp_count \in 0 .. 4
      BY <2>1 DEF MouseTypes
    <2> QED
      BY <2>1, <2>2, <2>3, <2>4 DEF M!Inv, M!TypeOK, MouseTypes, None, M!None
  <1> QED
    BY <1>2, <1>3 DEF IInv, Inv

\* Inv of Ps2Port, for both ports: the types; a byte that the device has sent
\* waits for the task, whole, with CLK held (ps2.c, INT4 and INT5), unless an
\* interrupt was missed; and the Z80 is shown a mouse only when it streams.
THEOREM BytesAreKept == Spec => []Inv
  <1>1. Init => IInv
    BY Starts
  <1>2. IInv /\ [Next]_vars => IInv'
    BY Steps
  <1>3. IInv => Inv
    BY Keeps
  <1> QED
    BY <1>1, <1>2, <1>3, PTL DEF Spec

-----------------------------------------------------------------------------
(* Commands, arguments and answers: a second invariant                     *)

\* A byte has been loaded that the device has not taken yet.
Untaken ==
  /\ dir = "send" /\ pc # "pins"
  /\ \/ pc = "pull"
     \/ mode # "gone" /\ count # 0 /\ ~(mode = "idle" /\ ~hold /\ count = 1)

\* A frame of the device is complete, and the task has not taken it yet.
Came == count = 0 /\ dir = "recv"
Pending == done # None \/ (Came /\ pc \in {"loop", "check"})

\* Bytes of the device that are to be taken.
Coming == Len(queue) + (IF Pending THEN 1 ELSE 0)

NoneAhead == queue # <<>> => Head(queue) # "FA"

\* There is at most one acknowledge, first of all that comes after the byte it
\* is for, and the port does not time out before it has come.
OneAnswer ==
  /\ \A i \in 2 .. Len(queue) : queue[i] # "FA"
  /\ mode = "gone" => queue = <<>>
  /\ done # None \/ Came \/ Untaken => NoneAhead
  /\ Acknowledged /\ count < Full => timeout > 0

\* An argument on its way is what the device expects.
Argument == Untaken /\ shifter = "arg" /\ changes = 0 => expects = "arg"

AnswerInv == Whole => OneAnswer /\ Argument

\* The interrupts and the device, but for its taking a byte.
Line ==
  \/ Int4 \/ Tick \/ Fault \/ Pull \/ Release1 \/ Release2
  \/ DevRequest \/ DevStart \/ DevSend \/ DevAbort

\* What they do to the bytes that come.
Unmoved == queue' = queue /\ done' \in {done, None} /\ (Pending' <=> Pending)
Lost    == queue' = <<>> /\ done' = done /\ (Pending' <=> Pending) /\ mode' = "gone"
Arrived == /\ queue # <<>> /\ queue' = Tail(queue) /\ done' = Head(queue)
           /\ ~Pending /\ Pending' /\ mode # "gone"

LEMMA LineSame ==
  ASSUME Line
  PROVE  /\ Whole' => Whole
         /\ expects' = expects
         /\ \/ dir' = dir /\ pc' = pc
            \/ pc = "pull" /\ pc' = "check" /\ dir' = dir
            \/ pc = "release" /\ pc' = "pins" /\ dir' = dir
            \/ pc = "pins" /\ pc' = "loop" /\ dir' = "recv"
         /\ dir' = "send" => shifter' \in {shifter, None}
  BY DEF Line, Whole, Int4, Tick, Fault, Missed, Damaged, Gone, Pull, Release1, Release2,
         DevRequest, DevStart, DevSend, DevAbort, Edge, port, device

LEMMA Int4Completes ==
  ASSUME NEW B, None \notin B, LinkInv(B), Whole', Int4
  PROVE  ~Came /\ (Came' => done # None)
  <1> USE LinkAssumption DEF Full
  <1>1. InPhase /\ LinkTypeOK(B) /\ Device /\ Empty
    BY LineSame DEF LinkInv, Line
  <1>2. /\ count \in 1 .. Full
        /\ count' = IF dir = "recv" /\ count = 2 THEN 0 ELSE count - 1
        /\ edge /\ dir' = dir
    BY Int4Counts DEF Int4
  <1>3. CASE dir = "send"
    BY <1>2, <1>3 DEF Came
  <1>4. CASE dir = "recv" /\ hold
    BY <1>1, <1>4, <1>2 DEF InPhase, Complete
  <1>5. CASE dir = "recv" /\ ~hold
    <2>1. count # 1
      BY <1>1, <1>2, <1>5 DEF InPhase, Receiving, Quiet, Waiting, Device, LinkTypeOK
    <2>2. count = 2 => done # None
      BY <1>1, <1>2, <1>5 DEF InPhase, Receiving, Quiet, Waiting, Device, LinkTypeOK
    <2> QED
      BY <1>2, <2>1, <2>2 DEF Came
  <1> QED
    BY <1>1, <1>3, <1>4, <1>5 DEF LinkTypeOK

LEMMA LineMoves ==
  ASSUME NEW B, None \notin B, LinkInv(B), Whole', Line
  PROVE  Unmoved \/ Lost \/ Arrived
  <1> USE LinkAssumption DEF Full
  <1>1. Whole /\ InPhase /\ LinkTypeOK(B) /\ Device /\ Empty /\ Pins
    BY LineSame DEF LinkInv
  <1>2. CASE Int4
    <2>1. /\ count \in 1 .. Full
          /\ count' = IF dir = "recv" /\ count = 2 THEN 0 ELSE count - 1
          /\ edge /\ UNCHANGED <<dir, pc, queue, done>>
      BY <1>2, Int4Counts DEF Int4, device
    <2>2. ~Came /\ (Came' => done # None)
      BY <1>2, Int4Completes
    <2> QED
      BY <2>1, <2>2 DEF Unmoved, Pending
  <1>3. CASE Tick
    BY <1>3 DEF Tick, device, Unmoved, Pending, Came
  <1>4. CASE Fault
    <2>1. /\ UNCHANGED <<count, dir, pc>>
          /\ Damaged \/ Gone
      BY <1>4 DEF Fault, Whole
    <2>2. CASE Gone
      BY <2>1, <2>2 DEF Gone, Lost, Pending, Came
    <2>3. CASE Damaged
      <3>1. done' = None /\ queue' = queue
        BY <2>3 DEF Damaged
      <3>2. done # None => Came /\ pc \in {"loop", "check"}
        BY <1>1, <2>3 DEF Damaged, InPhase, Complete, Quiet, Empty, Came, LinkTypeOK
      <3> QED
        BY <2>1, <3>1, <3>2 DEF Unmoved, Pending, Came
    <2> QED
      BY <2>1, <2>2, <2>3
  <1>5. CASE Pull
    BY <1>1, <1>5 DEF Pull, InPhase, Pulling, device, Unmoved, Pending, Came
  <1>6. CASE Release1
    <2>1. done = None
      BY <1>1, <1>6 DEF Release1, InPhase, Receiving, Complete, Quiet, LinkTypeOK
    <2> QED
      BY <1>6, <2>1 DEF Release1, device, Unmoved, Pending, Came
  <1>7. CASE Release2
    <2>1. done = None
      BY <1>1, <1>7 DEF Release2, InPhase, Receiving, Complete, Quiet, LinkTypeOK
    <2>2. count # 0
      BY <1>1, <1>7 DEF Release2, Pins, Waiting, Left, LinkTypeOK
    <2> QED
      BY <1>7, <2>1, <2>2 DEF Release2, device, Unmoved, Pending, Came
  <1>8. CASE DevRequest \/ DevStart \/ DevAbort
    BY <1>8 DEF DevRequest, DevStart, DevAbort, port, Unmoved, Pending, Came
  <1>9. CASE DevSend
    <2>1. UNCHANGED <<count, dir, pc>> /\ mode = "send" /\ ~hold /\ ~edge
      BY <1>9 DEF DevSend, Edge
    <2>2. queue # <<>> /\ byte = Head(queue) /\ ~Came
      BY <1>1, <2>1 DEF Device, Empty, Came
    <2>3. done = None
      BY <1>1, <2>1 DEF InPhase, Receiving, Quiet, LinkTypeOK
    <2>4. CASE bits' = Bits
      <3>1. done' = Head(queue) /\ queue' = Tail(queue)
        BY <1>9, <2>2, <2>4 DEF DevSend
      <3>2. Head(queue) # None
        BY <1>1, <2>2 DEF LinkTypeOK
      <3> QED
        BY <2>1, <2>2, <2>3, <3>1, <3>2 DEF Arrived, Pending
    <2>5. CASE bits' # Bits
      BY <1>9, <2>1, <2>5 DEF DevSend, Unmoved, Pending, Came
    <2> QED
      BY <2>4, <2>5
  <1> QED
    BY <1>2, <1>3, <1>4, <1>5, <1>6, <1>7, <1>8, <1>9 DEF Line

\* None of them makes an acknowledge or a byte.
LEMMA LineGives ==
  ASSUME NEW B, None \notin B, LinkInv(B), Whole', Line, OneAnswer
  PROVE  /\ Acknowledged' => Acknowledged
         /\ Coming \in Nat /\ Coming' \in Nat /\ Coming' <= Coming
         /\ \A i \in 2 .. Len(queue') : queue'[i] # "FA"
         /\ NoneAhead \/ Arrived => NoneAhead'
  <1>1. queue \in Seq(B) /\ queue' \in {<<>>, queue, Tail(queue)}
    BY LineMoves DEF LinkInv, LinkTypeOK, Unmoved, Lost, Arrived
  <1>2. CASE Unmoved
    <2>1. ~Arrived \/ queue = <<>>
      BY <1>2 DEF Unmoved, Arrived
    <2> QED
      BY <1>1, <1>2, <2>1 DEF Unmoved, Acknowledged, Coming, OneAnswer, NoneAhead, None
  <1>3. CASE Lost
    BY <1>1, <1>3 DEF Lost, Acknowledged, Coming, NoneAhead
  <1>4. CASE Arrived
    <2>1. /\ Len(queue') = Len(queue) - 1 /\ Len(queue) \in Nat /\ Len(queue') \in Nat
          /\ \A i \in 1 .. Len(queue') : queue'[i] = queue[i + 1]
      BY <1>1, <1>4 DEF Arrived
    <2>2. \A i \in 1 .. Len(queue') : queue'[i] # "FA"
      <3>1. \A i \in 1 .. Len(queue') : i + 1 \in 2 .. Len(queue)
        BY <2>1
      <3> QED
        BY <2>1, <3>1 DEF OneAnswer
    <2>3. NoneAhead'
      <3>1. queue' \in Seq(B)
        BY <1>1, <1>4, <2>1 DEF Arrived
      <3>2. queue' # <<>> => 1 \in 1 .. Len(queue') /\ Head(queue') = queue'[1]
        BY <3>1
      <3> QED
        BY <2>2, <3>2 DEF NoneAhead
    <2>4. Coming \in Nat /\ Coming' = Coming
      BY <1>4, <2>1 DEF Arrived, Coming
    <2>5. Acknowledged' => Acknowledged
      BY <1>1, <1>4, <2>1, <2>2 DEF Arrived, Acknowledged
    <2> QED
      BY <2>1, <2>2, <2>3, <2>4, <2>5
  <1> QED
    BY <1>2, <1>3, <1>4, LineMoves

LEMMA LineTakes ==
  ASSUME NEW B, None \notin B, LinkInv(B), Whole', Line
  PROVE  /\ Untaken' => Untaken
         /\ done' # None \/ Came' => done # None \/ Came \/ Arrived
  <1> USE LinkAssumption DEF Full
  <1>1. Whole /\ InPhase /\ LinkTypeOK(B) /\ Device /\ Empty /\ Pins
    BY LineSame DEF LinkInv
  <1>2. done' # None \/ Came' => done # None \/ Came \/ Arrived
    <2>1. CASE Arrived
      BY <2>1
    <2>2. CASE Unmoved \/ Lost
      <3>1. CASE Int4
        BY <2>2, <3>1, Int4Completes DEF Unmoved, Lost
      <3>2. CASE ~Int4
        <4>1. Came' => pc' \in {"loop", "check"} \/ Came
          <5>1. CASE Release1
            <6>1. count' # 0
              BY <5>1 DEF Release1
            <6> QED
              BY <6>1 DEF Came
          <5>3. CASE Release2
            BY <5>3 DEF Release2
          <5>4. CASE Pull
            BY <5>4 DEF Pull, Came
          <5>5. CASE Tick
            BY <5>5 DEF Tick, Came
          <5>6. CASE Fault
            BY <5>6 DEF Fault, Came
          <5>2. CASE DevRequest \/ DevStart \/ DevSend \/ DevAbort
            BY <5>2 DEF DevRequest, DevStart, DevSend, DevAbort, Edge, Came, port
          <5> QED
            BY <3>2, <5>1, <5>2, <5>3, <5>4, <5>5, <5>6 DEF Line
        <4> QED
          BY <2>2, <4>1 DEF Unmoved, Lost, Pending
      <3> QED
        BY <3>1, <3>2
    <2> QED
      BY <2>1, <2>2, LineMoves
  <1>3. Untaken' => Untaken
    <2> SUFFICES ASSUME Untaken' PROVE Untaken
      OBVIOUS
    <2>1. CASE Int4
      <3>1. /\ count \in 1 .. Full
            /\ count' = IF dir = "recv" /\ count = 2 THEN 0 ELSE count - 1
            /\ UNCHANGED <<dir, pc, mode>>
        BY <2>1, Int4Counts DEF Int4, device
      <3> QED
        BY <3>1 DEF Untaken
    <2>2. CASE Tick \/ Fault
      BY <2>2 DEF Tick, Fault, Missed, Damaged, Gone, Untaken, device
    <2>3. CASE Pull \/ Release1 \/ Release2
      BY <1>1, <2>3 DEF Pull, Release1, Release2, Untaken, InPhase, Pulling
    <2>4. CASE DevRequest \/ DevStart
      BY <1>1, <2>4 DEF DevRequest, DevStart, Short, Untaken, port, InPhase, Sending
    <2>5. CASE DevSend \/ DevAbort
      BY <1>1, <2>5 DEF DevSend, DevAbort, Edge, Untaken, port
    <2> QED
      BY <2>1, <2>2, <2>3, <2>4, <2>5 DEF Line
  <1> QED
    BY <1>2, <1>3

LEMMA LineAnswers ==
  ASSUME NEW B, None \notin B, LinkInv(B), Line, AnswerInv, changes' = changes
  PROVE  AnswerInv'
  <1> USE LinkAssumption DEF Full
  <1> SUFFICES ASSUME Whole' PROVE OneAnswer' /\ Argument'
    BY DEF AnswerInv
  <1>1. /\ Whole /\ InPhase /\ LinkTypeOK(B) /\ Device /\ Empty /\ Pins
        /\ OneAnswer /\ Argument
    BY LineSame DEF LinkInv, AnswerInv
  <1>2. Argument'
    <2>1. Untaken' => dir' = "send"
      BY DEF Untaken
    <2> QED
      BY <1>1, <2>1, LineSame, LineTakes DEF Argument, None
  <1>3. \A i \in 2 .. Len(queue') : queue'[i] # "FA"
    BY <1>1, LineGives
  <1>4. mode' = "gone" => queue' = <<>>
    BY <1>1
    DEF OneAnswer, Line, Int4, Tick, Fault, Missed, Damaged, Gone, Pull, Release1, Release2,
        DevRequest, DevStart, DevSend, DevAbort, Edge, device
  <1>5. done' # None \/ Came' \/ Untaken' => NoneAhead'
    BY <1>1, LineGives, LineTakes DEF OneAnswer
  <1>6. Acknowledged' /\ count' < Full => timeout' > 0
    <2>1. CASE Tick
      <3> SUFFICES ASSUME Acknowledged', count < Full, timeout = 1 PROVE FALSE
        BY <1>1, <2>1 DEF Tick, LinkTypeOK
      <3>1. /\ Acknowledged /\ ~edge /\ Idle /\ pc # "pull" /\ count \in 1 .. Bits
        BY <1>1, <2>1, LineGives DEF Tick
      <3>2. done = None
        BY <1>1, <3>1 DEF InPhase, Receiving, Complete, Quiet, LinkTypeOK
      <3>3. queue # <<>> /\ Head(queue) = "FA" /\ ~Untaken /\ mode = "idle"
        BY <1>1, <3>1, <3>2 DEF Acknowledged, OneAnswer, NoneAhead, Idle, None
      <3>4. CASE dir = "recv"
        BY <1>1, <3>1, <3>3, <3>4 DEF InPhase, Receiving, Complete, LinkTypeOK
      <3>5. CASE dir = "send" /\ hold
        BY <1>1, <3>1, <3>3, <3>5 DEF InPhase, Held, Untaken, LinkTypeOK
      <3>6. CASE dir = "send" /\ ~hold
        BY <1>1, <3>1, <3>3, <3>6 DEF InPhase, Sending, Untaken, LinkTypeOK
      <3> QED
        BY <1>1, <3>4, <3>5, <3>6 DEF LinkTypeOK
    <2>2. CASE Int4
      BY <2>2 DEF Int4
    <2>3. CASE ~Tick /\ ~Int4
      <3>1. timeout' = timeout /\ (count' = count \/ count' = Full)
        BY <2>3
        DEF Line, Fault, Pull, Release1, Release2, DevRequest, DevStart, DevSend, DevAbort,
            Edge, port
      <3> QED
        BY <1>1, <3>1, LineGives DEF OneAnswer
    <2> QED
      BY <2>1, <2>2, <2>3
  <1> QED
    BY <1>2, <1>3, <1>4, <1>5, <1>6 DEF OneAnswer

\* What the tasks do to the answers.
LEMMA TurnAnswers ==
  ASSUME AnswerInv, UNCHANGED <<link, changes>>,
         pc \in {"loop", "pause", "check"}, pc' \in {"loop", "pause", "check"}
  PROVE  AnswerInv'
  BY DEF AnswerInv, Whole, OneAnswer, Argument, Untaken, Came, NoneAhead, Acknowledged, link, port,
         device

LEMMA EndAnswers ==
  ASSUME AnswerInv, UNCHANGED <<port, device, faults, changes>>,
         pc = "check", pc' = "release", done' \in {done, None}
  PROVE  AnswerInv'
  BY DEF AnswerInv, Whole, OneAnswer, Argument, Untaken, Came, NoneAhead, Acknowledged, port,
         device, None

LEMMA LoadAnswers ==
  ASSUME AnswerInv, NEW b, Load(b), pc' = "pull", done' \in {done, None},
         UNCHANGED <<count, timeout, hold, drive, edge, device, faults, changes>>,
         Whole => ~Acknowledged /\ (b = "arg" /\ changes = 0 => expects = "arg")
  PROVE  AnswerInv'
  BY DEF AnswerInv, Whole, OneAnswer, Argument, Load, NoneAhead, Acknowledged, device, None

LEMMA TakeAnswers ==
  ASSUME NEW B, LinkInv(B), AnswerInv, mode = "recv", Edge,
         mode' = IF bits' = Bits THEN "idle" ELSE mode,
         bits' # Bits => UNCHANGED <<queue, expects>>,
         \A i \in 2 .. Len(queue') : queue'[i] # "FA",
         UNCHANGED <<done, faults, changes>>
  PROVE  AnswerInv'
  <1> USE LinkAssumption DEF Full
  <1> SUFFICES ASSUME Whole' PROVE OneAnswer' /\ Argument'
    BY DEF AnswerInv
  <1>1. /\ Whole /\ InPhase /\ LinkTypeOK(B) /\ Device
        /\ OneAnswer /\ Argument
    BY DEF LinkInv, AnswerInv, Whole
  <1>2. /\ dir = "send" /\ ~hold /\ done = None /\ pc \in {"loop", "check", "pause"}
        /\ timeout > 0 /\ count + bits = Bits /\ ~edge /\ bits < Bits
    BY <1>1 DEF InPhase, Quiet, Sending, Edge, Waiting, Device
  <1>3. UNCHANGED <<count, timeout, dir, shifter, hold, pc>> /\ bits' = bits + 1
    BY DEF Edge
  <1>4. CASE bits' = Bits
    <2>1. count = 1
      BY <1>1, <1>2, <1>3, <1>4 DEF LinkTypeOK
    <2>2. ~Untaken' /\ ~Came'
      BY <1>2, <1>3, <1>4, <2>1 DEF Untaken, Came
    <2> QED
      BY <1>2, <1>3, <1>4, <2>2 DEF OneAnswer, Argument
  <1>5. CASE bits' # Bits
    BY <1>1, <1>2, <1>3, <1>5
    DEF OneAnswer, Argument, Untaken, Came, NoneAhead, Acknowledged
  <1> QED
    BY <1>4, <1>5

LEMMA QueueAnswers ==
  ASSUME AnswerInv, mode # "gone",
         queue # <<>> => queue' # <<>> /\ Head(queue') = Head(queue),
         queue = <<>> => NoneAhead',
         \A i \in 2 .. Len(queue') : queue'[i] # "FA",
         UNCHANGED <<port, pc, mode, expects, done, faults, changes>>
  PROVE  AnswerInv'
  BY DEF AnswerInv, Whole, OneAnswer, Argument, Untaken, Came, NoneAhead, Acknowledged, port

-----------------------------------------------------------------------------
(* The keyboard                                                            *)

\* The byte on its way is the one of the command's stage, or damaged.
StageLoaded ==
  dir = "send" /\ pc \notin {"release", "pins"} =>
    shifter \in {None, IF cmd \in K!TwoByte /\ cmd_count = 1 THEN "arg" ELSE cmd}

\* The second stage of a command begins when the keyboard expects it, and an
\* acknowledge is for the stage that awaits one.
StageAnswered ==
  /\ cmd \in K!TwoByte /\ cmd_count = 2 => expects = "arg"
  /\ Acknowledged => K!AwaitsFA /\ (cmd_count = 3 => expects = "arg")

KeyboardArgs == AnswerInv /\ (Whole => StageLoaded /\ StageAnswered)

LEMMA KeyboardLineArgs ==
  ASSUME KeyboardInv, KeyboardArgs, Line, UNCHANGED <<kown, mown>>
  PROVE  KeyboardArgs'
  <1>1. UNCHANGED <<cmd, cmd_count, changes>> /\ LinkInv(K!Bytes) /\ None \notin K!Bytes
    BY KeyboardBytes DEF kown, mown, KeyboardInv
  <1>2. AnswerInv'
    BY <1>1, LineAnswers DEF KeyboardArgs
  <1>3. ASSUME Whole' PROVE StageLoaded' /\ StageAnswered'
    <2>1. StageLoaded /\ StageAnswered /\ OneAnswer
      BY <1>3, LineSame DEF KeyboardArgs, AnswerInv
    <2>2. StageLoaded'
      BY <1>1, <2>1, LineSame DEF StageLoaded
    <2>3. Acknowledged' => Acknowledged
      BY <1>1, <1>3, <2>1, LineGives
    <2> QED
      BY <1>1, <2>1, <2>2, <2>3, LineSame DEF StageAnswered, K!AwaitsFA
  <1> QED
    BY <1>2, <1>3 DEF KeyboardArgs

LEMMA KeyboardTaskArgs ==
  ASSUME KeyboardInv, KeyboardArgs, changes' = changes,
         \/ \E c \in K!TwoByte : K!SendCmd(c)
         \/ K!Begin \/ K!Command \/ K!Check
  PROVE  KeyboardArgs'
  <1> USE DEF KeyboardArgs, K!None, None
  <1>1. CASE \E c \in K!TwoByte : K!SendCmd(c)
    <2>1. PICK c \in K!TwoByte : K!SendCmd(c)
      BY <1>1
    <2>2. /\ pc = "loop" /\ pc' = pc /\ UNCHANGED link /\ cmd = None
          /\ cmd' = c /\ c \in K!TwoByte /\ cmd_count' = 4
      BY <2>1 DEF K!SendCmd, K!link, K!port, K!device, link, port, device, K!TwoByte
    <2>3. AnswerInv'
      BY <2>2, TurnAnswers
    <2>4. ASSUME Whole' PROVE StageLoaded' /\ StageAnswered'
      <3>1. StageLoaded /\ StageAnswered /\ ~K!AwaitsFA /\ dir # "send"
        BY <2>2, <2>4 DEF Whole, link, K!AwaitsFA, K!TwoByte, KeyboardInv, Asked
      <3> QED
        BY <2>2, <3>1 DEF link, port, device, StageLoaded, StageAnswered, Acknowledged
    <2> QED
      BY <2>3, <2>4
  <1>2. CASE K!Begin
    <2>1. /\ pc = "loop" /\ UNCHANGED link /\ UNCHANGED <<cmd, cmd_count, keys>>
          /\ pc' \in {"check", "pause"}
      BY <1>2 DEF K!Begin, K!link, K!port, K!device, link, port, device, K!command
    <2>2. AnswerInv'
      BY <2>1, TurnAnswers
    <2>3. Whole' => StageLoaded' /\ StageAnswered'
      BY <2>1 DEF Whole, link, port, device, StageLoaded, StageAnswered, Acknowledged, K!AwaitsFA
    <2> QED
      BY <2>2, <2>3
  <1>3. CASE K!Command
    <2> USE DEF K!Command
    <2>1. CASE K!StageByte = None
      <3>1. /\ pc = "pause" /\ pc' = "check" /\ UNCHANGED link
            /\ UNCHANGED <<cmd, cmd_count, keys>>
        BY <1>3, <2>1 DEF K!device, link, port, device
      <3>2. AnswerInv'
        BY <3>1, TurnAnswers
      <3>3. Whole' => StageLoaded' /\ StageAnswered'
        BY <3>1
        DEF Whole, link, port, device, StageLoaded, StageAnswered, Acknowledged, K!AwaitsFA
      <3> QED
        BY <3>2, <3>3
    <2>2. CASE K!StageByte # None
      <3>1. /\ pc = "pause" /\ pc' = "pull" /\ Load(K!StageByte)
            /\ UNCHANGED <<count, timeout, hold, drive, edge, device, done, faults>>
            /\ cmd_count' = cmd_count - 1 /\ UNCHANGED <<cmd, keys>>
        BY <1>3, <2>2 DEF K!device, device, K!Load, Load
      <3>2. ~K!AwaitsFA /\ (K!StageByte = "arg" => cmd \in K!TwoByte /\ cmd_count = 2)
        BY <2>2 DEF K!StageByte, K!AwaitsFA, K!TwoByte
      <3>3. Whole => ~Acknowledged /\ (K!StageByte = "arg" => expects = "arg")
        BY <3>2 DEF StageAnswered
      <3>4. AnswerInv'
        BY <3>1, <3>3, LoadAnswers
      <3>5. StageLoaded'
        BY <2>2, <3>1 DEF Load, StageLoaded, K!StageByte, K!TwoByte
      <3>6. Whole' => StageAnswered'
        BY <2>2, <3>1, <3>3
        DEF Whole, StageAnswered, Acknowledged, device, K!StageByte, K!TwoByte
      <3> QED
        BY <3>4, <3>5, <3>6
    <2> QED
      BY <2>1, <2>2
  <1>4. CASE K!Check
    <2> USE DEF K!Check, K!TimedOut, TimedOut, K!Full, Full, K!port, K!device, port, device
    <2>1. CASE K!Nothing
      <3>1. pc = "check" /\ pc' = "loop" /\ UNCHANGED link /\ UNCHANGED <<cmd, cmd_count, keys>>
        BY <1>4, <2>1 DEF K!Nothing, link, K!command
      <3>2. AnswerInv'
        BY <3>1, TurnAnswers
      <3>3. Whole' => StageLoaded' /\ StageAnswered'
        BY <3>1
        DEF Whole, link, StageLoaded, StageAnswered, Acknowledged, K!AwaitsFA
      <3> QED
        BY <3>2, <3>3
    <2>2. CASE K!Failed \/ K!Sent \/ K!Received
      <3>1. /\ pc = "check" /\ pc' = "release" /\ UNCHANGED <<port, device, faults, keys>>
            /\ done' \in {done, None}
        BY <1>4, <2>2 DEF K!Failed, K!Sent, K!Received
      <3>2. AnswerInv'
        BY <3>1, EndAnswers
      <3>3. StageLoaded'
        BY <3>1 DEF StageLoaded
      <3>4. ASSUME Whole' PROVE StageAnswered'
        <4>1. /\ Whole /\ StageAnswered /\ OneAnswer
              /\ LinkTypeOK(K!Bytes) /\ Empty /\ InPhase
          BY <3>1, <3>4 DEF Whole, AnswerInv, KeyboardInv, LinkInv
        <4>2. CASE K!Failed
          <5>1. ~Acknowledged /\ done' = done
            BY <2>2, <4>1, <4>2 DEF K!Failed, OneAnswer, LinkTypeOK
          <5> QED
            BY <3>1, <4>2, <5>1 DEF K!Failed, StageAnswered, Acknowledged, K!TwoByte
        <4>3. CASE K!Sent
          BY <3>1, <4>1, <4>3 DEF K!Sent, K!command, StageAnswered, Acknowledged, K!AwaitsFA
        <4>4. CASE K!Received
          <5>1. PICK b \in K!Decoded(K!Bytes) : K!Answered(b)
            BY <4>4 DEF K!Received
          <5>2. Came /\ shifter = done /\ done # "mixed"
            BY <3>1, <4>1, <4>4
            DEF K!Received, Came, InPhase, Complete, Empty, LinkTypeOK, K!Bytes, K!Commands
          <5>3. b = done
            BY <5>1, <5>2 DEF K!Decoded
          <5>4. ~Acknowledged'
            BY <1>4, <3>1, <4>1, <4>4, <5>2 DEF K!Received, OneAnswer, NoneAhead, Acknowledged
          <5>5. cmd' \in K!TwoByte /\ cmd_count' = 2 => expects' = "arg"
            <6>1. SUFFICES ASSUME cmd' \in K!TwoByte, cmd_count' = 2 PROVE expects = "arg"
              BY <3>1
            <6>2. cmd' = cmd
              BY <5>1, <6>1 DEF K!Answered
            <6>3. \/ cmd_count = 2 /\ ~K!AwaitsFA
                  \/ K!AwaitsFA /\ b = "FA" /\ cmd_count = 3
              BY <5>1, <6>1, <6>2
              DEF K!Answered, K!AwaitsFA, K!TwoByte, KeyboardInv, KeyboardTypes
            <6> QED
              BY <4>1, <5>3, <6>1, <6>2, <6>3 DEF StageAnswered, Acknowledged
          <5> QED
            BY <5>4, <5>5 DEF StageAnswered
        <4> QED
          BY <2>2, <4>2, <4>3, <4>4
      <3> QED
        BY <3>2, <3>3, <3>4
    <2> QED
      BY <1>4, <2>1, <2>2
  <1> QED
    BY <1>1, <1>2, <1>3, <1>4

LEMMA KeyboardDeviceArgs ==
  ASSUME KeyboardInv, KeyboardArgs, changes' = changes, K!KbdTake \/ K!Press
  PROVE  KeyboardArgs'
  <1> USE DEF KeyboardArgs
  <1>1. CASE K!KbdTake
    <2>1. /\ mode = "recv" /\ Edge
          /\ mode' = IF bits' = Bits THEN "idle" ELSE mode
          /\ bits' = Bits => K!Answer(shifter)
          /\ bits' # Bits => UNCHANGED <<queue, expects>>
          /\ UNCHANGED <<done, faults, cmd, cmd_count, keys>>
      BY <1>1 DEF K!KbdTake, K!Edge, K!Short, Edge, Short, K!command
    <2>2. K!Answer(shifter) => queue' \in {<<"FA", "AA">>, <<"FE">>, <<"FA">>}
      BY DEF K!Answer
    <2>3. Whole => \A i \in 2 .. Len(queue') : queue'[i] # "FA"
      <3>1. CASE bits' # Bits
        BY <2>1, <3>1 DEF AnswerInv, OneAnswer
      <3>2. CASE queue' = <<"FA", "AA">>
        BY <3>2
      <3>3. CASE queue' = <<"FE">> \/ queue' = <<"FA">>
        BY <3>3
      <3> QED
        BY <2>1, <2>2, <3>1, <3>2, <3>3
    <2>4. AnswerInv'
      <3>1. CASE Whole
        BY <2>1, <2>3, <3>1, TakeAnswers DEF KeyboardInv
      <3>2. CASE ~Whole
        BY <2>1, <3>2 DEF Whole, AnswerInv
      <3> QED
        BY <3>1, <3>2
    <2>5. ASSUME Whole' PROVE StageLoaded' /\ StageAnswered'
      <3>1. /\ Whole /\ InPhase /\ StageLoaded /\ StageAnswered
            /\ UNCHANGED <<dir, pc, shifter>>
        BY <2>1, <2>5 DEF Whole, KeyboardInv, LinkInv, Edge
      <3>2. StageLoaded'
        BY <2>1, <3>1 DEF StageLoaded
      <3>3. CASE bits' # Bits
        BY <2>1, <3>1, <3>2, <3>3 DEF StageAnswered, Acknowledged, K!AwaitsFA
      <3>4. CASE bits' = Bits
        <4>1. dir = "send" /\ pc \notin {"release", "pins"} /\ done = None
          BY <2>1, <3>1 DEF InPhase, Quiet
        <4>2. K!AwaitsFA /\ K!AwaitsFA'
          BY <2>1, <4>1 DEF KeyboardInv, Asked, K!AwaitsFA
        <4>3. shifter \in {None, IF cmd \in K!TwoByte /\ cmd_count = 1 THEN "arg" ELSE cmd}
          BY <3>1, <4>1 DEF StageLoaded
        <4>4. Acknowledged' => shifter # None
          <5>1. shifter = None => queue' = <<"FE">>
            BY <2>1, <3>4 DEF K!Answer, K!None, None, K!Commands
          <5> QED
            BY <2>1, <4>1, <5>1 DEF Acknowledged, None
        <4>5. expects' = IF shifter \in K!TwoByte THEN "arg" ELSE "cmd"
          BY <2>1, <3>4 DEF K!Answer
        <4> QED
          BY <2>1, <3>2, <4>2, <4>3, <4>4, <4>5 DEF StageAnswered, K!AwaitsFA, K!TwoByte
      <3> QED
        BY <3>3, <3>4
    <2> QED
      BY <2>4, <2>5
  <1>2. CASE K!Press
    <2>1. /\ mode # "gone" /\ queue' = Append(queue, "key")
          /\ UNCHANGED <<port, pc, mode, bits, byte, expects, done, faults, cmd, cmd_count>>
      BY <1>2 DEF K!Press, K!port, port, K!command
    <2>2. /\ queue \in Seq(K!Bytes)
          /\ queue # <<>> => queue' # <<>> /\ Head(queue') = Head(queue)
          /\ queue = <<>> => Head(queue') = "key"
          /\ \A i \in 1 .. Len(queue') : queue'[i] = IF i <= Len(queue) THEN queue[i] ELSE "key"
          /\ Len(queue') = Len(queue) + 1
      BY <2>1 DEF KeyboardInv, LinkInv, LinkTypeOK
    <2>3. Whole => \A i \in 2 .. Len(queue') : queue'[i] # "FA"
      BY <2>2 DEF AnswerInv, OneAnswer
    <2>4. AnswerInv'
      <3>1. CASE Whole
        BY <2>1, <2>2, <2>3, <3>1, QueueAnswers DEF NoneAhead
      <3>2. CASE ~Whole
        BY <2>1, <3>2 DEF Whole, AnswerInv
      <3> QED
        BY <3>1, <3>2
    <2>5. Acknowledged' => Acknowledged
      BY <2>1, <2>2 DEF Acknowledged
    <2> QED
      BY <2>1, <2>4, <2>5 DEF Whole, StageLoaded, StageAnswered, K!AwaitsFA, port
  <1> QED
    BY <1>1, <1>2

LEMMA KeyboardStepArgs ==
  ASSUME KeyboardInv, KeyboardArgs, K!Next, mown' = mown
  PROVE  KeyboardArgs'
  <1>1. CASE (\E c \in K!TwoByte : K!SendCmd(c)) \/ K!Begin \/ K!Command \/ K!Check
    BY <1>1, KeyboardTaskArgs DEF mown
  <1>2. CASE K!KbdTake \/ K!Press
    BY <1>2, KeyboardDeviceArgs DEF mown
  <1>3. CASE K!Release \/ (K!Pull /\ UNCHANGED <<K!command, keys>>)
    <2>1. Release1 \/ Release2 \/ Pull
      BY <1>3 DEF K!Release, K!Release1, K!Release2, K!Pull, Release1, Release2, Pull,
                  K!device, device, K!Full, Full
    <2> QED
      BY <1>3, <2>1, KeyboardLineArgs DEF K!Release, K!command, kown, Line
  <1>4. CASE /\ K!DevRequest \/ K!DevStart \/ K!DevSend \/ K!DevAbort
             /\ UNCHANGED <<K!command, keys>>
    <2>1. DevRequest \/ DevStart \/ DevSend \/ DevAbort
      BY <1>4
      DEF K!DevRequest, K!DevStart, K!DevSend, K!DevAbort, K!Edge, K!Short, K!port, DevRequest,
          DevStart, DevSend, DevAbort, Edge, Short, port
    <2> QED
      BY <1>4, <2>1, KeyboardLineArgs DEF K!command, kown, Line
  <1> QED
    BY <1>1, <1>2, <1>3, <1>4 DEF K!Next, K!Task, K!DevStep

-----------------------------------------------------------------------------
(* The mouse                                                               *)

\* The byte on its way is the one of the stage, or damaged; a change of the
\* resolution meanwhile makes it that of another command.
MouseLoaded ==
  dir = "send" /\ pc \notin {"release", "pins"} =>
    IF in_cmd
    THEN /\ shifter \in {None, "RES", "ENABLE", "arg"}
         /\ changes = 0 => shifter \in {None, IF resp_count = 1 THEN mcmd ELSE "arg"}
    ELSE M!InitByte # None /\ resp_count = 1 /\ shifter \in {None, M!InitByte}

\* Bytes of the answer to a byte of the sequence.
Places(b) == IF b = "RESET" THEN 3 ELSE IF b = "TYPE" THEN 2 ELSE 1

\* An acknowledge is for the stage, and the mouse is silent behind the answer.
MouseAnswered ==
  Acknowledged =>
    IF in_cmd
    THEN /\ resp_count \in {1, 3}
         /\ mcmd = "RES" /\ resp_count = 1 /\ changes = 0 => expects = "arg"
    ELSE /\ M!InitByte # None /\ resp_count = 1
         /\ M!InitByte # "ENABLE" => ~stream /\ Coming <= Places(M!InitByte)
         /\ M!InitByte \in {"RATE", "RES"} => expects = "arg"

\* The first reset may find the mouse in a packet; after it, the mouse says
\* nothing but the answers.
InitSilent ==
  M!InitByte # None =>
    /\ initstep > 1 =>
         /\ M!InitByte # "ENABLE" \/ resp_count = 0 => ~stream
         /\ resp_count = 0 => Coming = 0 /\ (M!InitByte = "arg" => expects = "arg")
    /\ M!InitByte = "RESET" /\ resp_count > 1 => ~stream /\ Coming <= 4 - resp_count
    /\ M!InitByte = "TYPE" => resp_count < 3 /\ (resp_count = 2 => Coming <= 1)
    /\ M!InitByte \notin {"RESET", "TYPE"} => resp_count < 2

\* Between the resolution's command and its argument.
Halfway == in_cmd /\ mcmd = "RES" /\ resp_count = 2 /\ changes = 0 => expects = "arg"

\* The packet of the mouse has so many bytes, and this is what follows n of them.
PacketSize == IF wheel THEN 4 ELSE 3
Rest(n) == Len(queue) = PacketSize - n /\ \A i \in 1 .. Len(queue) : queue[i] = M!Packet[n + i]

\* Behind the acknowledge after which packets may be taken, there is a whole one
\* or nothing ...
BeforePackets ==
  Acknowledged /\ (in_cmd \/ M!InitByte = "ENABLE") =>
    IF done = "FA" THEN queue = <<>> \/ Rest(0) ELSE queue = <<"FA">>

\* ... and then always the rest of the one of which resp_count bytes are taken.
Taken == resp_count + (IF Pending THEN 1 ELSE 0)

InPackets ==
  M!Current = None /\ wheel_type = wheel =>
    /\ resp_count < PacketSize
    /\ done # None => done = M!Packet[resp_count + 1]
    /\ mode # "gone" => IF Taken \in {0, PacketSize} THEN queue = <<>> \/ Rest(0)
                        ELSE Rest(Taken)

Stages == MouseLoaded /\ MouseAnswered /\ InitSilent /\ Halfway /\ BeforePackets /\ InPackets

MouseArgs == AnswerInv /\ (Whole => Stages)

LEMMA LineStays == ASSUME Line, mode = "gone" PROVE mode' = "gone"
  BY DEF Line, Int4, Tick, Fault, Missed, Damaged, Gone, Pull, Release1, Release2,
         DevRequest, DevStart, DevSend, DevAbort, device

\* The rest of a packet is taken byte by byte.
LEMMA RestArrives ==
  ASSUME queue \in Seq(M!MBytes), queue # <<>>, NEW n \in 0 .. 3, Rest(n),
         queue' = Tail(queue), wheel' = wheel
  PROVE  /\ Head(queue) = M!Packet[n + 1]
         /\ IF n + 1 = PacketSize' THEN queue' = <<>> ELSE Rest(n + 1)'
         /\ n + 1 <= PacketSize'
  <1>1. /\ Len(queue) = PacketSize - n /\ Len(queue) \in Nat /\ Len(queue) >= 1
        /\ \A i \in 1 .. Len(queue) : queue[i] = M!Packet[n + i]
    BY DEF Rest
  <1>2. /\ Head(queue) = queue[1] /\ queue' \in Seq(M!MBytes)
        /\ Len(queue') = Len(queue) - 1
        /\ \A i \in 1 .. Len(queue') : queue'[i] = queue[i + 1]
    OBVIOUS
  <1>3. PacketSize' = PacketSize /\ PacketSize \in {3, 4}
    BY DEF PacketSize
  <1>4. Rest(n + 1)'
    <2>1. Len(queue') = PacketSize' - (n + 1)
      BY <1>1, <1>2, <1>3
    <2>2. ASSUME NEW i \in 1 .. Len(queue') PROVE queue'[i] = M!Packet[n + 1 + i]
      <3>1. queue'[i] = queue[i + 1] /\ i + 1 \in 1 .. Len(queue) /\ n + 1 + i = n + (i + 1)
        BY <1>1, <1>2
      <3> QED
        BY <1>1, <3>1
    <2> QED
      BY <2>1, <2>2 DEF Rest
  <1>5. Head(queue) = M!Packet[n + 1]
    BY <1>1, <1>2
  <1>6. n + 1 = PacketSize => queue' = <<>>
    BY <1>1, <1>2
  <1> QED
    BY <1>1, <1>3, <1>4, <1>5, <1>6

LEMMA MouseLineArgs ==
  ASSUME MouseInv, MouseArgs, Line, UNCHANGED mown
  PROVE  MouseArgs'
  <1> USE DEF MouseArgs
  <1>1. /\ UNCHANGED <<initstep, resp_count, mcmd, in_cmd, wheel_type, stream, wheel, changes>>
        /\ M!InitByte' = M!InitByte /\ M!Current' = M!Current
        /\ LinkInv(M!MBytes) /\ None \notin M!MBytes
    BY MouseBytes DEF mown, MouseInv, M!InitByte, M!Current
  <1>2. AnswerInv'
    BY <1>1, LineAnswers
  <1>3. ASSUME Whole' PROVE Stages'
    <2>1. /\ Whole /\ Stages /\ OneAnswer /\ expects' = expects
          /\ queue \in Seq(M!MBytes) /\ MouseTypes
      BY <1>3, LineSame DEF AnswerInv, MouseInv, LinkInv, LinkTypeOK
    <2>2. /\ Acknowledged' => Acknowledged
          /\ Coming \in Nat /\ Coming' \in Nat /\ Coming' <= Coming
      BY <1>1, <1>3, <2>1, LineGives
    <2>3. MouseLoaded'
      BY <1>1, <2>1, LineSame DEF Stages, MouseLoaded
    <2>4. MouseAnswered'
      <3>1. Places(M!InitByte)' = Places(M!InitByte) /\ Places(M!InitByte) \in Nat
        BY <1>1 DEF Places
      <3> QED
        BY <1>1, <2>1, <2>2, <3>1 DEF Stages, MouseAnswered
    <2>5. InitSilent'
      BY <1>1, <2>1, <2>2 DEF Stages, InitSilent, MouseTypes
    <2>6. Halfway'
      BY <1>1, <2>1 DEF Stages, Halfway
    <2>7. BeforePackets'
      <3> SUFFICES ASSUME Acknowledged', in_cmd \/ M!InitByte = "ENABLE"
                   PROVE  IF done' = "FA" THEN queue' = <<>> \/ Rest(0)' ELSE queue' = <<"FA">>
        BY <1>1 DEF BeforePackets
      <3>1. IF done = "FA" THEN queue = <<>> \/ Rest(0) ELSE queue = <<"FA">>
        BY <2>1, <2>2 DEF Stages, BeforePackets
      <3>2. queue' = queue => (Rest(0) => Rest(0)')
        BY <1>1 DEF Rest, PacketSize
      <3>3. CASE Unmoved
        BY <2>1, <3>1, <3>2, <3>3 DEF Unmoved, OneAnswer, NoneAhead, Acknowledged, None
      <3>4. CASE Lost
        BY <3>1, <3>4 DEF Lost, Acknowledged
      <3>5. CASE Arrived
        <4>1. done = None
          BY <3>5 DEF Arrived, Pending
        <4>2. queue = <<"FA">>
          BY <3>1, <4>1 DEF None
        <4> QED
          BY <3>5, <4>2 DEF Arrived
      <3> QED
        BY <1>1, <1>3, <3>3, <3>4, <3>5, LineMoves
    <2>8. InPackets'
      <3> SUFFICES ASSUME M!Current = None, wheel_type = wheel PROVE InPackets'
        BY <1>1 DEF InPackets
      <3>1. /\ resp_count < PacketSize
            /\ done # None => done = M!Packet[resp_count + 1]
            /\ mode # "gone" => IF Taken \in {0, PacketSize} THEN queue = <<>> \/ Rest(0)
                                ELSE Rest(Taken)
            /\ resp_count \in 0 .. 3
        BY <2>1 DEF Stages, InPackets, MouseTypes
      <3>2. PacketSize' = PacketSize /\ (mode' # "gone" => mode # "gone")
        BY <1>1, LineStays DEF PacketSize
      <3>3. CASE Unmoved
        <4>1. Taken' = Taken /\ queue' = queue
          BY <1>1, <3>3 DEF Unmoved, Taken
        <4>2. Rest(0)' <=> Rest(0)
          BY <3>2, <4>1 DEF Rest
        <4>3. Rest(Taken)' <=> Rest(Taken)
          BY <3>2, <4>1 DEF Rest
        <4> QED
          BY <1>1, <3>1, <3>2, <3>3, <4>1, <4>2, <4>3 DEF Unmoved, InPackets
      <3>4. CASE Lost
        BY <1>1, <3>1, <3>2, <3>4 DEF Lost, InPackets
      <3>5. CASE Arrived
        <4>1. /\ Taken = resp_count /\ Taken' = resp_count + 1 /\ mode # "gone"
              /\ queue # <<>> /\ queue' = Tail(queue) /\ done' = Head(queue)
          BY <1>1, <3>1, <3>5 DEF Arrived, Taken
        <4>2. Rest(resp_count)
          BY <3>1, <4>1
        <4>3. /\ Head(queue) = M!Packet[resp_count + 1]
              /\ IF resp_count + 1 = PacketSize' THEN queue' = <<>> ELSE Rest(resp_count + 1)'
          BY <1>1, <2>1, <3>1, <4>1, <4>2, RestArrives
        <4>4. IF Taken' \in {0, PacketSize'} THEN queue' = <<>> \/ Rest(0)' ELSE Rest(Taken)'
          <5>1. CASE resp_count + 1 = PacketSize'
            BY <4>1, <4>3, <5>1
          <5>2. CASE resp_count + 1 # PacketSize'
            <6>1. Rest(Taken)'
              BY <1>1, <4>1, <4>3, <5>2 DEF Rest
            <6> QED
              BY <3>1, <4>1, <5>2, <6>1
          <5> QED
            BY <5>1, <5>2
        <4> QED
          BY <1>1, <3>1, <3>2, <4>1, <4>3, <4>4 DEF InPackets
      <3> QED
        BY <1>1, <1>3, <3>3, <3>4, <3>5, LineMoves
    <2> QED
      BY <2>3, <2>4, <2>5, <2>6, <2>7, <2>8 DEF Stages
  <1> QED
    BY <1>2, <1>3

\* Only after an argument's command does an argument come, and nothing after
\* ENABLE.
LEMMA SequenceOrder ==
  ASSUME MouseTypes
  PROVE  /\ M!InitByte \notin {None, "RESET"} => initstep > 1
         /\ initstep' = 1 => M!InitByte' = "RESET"
         /\ initstep' = initstep + 1 /\ M!InitByte # None =>
              /\ M!InitByte' = "arg" => M!InitByte \in {"RATE", "RES"}
              /\ M!InitByte = "ENABLE" => M!InitByte' = None
  <1> USE DEF None, M!None
  <1>1. /\ initstep \in 1 .. Len(InitSequence) + 1 /\ Len(InitSequence) \in Nat
        /\ Len(InitSequence) >= 1
    BY SequenceAssumption, OrderAssumption DEF MouseTypes
  <1>2. M!InitByte \notin {None, "RESET"} => initstep > 1
    BY <1>1, OrderAssumption DEF M!InitByte
  <1>3. initstep' = 1 => M!InitByte' = "RESET"
    BY <1>1, OrderAssumption DEF M!InitByte
  <1>4. ASSUME initstep' = initstep + 1, M!InitByte # None
        PROVE  /\ M!InitByte' = "arg" => M!InitByte \in {"RATE", "RES"}
               /\ M!InitByte = "ENABLE" => M!InitByte' = None
    <2>1. M!InitByte = InitSequence[initstep] /\ initstep <= Len(InitSequence)
      BY <1>1, <1>4, InitBytes DEF M!InitByte
    <2>2. CASE initstep + 1 <= Len(InitSequence)
      <3>1. /\ initstep + 1 \in 2 .. Len(InitSequence) /\ (initstep + 1) - 1 = initstep
            /\ M!InitByte' = InitSequence[initstep + 1]
        BY <1>1, <1>4, <2>2 DEF M!InitByte
      <3> QED
        BY <2>1, <3>1, OrderAssumption
    <2>3. CASE ~(initstep + 1 <= Len(InitSequence))
      <3>1. M!InitByte' = None
        BY <1>4, <2>3 DEF M!InitByte
      <3> QED
        BY <3>1
    <2> QED
      BY <2>2, <2>3
  <1> QED
    BY <1>2, <1>3, <1>4

\* A step of the task that leaves the stage and the bytes alone.
LEMMA MouseRests ==
  ASSUME MouseInv, MouseArgs, UNCHANGED <<device, done, faults, wheel_type, M!mouse>>,
         UNCHANGED <<count, dir, shifter, initstep, resp_count, in_cmd>>,
         \/ changes' = changes /\ mcmd' = mcmd
         \/ changes' = changes + 1 /\ mcmd' = "RES",
         \/ {pc, pc'} \subseteq {"loop", "check"}
         \/ dir = "send" /\ pc' = "release",
         AnswerInv'
  PROVE  MouseArgs'
  <1> SUFFICES ASSUME Whole' PROVE Stages'
    BY DEF MouseArgs
  <1>1. /\ Stages /\ InOrder /\ MouseTypes
        /\ M!InitByte' = M!InitByte
        /\ Acknowledged' = Acknowledged
    BY DEF MouseArgs, MouseInv, Whole, M!InitByte, Acknowledged, device
  <1>2. Pending' <=> Pending
    BY DEF Pending, Came
  <1>3. Coming' = Coming /\ Taken' = Taken
    BY <1>2 DEF Coming, Taken, device
  <1>4. MouseLoaded'
    BY <1>1 DEF Stages, MouseLoaded, MouseTypes
  <1>5. MouseAnswered'
    BY <1>1, <1>3 DEF Stages, MouseAnswered, MouseTypes, M!mouse, device, Places
  <1>6. InitSilent' /\ Halfway'
    BY <1>1, <1>3 DEF Stages, InitSilent, Halfway, MouseTypes, M!mouse, device
  <1>7. Rest(0)' <=> Rest(0)
    BY DEF Rest, PacketSize, M!mouse, device
  <1>8. BeforePackets'
    BY <1>1, <1>7 DEF Stages, BeforePackets, device
  <1>9. InPackets'
    <2>1. M!Current' = None => M!Current = None
      BY <1>1 DEF M!Current, InOrder, None, M!None
    <2>2. Rest(Taken)' <=> Rest(Taken)
      BY <1>3 DEF Rest, PacketSize, M!mouse, device
    <2>3. PacketSize' = PacketSize
      BY DEF PacketSize, M!mouse
    <2> QED
      BY <1>1, <1>3, <1>7, <2>1, <2>2, <2>3 DEF Stages, InPackets, M!mouse, device
  <1> QED
    BY <1>4, <1>5, <1>6, <1>8, <1>9 DEF Stages

LEMMA MouseTaskArgs ==
  ASSUME MouseInv, MouseArgs, M!Turn \/ M!WaitOn \/ M!Delayed \/ M!SetResolution
  PROVE  MouseArgs'
  <1>1. UNCHANGED <<link, initstep, resp_count, in_cmd, wheel_type, M!mouse>>
    BY DEF M!Turn, M!WaitOn, M!Delayed, M!SetResolution, M!own, M!stage, M!flags, M!link, M!port,
           M!device, link, port, device
  <1>2. pc \in {"loop", "check"} /\ pc' \in {"loop", "check"}
    BY DEF M!Turn, M!WaitOn, M!Delayed, M!SetResolution
  <1>3. CASE M!Turn \/ M!WaitOn \/ M!Delayed
    <2>1. changes' = changes /\ mcmd' = mcmd
      BY <1>3 DEF M!Turn, M!WaitOn, M!Delayed, M!own, M!stage, M!user
    <2>2. AnswerInv'
      BY <1>1, <1>2, <2>1, TurnAnswers DEF MouseArgs
    <2> QED
      BY <1>1, <1>2, <2>1, <2>2, MouseRests DEF link, port
  <1>4. CASE M!SetResolution
    <2>1. changes' = changes + 1 /\ mcmd' = "RES" /\ changes \in Nat /\ pc' = pc
      BY <1>4, PortAssumption DEF M!SetResolution, MouseInv, MouseTypes
    <2>2. AnswerInv'
      BY <1>1, <2>1
      DEF MouseArgs, AnswerInv, Whole, OneAnswer, Argument, Untaken, Came, NoneAhead,
          Acknowledged, link, port, device
    <2> QED
      BY <1>1, <1>2, <2>1, <2>2, MouseRests DEF link, port
  <1> QED
    BY <1>3, <1>4

LEMMA MouseSendsArgs ==
  ASSUME MouseInv, MouseArgs, M!WaitOver
  PROVE  MouseArgs'
  <1> USE DEF MouseInv, MouseArgs, M!None, None
  <1> DEFINE b == IF wait_state = "INIT" THEN M!InitByte
                  ELSE IF wait_state = "CMD" THEN mcmd ELSE "arg"
  <1>1. /\ pc = "check" /\ pc' = "pull" /\ wait_state # None /\ done' = None
        /\ shifter' = b /\ dir' = "send" /\ resp_count' = resp_count + 1
        /\ UNCHANGED <<count, timeout, hold, drive, edge, device, faults>>
        /\ UNCHANGED <<initstep, mcmd, changes, stream>>
    BY DEF M!WaitOver, M!Load, M!device, device, M!mouse, M!user
  <1>2. /\ in_cmd' <=> (in_cmd \/ wait_state = "CMD")
        /\ M!InitByte' = M!InitByte
    BY <1>1 DEF M!WaitOver, M!InitByte
  <1>3. /\ wait_state \in {"INIT", "CMD", "RES"} /\ resp_count \in {0, 2}
        /\ wait_state = "INIT" => M!InitByte # None /\ resp_count = 0 /\ ~in_cmd
        /\ wait_state = "CMD" => resp_count = 0 /\ mcmd \in {"RES", "ENABLE"}
        /\ wait_state = "RES" => resp_count = 2 /\ in_cmd /\ mcmd = "RES"
        /\ wait_state # "INIT" => M!InitByte = None
    BY <1>1 DEF Silent, InOrder, MouseTypes
  <1>4. Whole => ~Acknowledged
    BY <1>3 DEF Stages, MouseAnswered
  <1>5. Whole /\ b = "arg" /\ changes = 0 => expects = "arg"
    <2>1. wait_state = "INIT" /\ M!InitByte = "arg" => initstep > 1
      BY SequenceOrder
    <2> QED
      BY <1>3, <2>1 DEF Stages, InitSilent, Halfway
  <1>6. AnswerInv'
    BY <1>1, <1>4, <1>5, LoadAnswers DEF Load
  <1>7. ASSUME Whole' PROVE Stages'
    <2>1. Whole /\ Stages
      BY <1>1, <1>7 DEF Whole
    <2>2. MouseLoaded'
      BY <1>1, <1>2, <1>3 DEF MouseLoaded
    <2>3. ~Acknowledged'
      BY <1>1, <1>4, <2>1 DEF Acknowledged, device
    <2>4. InitSilent'
      BY <1>1, <1>2, <1>3, <2>1 DEF Stages, InitSilent
    <2>5. Halfway' /\ MouseAnswered' /\ BeforePackets'
      BY <1>1, <1>3, <2>3 DEF Halfway, MouseAnswered, BeforePackets
    <2>6. InPackets'
      BY <1>1, <1>2, <1>3 DEF InPackets, M!Current
    <2> QED
      BY <2>2, <2>4, <2>5, <2>6 DEF Stages
  <1> QED
    BY <1>6, <1>7

LEMMA NoneAdded == ASSUME NEW n \in Nat PROVE n + 0 = n
  OBVIOUS

LEMMA NoneTaken == ASSUME ~Pending', resp_count' \in Nat PROVE Taken' = resp_count'
  BY NoneAdded DEF Taken

\* A byte is taken that has come whole: what follows it is in the queue.
LEMMA ReceivedByte ==
  ASSUME MouseInv, MouseArgs, Whole, pc = "check", count = 0, dir = "recv", ~TimedOut,
         NEW b \in M!Decoded(M!MBytes)
  PROVE  /\ b = done /\ shifter = done /\ NoneAhead /\ Pending /\ Coming = Len(queue) + 1
         /\ Acknowledged <=> b = "FA"
  <1>1. InPhase /\ Empty /\ LinkTypeOK(M!MBytes) /\ OneAnswer
    BY DEF MouseInv, MouseArgs, LinkInv, AnswerInv
  <1>2. shifter = done /\ done # "mixed"
    BY <1>1 DEF InPhase, Complete, Empty, LinkTypeOK, M!MBytes, None
  <1>3. Came /\ NoneAhead
    BY <1>1 DEF Came, OneAnswer
  <1> QED
    BY <1>2, <1>3 DEF M!Decoded, Pending, Coming, Acknowledged, NoneAhead

\* What the stage becomes when the byte is taken.
Begun    == initstep' = 1 /\ resp_count' = 0 /\ ~in_cmd'
Went     == /\ UNCHANGED <<initstep, mcmd, in_cmd, wheel_type>>
            /\ resp_count' = resp_count + 1
Finished == /\ resp_count' = 0 /\ ~in_cmd'
            /\ in_cmd => initstep' = initstep
            /\ ~in_cmd => initstep' = initstep + 1
Halved   == resp_count' = 0 /\ ~in_cmd' /\ in_cmd /\ initstep' = initstep

LEMMA HandledStage ==
  ASSUME MouseInv, MouseArgs, Whole, NEW b, M!Handled(b), M!Current # None,
         Acknowledged <=> b = "FA", Pending
  PROVE  \/ Begun
         \/ /\ Went
            /\ in_cmd => b = "FA" /\ mcmd = "RES" /\ resp_count = 1
            /\ ~in_cmd => \/ M!InitByte = "RESET" /\ (resp_count = 1 => b = "FA")
                          \/ M!InitByte = "TYPE" /\ resp_count = 1 /\ b = "FA"
         \/ /\ Finished
            /\ in_cmd => b = "FA"
            /\ ~in_cmd => \/ M!InitByte = "RESET" /\ resp_count = 3
                          \/ M!InitByte = "TYPE" /\ resp_count = 2
                          \/ M!InitByte \notin {"RESET", "TYPE"} /\ b = "FA"
         \/ Halved /\ b = "FA"
  <1> USE DEF None, M!None
  <1>1. /\ InOrder /\ MouseTypes /\ resp_count \in 0 .. 3 /\ in_cmd \in BOOLEAN
        /\ Stages /\ (Coming = 0 => FALSE)
    BY DEF MouseInv, MouseArgs, MouseTypes, Coming, LinkInv, LinkTypeOK
  <1>2. M!Reinit => Begun
    BY DEF M!Reinit, Begun
  <1>3. M!Finish => Finished
    BY DEF M!Finish, Finished
  <1>4. M!Advance => Went
    BY DEF M!Advance, Went
  <1>5. CASE in_cmd
    <2>1. mcmd \in {"RES", "ENABLE"} /\ M!Current = mcmd
      BY <1>1, <1>5 DEF InOrder, MouseTypes, M!Current
    <2>2. CASE mcmd = "RES"
      <3>1. M!OfResolution(b)
        BY <2>1, <2>2 DEF M!Handled
      <3>2. b = "FA" => resp_count \in {1, 3}
        BY <1>1, <1>5 DEF Stages, MouseAnswered
      <3> QED
        BY <1>2, <1>4, <1>5, <2>2, <3>1, <3>2 DEF M!OfResolution, Halved
    <2>3. CASE mcmd = "ENABLE"
      <3>1. M!OfOther(b)
        BY <2>1, <2>3 DEF M!Handled
      <3> QED
        BY <1>2, <1>3, <1>5, <3>1 DEF M!OfOther
    <2> QED
      BY <2>1, <2>2, <2>3
  <1>6. CASE ~in_cmd
    <2>1. M!Current = M!InitByte /\ M!InitByte # None
      BY <1>6 DEF M!Current
    <2>2. M!InitByte # "RESET" => resp_count # 0
      BY <1>1, <2>1, SequenceOrder DEF Stages, InitSilent
    <2>3. CASE M!InitByte = "RESET"
      <3>1. M!OfReset(b)
        BY <2>1, <2>3 DEF M!Handled
      <3> QED
        BY <1>1, <1>2, <1>3, <1>4, <1>6, <2>3, <3>1 DEF M!OfReset
    <2>4. CASE M!InitByte = "TYPE"
      <3>1. M!OfType(b) /\ resp_count \in {1, 2}
        BY <1>1, <2>1, <2>2, <2>4 DEF M!Handled, Stages, InitSilent
      <3> QED
        BY <1>2, <1>3, <1>4, <1>6, <2>4, <3>1 DEF M!OfType
    <2>5. CASE M!InitByte \notin {"RESET", "TYPE"}
      <3>1. resp_count = 1 /\ (M!OfResolution(b) \/ M!OfOther(b))
        BY <1>1, <2>1, <2>2, <2>5 DEF M!Handled, Stages, InitSilent
      <3> QED
        BY <1>2, <1>3, <1>6, <2>5, <3>1 DEF M!OfResolution, M!OfOther
    <2> QED
      BY <2>3, <2>4, <2>5
  <1> QED
    BY <1>1, <1>5, <1>6

LEMMA MouseReceivedArgs ==
  ASSUME MouseInv, MouseArgs, M!MouseReceived, pc = "check", wait_state = None,
         UNCHANGED <<port, device, faults, M!mouse, M!user>>
  PROVE  MouseArgs'
  <1> USE DEF None, M!None
  <1>1. /\ pc' = "release" /\ count = 0 /\ dir = "recv" /\ done' = None /\ ~TimedOut
        /\ UNCHANGED <<port, device, faults, stream, wheel, changes>>
    BY DEF M!MouseReceived, M!mouse, M!user, M!TimedOut, TimedOut, M!Full, Full
  <1>2. AnswerInv'
    BY <1>1, EndAnswers DEF MouseArgs
  <1>3. PICK b \in M!Decoded(M!MBytes) : M!Handled(b)
    BY DEF M!MouseReceived
  <1>4. ASSUME Whole' PROVE Stages'
    <2>1. /\ Whole /\ Stages /\ InOrder /\ MouseTypes
          /\ Len(queue) \in Nat /\ (Len(queue) = 0 => queue = <<>>)
      BY <1>1, <1>4 DEF Whole, MouseArgs, MouseInv, LinkInv, LinkTypeOK
    <2>2. /\ b = done /\ shifter = done /\ NoneAhead /\ Pending /\ Coming = Len(queue) + 1
          /\ Acknowledged <=> b = "FA"
      BY <1>1, <1>3, <2>1, ReceivedByte
    <2>3. ~Acknowledged' /\ ~Pending' /\ Coming' = Len(queue) /\ Taken' = resp_count'
      <3>1. ~Acknowledged' /\ ~Pending'
        BY <1>1, <2>2 DEF Acknowledged, NoneAhead, Pending, device
      <3>2. resp_count' \in Nat
        BY <1>1, <1>3, <2>1, HandledKeeps, SequenceAssumption DEF InOrder
      <3>3. Coming' = Len(queue')
        BY <1>1, <2>1, <3>1 DEF Coming, device
      <3>4. queue' = queue
        BY <1>1 DEF device
      <3>5. Taken' = resp_count'
        BY <3>1, <3>2, NoneTaken
      <3> QED
        BY <3>1, <3>3, <3>4, <3>5
    <2>4. MouseLoaded' /\ MouseAnswered' /\ BeforePackets'
      BY <1>1, <2>3 DEF MouseLoaded, MouseAnswered, BeforePackets
    <2>5. PacketSize' = PacketSize /\ (Rest(0)' <=> Rest(0)) /\ PacketSize \in {3, 4}
      BY <1>1 DEF PacketSize, Rest, device
    <2>6. CASE M!Current = None
      <3>1. /\ ~in_cmd /\ M!InitByte = None /\ M!Movement(b)
            /\ UNCHANGED <<initstep, mcmd, in_cmd, wheel_type>>
        BY <1>3, <2>1, <2>6 DEF M!Handled, M!Current, InOrder, M!Movement
      <3>2. M!InitByte' = None /\ ~in_cmd'
        BY <3>1 DEF M!InitByte
      <3>3. InitSilent' /\ Halfway'
        BY <3>2 DEF InitSilent, Halfway
      <3>4. InPackets'
        <4> SUFFICES ASSUME wheel_type = wheel PROVE InPackets'
          BY <1>1, <3>1 DEF InPackets
        <4>1. /\ resp_count < PacketSize /\ resp_count \in 0 .. 3 /\ Taken = resp_count + 1
              /\ mode # "gone" => IF Taken \in {0, PacketSize} THEN queue = <<>> \/ Rest(0)
                                  ELSE Rest(Taken)
          BY <2>1, <2>2, <2>6 DEF Stages, InPackets, Taken, MouseTypes
        <4>2. resp_count' = IF Taken = PacketSize THEN 0 ELSE Taken
          BY <3>1, <4>1 DEF M!Movement, PacketSize
        <4>3. Taken' = Taken => (Rest(Taken)' <=> Rest(Taken))
          BY <1>1, <2>5 DEF Rest, device
        <4>4. mode' # "gone" => IF Taken' \in {0, PacketSize'} THEN queue' = <<>> \/ Rest(0)'
                                ELSE Rest(Taken)'
          BY <1>1, <2>3, <2>5, <4>1, <4>2, <4>3 DEF device
        <4> QED
          BY <1>1, <2>5, <4>1, <4>2, <4>4 DEF InPackets
      <3> QED
        BY <2>4, <3>3, <3>4 DEF Stages
    <2>7. CASE M!Current # None
      <3>1. ASSUME Begun PROVE InitSilent' /\ Halfway' /\ InPackets'
        <4>1. M!InitByte' = "RESET"
          BY <2>1, <3>1, SequenceOrder DEF Begun
        <4> QED
          BY <3>1, <4>1 DEF Begun, InitSilent, Halfway, InPackets, M!Current
      <3>2. ASSUME Went, in_cmd, b = "FA", mcmd = "RES", resp_count = 1
            PROVE  InitSilent' /\ Halfway' /\ InPackets'
        <4>1. M!InitByte' = None /\ M!Current' = "RES"
          BY <2>1, <3>2 DEF Went, M!InitByte, InOrder, M!Current
        <4>2. changes = 0 => expects = "arg"
          BY <2>1, <2>2, <3>2 DEF Stages, MouseAnswered
        <4> QED
          BY <1>1, <4>1, <4>2 DEF InitSilent, Halfway, InPackets, device
      <3>3. ASSUME Went, ~in_cmd,
                   \/ M!InitByte = "RESET" /\ (resp_count = 1 => b = "FA")
                   \/ M!InitByte = "TYPE" /\ resp_count = 1 /\ b = "FA"
            PROVE  InitSilent' /\ Halfway' /\ InPackets'
        <4>1. /\ M!InitByte' = M!InitByte /\ ~in_cmd' /\ initstep' = initstep
              /\ resp_count' = resp_count + 1 /\ resp_count \in 0 .. 3
          BY <2>1, <3>3 DEF Went, M!InitByte, MouseTypes
        <4>2. resp_count = 1 => ~stream /\ Coming <= Places(M!InitByte)
          BY <2>1, <2>2, <3>3 DEF Stages, MouseAnswered
        <4>3. InitSilent'
          BY <1>1, <2>1, <2>2, <2>3, <3>3, <4>1, <4>2
          DEF Stages, InitSilent, Places
        <4> QED
          BY <3>3, <4>1, <4>3 DEF Halfway, InPackets, M!Current
      <3>4. ASSUME Finished \/ Halved, in_cmd, b = "FA"
            PROVE  InitSilent' /\ Halfway' /\ InPackets'
        <4>1. M!InitByte' = None /\ ~in_cmd' /\ resp_count' = 0
          BY <2>1, <3>4 DEF Finished, Halved, M!InitByte, InOrder
        <4>2. queue = <<>> \/ Rest(0)
          BY <2>1, <2>2, <3>4 DEF Stages, BeforePackets
        <4> QED
          BY <1>1, <2>3, <2>5, <4>1, <4>2 DEF InitSilent, Halfway, InPackets, device
      <3>5. ASSUME Finished, ~in_cmd,
                   \/ M!InitByte = "RESET" /\ resp_count = 3
                   \/ M!InitByte = "TYPE" /\ resp_count = 2
                   \/ M!InitByte \notin {"RESET", "TYPE"} /\ b = "FA"
            PROVE  InitSilent' /\ Halfway' /\ InPackets'
        <4>1. /\ initstep' = initstep + 1 /\ ~in_cmd' /\ resp_count' = 0 /\ M!InitByte # None
              /\ M!InitByte' = "arg" => M!InitByte \in {"RATE", "RES"}
              /\ M!InitByte = "ENABLE" => M!InitByte' = None
          BY <2>1, <2>7, <3>5, SequenceOrder DEF Finished, M!Current
        <4>2. M!InitByte # "ENABLE" => ~stream /\ Coming <= 1
          <5>1. M!InitByte = "TYPE" => initstep > 1
            BY <2>1, SequenceOrder
          <5>2. CASE M!InitByte \notin {"RESET", "TYPE"}
            BY <2>1, <2>2, <3>5, <5>2 DEF Stages, MouseAnswered, Places
          <5> QED
            BY <2>1, <3>5, <5>1, <5>2 DEF Stages, InitSilent
        <4>3. M!InitByte # "ENABLE" => Coming' = 0 /\ queue = <<>>
          BY <2>1, <2>2, <2>3, <4>2
        <4>4. M!InitByte \in {"RATE", "RES"} => expects = "arg"
          BY <2>1, <2>2, <3>5 DEF Stages, MouseAnswered
        <4>5. InitSilent'
          BY <1>1, <4>1, <4>2, <4>3, <4>4 DEF InitSilent, device
        <4>6. M!InitByte = "ENABLE" => queue = <<>> \/ Rest(0)
          BY <2>1, <2>2, <3>5 DEF Stages, BeforePackets
        <4>7. InPackets'
          BY <1>1, <2>3, <2>5, <4>1, <4>3, <4>6 DEF InPackets, device
        <4> QED
          BY <4>1, <4>5, <4>7 DEF Halfway
      <3> QED
        <4>0. \/ Begun
              \/ /\ Went
                 /\ in_cmd => b = "FA" /\ mcmd = "RES" /\ resp_count = 1
                 /\ ~in_cmd => \/ M!InitByte = "RESET" /\ (resp_count = 1 => b = "FA")
                               \/ M!InitByte = "TYPE" /\ resp_count = 1 /\ b = "FA"
              \/ /\ Finished
                 /\ in_cmd => b = "FA"
                 /\ ~in_cmd => \/ M!InitByte = "RESET" /\ resp_count = 3
                               \/ M!InitByte = "TYPE" /\ resp_count = 2
                               \/ M!InitByte \notin {"RESET", "TYPE"} /\ b = "FA"
              \/ Halved /\ b = "FA"
          BY <1>3, <2>1, <2>2, <2>7, HandledStage
        <4>1. InitSilent' /\ Halfway' /\ InPackets'
          BY <4>0, <3>1, <3>2, <3>3, <3>4, <3>5 DEF Halved
        <4> QED
          BY <2>4, <4>1 DEF Stages
    <2> QED
      BY <2>6, <2>7
  <1> QED
    BY <1>2, <1>4 DEF MouseArgs

LEMMA MouseCheckArgs ==
  ASSUME MouseInv, MouseArgs, M!MouseCheck
  PROVE  MouseArgs'
  <1>1. /\ pc = "check" /\ wait_state = None
        /\ UNCHANGED <<port, device, faults, M!mouse, M!user, changes>>
    BY DEF M!MouseCheck, M!port, M!device, port, device, M!user, M!None, None
  <1>2. CASE M!WaitStart \/ M!MouseNothing
    <2>1. pc' = "loop" /\ UNCHANGED <<done, M!stage, M!flags>>
      BY <1>2 DEF M!WaitStart, M!MouseNothing
    <2>2. AnswerInv'
      BY <1>1, <2>1, TurnAnswers DEF MouseArgs, link
    <2> QED
      BY <1>1, <2>1, <2>2, MouseRests DEF port, M!stage, M!flags
  <1>3. CASE M!MouseSent
    <2>1. pc' = "release" /\ dir = "send" /\ UNCHANGED <<done, M!stage, M!flags>>
      BY <1>3 DEF M!MouseSent
    <2>2. AnswerInv'
      BY <1>1, <2>1, EndAnswers DEF MouseArgs
    <2> QED
      BY <1>1, <2>1, <2>2, MouseRests DEF port, M!stage, M!flags
  <1>4. CASE M!MouseFailed
    <2>1. /\ pc' = "release" /\ TimedOut /\ done' = done
          /\ initstep' = 1 /\ resp_count' = 0 /\ ~in_cmd'
      BY <1>4 DEF M!MouseFailed, M!Reinit, M!TimedOut, TimedOut, M!Full, Full
    <2>2. AnswerInv'
      BY <1>1, <2>1, EndAnswers DEF MouseArgs
    <2>3. M!InitByte' = "RESET"
      BY <2>1, SequenceOrder DEF MouseInv
    <2>4. ASSUME Whole' PROVE ~Acknowledged'
      BY <1>1, <2>1, <2>4 DEF Whole, MouseArgs, AnswerInv, OneAnswer, TimedOut, Acknowledged, device
    <2>5. Whole' => Stages'
      BY <2>1, <2>3, <2>4
      DEF Stages, MouseLoaded, MouseAnswered, InitSilent, Halfway, BeforePackets, InPackets,
          M!Current, M!None, None
    <2> QED
      BY <2>2, <2>5 DEF MouseArgs
  <1>5. CASE M!MouseReceived
    BY <1>1, <1>5, MouseReceivedArgs
  <1> QED
    BY <1>2, <1>3, <1>4, <1>5 DEF M!MouseCheck

\* The mouse has taken a byte and answers it.
LEMMA MouseObeys ==
  ASSUME MouseInv, MouseArgs, Whole, mode = "recv", M!Obey(shifter),
         pc' = pc, dir' = dir, shifter' = shifter, count' = count, done' = done,
         UNCHANGED <<M!stage, M!flags, changes>>
  PROVE  Stages'
  <1> USE DEF None, M!None
  <1>1. /\ Stages /\ InOrder /\ MouseTypes /\ Given
        /\ dir = "send" /\ pc \notin {"release", "pins"} /\ done = None /\ ~Came
    BY DEF MouseArgs, MouseInv, LinkInv, InPhase, Quiet, Came
  <1>2. /\ UNCHANGED <<resp_count, mcmd, in_cmd, initstep>> /\ M!InitByte' = M!InitByte
        /\ resp_count \in {1, 3}
    BY <1>1 DEF M!stage, M!InitByte, InOrder
  <1>3. /\ in_cmd => shifter \in {None, "RES", "ENABLE", "arg"}
        /\ in_cmd /\ changes = 0 => shifter \in {None, IF resp_count = 1 THEN mcmd ELSE "arg"}
        /\ ~in_cmd => M!InitByte # None /\ resp_count = 1 /\ shifter \in {None, M!InitByte}
    BY <1>1 DEF Stages, MouseLoaded
  <1>4. PICK t \in {"id0", "id3"} :
              queue' = IF shifter = "RESET" THEN <<"FA", "AA", "id0">>
                       ELSE IF shifter = "TYPE" THEN <<"FA", t>>
                       ELSE IF shifter = None \/ (shifter = "arg" /\ expects = "cmd")
                       THEN <<"FE">>
                       ELSE <<"FA">>
    BY DEF M!Obey
  <1>5. /\ expects' = IF shifter \in {"RATE", "RES"} THEN "arg" ELSE "cmd"
        /\ stream' <=> ((stream \/ shifter = "ENABLE") /\ shifter # "RESET")
    BY DEF M!Obey
  <1>6. Acknowledged' => shifter # None
    <2>1. shifter = None => queue' = <<"FE">>
      BY <1>4
    <2> QED
      BY <1>1, <2>1 DEF Acknowledged
  <1>7. Coming' = Len(queue')
    <2>1. ~Pending'
      BY <1>1 DEF Pending, Came
    <2>2. Coming' = Len(queue') + (IF Pending' THEN 1 ELSE 0)
      BY DEF Coming
    <2>3. Len(queue') \in Nat
      BY <1>4
    <2> QED
      BY <2>1, <2>2, <2>3
  <1>8. MouseLoaded'
    BY <1>1, <1>2, <1>3 DEF MouseLoaded
  <1>9. MouseAnswered'
    <2> SUFFICES ASSUME Acknowledged' PROVE MouseAnswered'
      BY DEF MouseAnswered
    <2>1. CASE in_cmd
      BY <1>2, <1>3, <1>5, <1>6, <2>1 DEF MouseAnswered
    <2>2. CASE ~in_cmd
      <3>1. /\ M!InitByte # None /\ resp_count = 1 /\ shifter = M!InitByte
        BY <1>3, <1>6, <2>2
      <3>2. M!InitByte # "ENABLE" => ~stream'
        <4>1. M!InitByte # "RESET" => initstep > 1
          BY <1>1, <3>1, SequenceOrder
        <4> QED
          BY <1>1, <1>5, <3>1, <4>1 DEF Stages, InitSilent
      <3>3. Coming' <= Places(M!InitByte)'
        <4>1. Len(queue') = IF shifter = "RESET" THEN 3 ELSE IF shifter = "TYPE" THEN 2 ELSE 1
          BY <1>4
        <4> QED
          BY <1>2, <1>7, <3>1, <4>1 DEF Places
      <3> QED
        BY <1>2, <1>5, <2>2, <3>1, <3>2, <3>3 DEF MouseAnswered
    <2> QED
      BY <2>1, <2>2
  <1>10. InitSilent'
    <2> SUFFICES ASSUME M!InitByte # None PROVE InitSilent'
      BY <1>2 DEF InitSilent
    <2>1. ~in_cmd /\ resp_count = 1 /\ shifter \in {None, M!InitByte}
      BY <1>1, <1>3 DEF InOrder
    <2> QED
      BY <1>1, <1>2, <1>5, <2>1 DEF Stages, InitSilent
  <1>11. Halfway'
    BY <1>2 DEF Halfway
  <1>12. BeforePackets'
    <2> SUFFICES ASSUME Acknowledged', in_cmd \/ M!InitByte = "ENABLE" PROVE queue' = <<"FA">>
      BY <1>1, <1>2 DEF BeforePackets
    <2>1. shifter \in {"RES", "ENABLE", "arg"}
      BY <1>3, <1>6
    <2>2. queue' \in {<<"FE">>, <<"FA">>}
      BY <1>4, <2>1
    <2>3. queue' # <<"FE">>
      BY <1>1 DEF Acknowledged
    <2> QED
      BY <2>2, <2>3
  <1>13. InPackets'
    <2>1. M!Current' # None
      BY <1>1, <1>2, <1>3 DEF M!Current, InOrder
    <2> QED
      BY <2>1 DEF InPackets
  <1> QED
    BY <1>8, <1>9, <1>10, <1>11, <1>12, <1>13 DEF Stages

LEMMA MouseDeviceArgs ==
  ASSUME MouseInv, MouseArgs, M!MouseTake \/ M!Move \/ M!Hurry
  PROVE  MouseArgs'
  <1> USE DEF None, M!None
  <1>1. CASE M!MouseTake
    <2>1. /\ mode = "recv" /\ Edge
          /\ mode' = IF bits' = Bits THEN "idle" ELSE mode
          /\ bits' = Bits => M!Obey(shifter)
          /\ bits' # Bits => UNCHANGED <<mode, queue, expects, M!mouse>>
          /\ UNCHANGED <<pc, count, dir, shifter, done, faults, M!stage, M!flags, changes>>
      BY <1>1 DEF M!MouseTake, M!Edge, M!Short, Edge, Short, M!user
    <2>2. Whole => \A i \in 2 .. Len(queue') : queue'[i] # "FA"
      <3>1. CASE bits' # Bits
        BY <2>1, <3>1 DEF MouseArgs, AnswerInv, OneAnswer
      <3>2. CASE bits' = Bits
        <4>1. queue' \in {<<"FA", "AA", "id0">>, <<"FA", "id0">>, <<"FA", "id3">>,
                          <<"FE">>, <<"FA">>}
          BY <2>1, <3>2 DEF M!Obey
        <4> QED
          BY <4>1, AnswerBytes
      <3> QED
        BY <3>1, <3>2
    <2>3. AnswerInv'
      <3>1. CASE Whole
        BY <2>1, <2>2, <3>1, TakeAnswers DEF MouseInv, MouseArgs
      <3>2. CASE ~Whole
        BY <2>1, <3>2 DEF Whole, AnswerInv
      <3> QED
        BY <3>1, <3>2
    <2>4. ASSUME Whole' PROVE Stages'
      <3>1. Whole
        BY <2>1, <2>4 DEF Whole
      <3>2. CASE bits' = Bits
        BY <2>1, <3>1, <3>2, MouseObeys
      <3>3. CASE bits' # Bits
        <4>1. /\ UNCHANGED <<queue, expects, mode, done, pc, count, dir, shifter, changes>>
              /\ UNCHANGED <<initstep, resp_count, mcmd, in_cmd, wheel_type, stream, wheel>>
              /\ M!InitByte' = M!InitByte /\ M!Current' = M!Current
          BY <2>1, <3>3 DEF M!stage, M!flags, M!mouse, M!InitByte, M!Current
        <4>2. /\ Acknowledged' = Acknowledged /\ Coming' = Coming /\ Taken' = Taken
              /\ PacketSize' = PacketSize /\ (Rest(0)' <=> Rest(0))
              /\ Places(M!InitByte)' = Places(M!InitByte)
          BY <4>1 DEF Acknowledged, Coming, Taken, Pending, Came, PacketSize, Rest, Places
        <4>3. Rest(Taken)' <=> Rest(Taken)
          BY <4>1, <4>2 DEF Rest
        <4> QED
          BY <3>1, <4>1, <4>2, <4>3
          DEF MouseArgs, Stages, MouseLoaded, MouseAnswered, InitSilent, Halfway,
              BeforePackets, InPackets
      <3> QED
        BY <3>2, <3>3
    <2> QED
      BY <2>3, <2>4 DEF MouseArgs
  <1>2. CASE M!Move \/ M!Hurry
    <2>1. /\ mode # "gone" /\ queue = <<>> /\ stream
          /\ queue' = IF wheel THEN M!Packet ELSE SubSeq(M!Packet, 1, 3)
          /\ UNCHANGED <<port, pc, mode, expects, done, faults, M!mouse, changes>>
          /\ UNCHANGED <<M!stage, M!flags>>
      BY <1>2 DEF M!Move, M!Hurry, M!Moved, M!port, port
    <2>2. /\ queue' \in Seq(M!MBytes) /\ queue' # <<>>
          /\ \A i \in 1 .. Len(queue') : queue'[i] # "FA"
      BY <2>1, PacketBytes
    <2>3. Len(queue') \in Nat /\ 1 <= Len(queue') /\ Head(queue') = queue'[1]
      BY <2>2
    <2>4. Head(queue') # "FA" /\ \A i \in 2 .. Len(queue') : queue'[i] # "FA"
      BY <2>2, <2>3
    <2>5. AnswerInv'
      BY <2>1, <2>4, QueueAnswers DEF MouseArgs, NoneAhead
    <2>6. ASSUME Whole' PROVE Stages'
      <3>1. /\ Whole /\ Stages /\ InOrder /\ MouseTypes
            /\ UNCHANGED <<expects, mode, done, pc, count, dir, shifter, changes>>
            /\ UNCHANGED <<initstep, resp_count, mcmd, in_cmd, wheel_type, stream, wheel>>
            /\ M!InitByte' = M!InitByte /\ M!Current' = M!Current
        BY <2>1, <2>6
        DEF Whole, MouseArgs, MouseInv, port, M!stage, M!flags, M!mouse, M!InitByte, M!Current
      <3>2. /\ Acknowledged' <=> done = "FA"
            /\ Acknowledged <=> done = "FA"
        BY <2>1, <2>4, <3>1 DEF Acknowledged
      <3>3. Rest(0)'
        <4>1. /\ Len(M!Packet) = 4 /\ M!Packet \in Seq(M!MBytes)
              /\ \A i \in 1 .. 3 : M!Packet[i] \in M!MBytes
          BY DEF M!Packet, M!MBytes
        <4>2. CASE wheel
          BY <2>1, <3>1, <4>1, <4>2 DEF Rest, PacketSize
        <4>3. CASE ~wheel
          <5>1. /\ Len(queue') = 3
                /\ \A i \in 1 .. 3 - 1 + 1 : queue'[i] = M!Packet[1 + i - 1]
            BY <2>1, <4>1, <4>3, SubSeqProperties
          <5> QED
            BY <3>1, <4>3, <5>1 DEF Rest, PacketSize
        <4> QED
          BY <4>2, <4>3
      <3>4. MouseLoaded' /\ Halfway'
        BY <3>1 DEF Stages, MouseLoaded, Halfway
      <3>5. MouseAnswered'
        BY <2>1, <3>1, <3>2 DEF Stages, MouseAnswered
      <3>6. InitSilent'
        <4>1. M!InitByte = "TYPE" => initstep > 1
          BY <3>1, SequenceOrder
        <4> QED
          BY <2>1, <3>1, <4>1 DEF Stages, InitSilent
      <3>7. BeforePackets'
        BY <3>1, <3>2, <3>3 DEF BeforePackets
      <3>8. InPackets'
        <4> SUFFICES ASSUME M!Current = None, wheel_type = wheel PROVE InPackets'
          BY <3>1 DEF InPackets
        <4>1. PacketSize' = PacketSize /\ Taken' = Taken /\ PacketSize \in {3, 4}
          BY <3>1 DEF PacketSize, Taken, Pending, Came
        <4>2. Taken \in {0, PacketSize}
          <5>1. ~(Taken \in {0, PacketSize}) => Rest(Taken)
            BY <2>1, <3>1 DEF Stages, InPackets
          <5>2. Rest(Taken) => Taken = PacketSize
            <6>1. Taken \in Nat
              BY <3>1 DEF Taken, MouseTypes
            <6> QED
              BY <2>1, <4>1, <6>1 DEF Rest
          <5> QED
            BY <5>1, <5>2
        <4> QED
          BY <3>1, <3>3, <4>1, <4>2 DEF Stages, InPackets
      <3> QED
        BY <3>4, <3>5, <3>6, <3>7, <3>8 DEF Stages
    <2> QED
      BY <2>5, <2>6 DEF MouseArgs
  <1> QED
    BY <1>1, <1>2

LEMMA MouseStepArgs ==
  ASSUME MouseInv, MouseArgs, M!Next
  PROVE  MouseArgs'
  <1>1. CASE M!Turn \/ M!WaitOn \/ M!Delayed \/ M!SetResolution
    BY <1>1, MouseTaskArgs
  <1>2. CASE M!WaitOver \/ M!MouseCheck
    BY <1>2, MouseSendsArgs, MouseCheckArgs
  <1>3. CASE M!MouseTake \/ M!Move \/ M!Hurry
    BY <1>3, MouseDeviceArgs
  <1>4. CASE (M!Pull \/ M!Release1 \/ M!Release2) /\ UNCHANGED M!own
    <2>1. Release1 \/ Release2 \/ Pull
      BY <1>4 DEF M!Release1, M!Release2, M!Pull, Release1, Release2, Pull, M!device, device,
                  M!Full, Full
    <2>2. UNCHANGED mown
      BY <1>4 DEF M!own, M!stage, M!flags, M!mouse, M!user, mown
    <2> QED
      BY <2>1, <2>2, MouseLineArgs DEF Line
  <1>5. CASE /\ M!DevRequest \/ (M!DevStart /\ pc # "pull") \/ M!DevSend \/ M!DevAbort
             /\ UNCHANGED M!own
    <2>1. DevRequest \/ DevStart \/ DevSend \/ DevAbort
      BY <1>5
      DEF M!DevRequest, M!DevStart, M!DevSend, M!DevAbort, M!Edge, M!Short, M!port, DevRequest,
          DevStart, DevSend, DevAbort, Edge, Short, port
    <2>2. UNCHANGED mown
      BY <1>5 DEF M!own, M!stage, M!flags, M!mouse, M!user, mown
    <2> QED
      BY <2>1, <2>2, MouseLineArgs DEF Line
  <1> QED
    BY <1>1, <1>2, <1>3, <1>4, <1>5 DEF M!Next, M!Task, M!DevStep

-----------------------------------------------------------------------------
(* The theorems about arguments and packets                                *)

\* The mouse's task of a keyboard's port has not begun.
ArgsInv ==
  /\ which = "keyboard" => KeyboardArgs /\ initstep = 1 /\ ~in_cmd
  /\ which = "mouse" => MouseArgs

LEMMA ArgsStart == Init => ArgsInv
  <1> SUFFICES ASSUME Init PROVE ArgsInv
    OBVIOUS
  <1> USE DEF None, K!None, M!None
  <1>1. LinkInit /\ K!Init /\ M!Init
    BY DEF Init
  <1>2. AnswerInv /\ ~Acknowledged
    BY <1>1 DEF LinkInit, AnswerInv, OneAnswer, Argument, Untaken, Came, NoneAhead, Acknowledged
  <1>3. KeyboardArgs
    BY <1>1, <1>2
    DEF LinkInit, K!Init, KeyboardArgs, StageLoaded, StageAnswered, K!TwoByte
  <1>4. M!InitByte = "RESET"
    BY <1>1, SequenceAssumption, OrderAssumption DEF M!Init, M!InitByte
  <1>5. Stages
    BY <1>1, <1>2, <1>4
    DEF LinkInit, M!Init, Stages, MouseLoaded, MouseAnswered, InitSilent, Halfway, BeforePackets,
        InPackets, M!Current
  <1> QED
    BY <1>1, <1>2, <1>3, <1>5 DEF ArgsInv, MouseArgs, M!Init

LEMMA ArgsSteps == IInv /\ ArgsInv /\ [Next]_vars => ArgsInv'
  <1> SUFFICES ASSUME IInv, ArgsInv, [Next]_vars PROVE ArgsInv'
    OBVIOUS
  <1>1. CASE UNCHANGED vars
    <2>1. UNCHANGED <<which, link, pc, kown, mown>>
      BY <1>1 DEF vars
    <2> USE <2>1 DEF kown, mown, link, port, device
    <2>2. AnswerInv' <=> AnswerInv
      BY DEF AnswerInv, Whole, OneAnswer, Argument, Untaken, Came, NoneAhead, Acknowledged
    <2>3. KeyboardArgs' <=> KeyboardArgs
      BY <2>2 DEF KeyboardArgs, Whole, StageLoaded, StageAnswered, Acknowledged, K!AwaitsFA
    <2>4. Stages' <=> Stages
      BY DEF Stages, MouseLoaded, MouseAnswered, InitSilent, Halfway, BeforePackets, InPackets,
             Acknowledged, Coming, Pending, Came, Taken, PacketSize, Rest, Places, M!InitByte,
             M!Current
    <2> QED
      BY <2>2, <2>3, <2>4 DEF ArgsInv, MouseArgs, Whole
  <1>2. CASE OfLink(Int4) \/ OfLink(Tick) \/ (MayFail /\ OfLink(Fault))
    <2>1. Line /\ UNCHANGED <<which, kown, mown>>
      BY <1>2 DEF OfLink, Line
    <2> QED
      BY <2>1, KeyboardLineArgs, MouseLineArgs DEF IInv, ArgsInv, mown
  <1>3. CASE OfKeyboard(K!Next)
    BY <1>3, KeyboardStepArgs DEF OfKeyboard, IInv, ArgsInv, mown
  <1>4. CASE OfMouse(M!Next)
    BY <1>4, MouseStepArgs DEF OfMouse, IInv, ArgsInv
  <1> QED
    BY <1>1, <1>2, <1>3, <1>4 DEF Next

\* ArgumentExpected of Ps2Port: the devices take an argument for what it is
\* (ps2.c, ps2keyboard_task and ps2mouse_task), though answers, faults, keys and
\* movements come at any moment.  An acknowledge is always that of the stage
\* which awaits one.
THEOREM ArgumentsAreExpected == Spec => ArgumentExpected
  <1>1. Init => IInv /\ ArgsInv
    BY Starts, ArgsStart
  <1>2. (IInv /\ ArgsInv) /\ [Next]_vars => (IInv /\ ArgsInv)'
    BY Steps, ArgsSteps
  <1>3. ASSUME IInv, ArgsInv, mode = "recv", shifter = "arg", "missed" \notin faults, changes = 0
        PROVE  expects = "arg"
    <2>1. AnswerInv /\ Empty /\ InPhase
      BY <1>3
      DEF IInv, ArgsInv, KeyboardArgs, MouseArgs, KeyboardInv, MouseInv, LinkInv, Whole
    <2>2. Untaken
      BY <1>3, <2>1 DEF InPhase, Quiet, Empty, Untaken
    <2> QED
      BY <1>3, <2>1, <2>2 DEF AnswerInv, Argument, Whole
  <1>4. IInv /\ ArgsInv /\ [Next]_vars =>
          [mode = "recv" /\ mode' = "idle" /\ bits' = Bits /\ shifter = "arg"
           /\ "missed" \notin faults /\ changes = 0 => expects = "arg"]_vars
    BY <1>3
  <1> QED
    BY <1>1, <1>2, <1>4, PTL DEF Spec, ArgumentExpected

\* InStep of Ps2Port: the mouse's task (ps2.c, ps2mouse_task) takes the buttons
\* from the first byte of a packet, X from the second and Y from the third.  What
\* follows resp_count bytes is always the rest of the packet.
THEOREM PacketsAreInStep == Spec => InStep
  <1>1. Init => IInv /\ ArgsInv
    BY Starts, ArgsStart
  <1>2. (IInv /\ ArgsInv) /\ [Next]_vars => (IInv /\ ArgsInv)'
    BY Steps, ArgsSteps
  <1>3. ASSUME IInv, ArgsInv, M!MouseCheck, M!MouseReceived, M!Current = M!None,
               "missed" \notin faults, wheel_type = wheel, shifter # M!None
        PROVE  shifter = M!Packet[resp_count + 1]
    <2>1. which = "mouse"
      <3>1. initstep = 1 => M!InitByte = "RESET"
        BY SequenceAssumption, OrderAssumption DEF M!InitByte
      <3> QED
        BY <1>3, <3>1 DEF IInv, ArgsInv, M!Current, M!None
    <2>2. MouseInv /\ MouseArgs /\ Whole /\ Stages
      BY <1>3, <2>1 DEF IInv, ArgsInv, MouseArgs, Whole
    <2>3. pc = "check" /\ count = 0 /\ dir = "recv" /\ ~TimedOut
      BY <1>3 DEF M!MouseCheck, M!MouseReceived, M!TimedOut, TimedOut, M!Full, Full
    <2>4. PICK b \in M!Decoded(M!MBytes) : M!Handled(b)
      BY <1>3 DEF M!MouseReceived
    <2>5. shifter = done
      BY <2>2, <2>3, <2>4, ReceivedByte
    <2> QED
      BY <1>3, <2>2, <2>5 DEF Stages, InPackets, M!None, None
  <1>4. IInv /\ ArgsInv /\ [Next]_vars =>
          [M!MouseCheck /\ M!MouseReceived /\ M!Current = M!None /\ "missed" \notin faults
           /\ wheel_type = wheel /\ shifter # M!None
             => shifter = M!Packet[resp_count + 1]]_(M!mvars)
    BY <1>3
  <1> QED
    BY <1>1, <1>2, <1>4, PTL DEF Spec, InStep, M!InStep

=============================================================================
