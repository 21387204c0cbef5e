----------------------------- MODULE Ps2Mouse -----------------------------
(***************************************************************************)
(* The mouse's port: ps2mouse_task() of ps2.c, which initialises the       *)
(* mouse, sets its resolution, takes its packets byte by byte, and begins  *)
(* again after an error.  One counter, resp_count, tells it the place in   *)
(* an answer as well as in a packet.                                       *)
(*                                                                         *)
(* The other half is the mouse and its user, who moves it at any moment    *)
(* MaxHaste times, and otherwise lets each movement pass before the next.  *)
(***************************************************************************)
EXTENDS Ps2Link

CONSTANTS
  InitSequence,  \* ps2mouse_init_sequence, one of each kind of command
  MaxHaste,      \* movements at any moment in a run
  MaxChanges     \* changes of the resolution in a run

VARIABLES
  initstep,      \* ps2mouse_initstep
  resp_count,    \* ps2mouse_resp_count
  mcmd,          \* ps2mouse_cmd
  in_cmd,        \* FLAG_EX_PS2MOUSE_CMD
  reinit_delay,  \* ps2mouse_reinit_delay # 0
  wait_state,    \* ps2mouse_wait_state
  wheel_type,    \* FLAG_PS2MOUSE_TYPE
  both,          \* zx_mouse_button: left and right are pressed
  present,       \* zx_mouse_x and _y are not those of an absent mouse
  stream,        \* mouse: it sends packets
  wheel,         \* mouse: of four bytes
  haste, changes \* movements and changes so far

stage  == <<initstep, resp_count, mcmd, in_cmd>>
flags  == <<wheel_type, both, present>>
mouse  == <<stream, wheel>>
user   == <<haste, changes>>
own    == <<stage, reinit_delay, wait_state, flags, mouse, user>>
mvars  == <<link, pc, own>>

Packet == <<"m1", "m2", "m3", "m4">>
MBytes == {"RESET", "RATE", "TYPE", "SCALE", "ENABLE", "RES", "arg",
           "FA", "FE", "AA", "id0", "id3", "m1", "m2", "m3", "m4"}

-----------------------------------------------------------------------------
(* ps2mouse_task(): what it sends                                          *)

InitByte == IF initstep <= Len(InitSequence) THEN InitSequence[initstep] ELSE None

Ready == InitByte = None /\ mcmd = None /\ ~in_cmd

\* What the task has to send next.
ToSend ==
  IF InitByte # None THEN IF resp_count = 0 THEN "INIT" ELSE None
  ELSE IF mcmd # None /\ resp_count = 0 THEN "CMD"
  ELSE IF mcmd = "RES" /\ in_cmd /\ resp_count = 2 THEN "RES"
  ELSE None

\* The main loop has come to the task.
Turn ==
  /\ pc = "loop"
  /\ pc' = "check"
  /\ UNCHANGED <<link, own>>

\* 500 ms have been counted by overflows of timer 1: a packet that began
\* before has ended.
Delayed ==
  /\ pc = "loop" /\ reinit_delay
  /\ queue = <<>> \/ mode = "gone"
  /\ reinit_delay' = FALSE
  /\ UNCHANGED <<link, pc, stage, wait_state, flags, mouse, user>>

\* 200 us have not passed yet.
WaitOn ==
  /\ pc = "check" /\ wait_state # None
  /\ pc' = "loop"
  /\ UNCHANGED <<link, own>>

\* They have: the byte goes out, whatever has come in meanwhile.
WaitOver ==
  /\ pc = "check" /\ wait_state # None
  /\ Load(IF wait_state = "INIT" THEN InitByte ELSE IF wait_state = "CMD" THEN mcmd ELSE "arg")
  /\ in_cmd' = (in_cmd \/ wait_state = "CMD")
  /\ resp_count' = resp_count + 1
  /\ wait_state' = None
  /\ done' = None
  /\ pc' = "pull"
  /\ UNCHANGED <<count, timeout, hold, drive, edge, device, faults>>
  /\ UNCHANGED <<initstep, mcmd, reinit_delay, flags, mouse, user>>

-----------------------------------------------------------------------------
(* ps2mouse_task(): what it receives                                       *)

\* Mutant: the count of the answer is kept.
ReinitKeepsCount ==
  /\ initstep' = 1 /\ UNCHANGED resp_count /\ mcmd' = "RES" /\ in_cmd' = FALSE
  /\ reinit_delay' = TRUE /\ wait_state' = None
  /\ wheel_type' = FALSE /\ both' = FALSE /\ present' = FALSE

\* ps2mouse_schedule_reinit(), which releases CLK too.
Reinit ==
  /\ initstep' = 1 /\ resp_count' = 0 /\ mcmd' = "RES" /\ in_cmd' = FALSE
  /\ reinit_delay' = TRUE /\ wait_state' = None
  /\ wheel_type' = FALSE /\ both' = FALSE /\ present' = FALSE

Kept == UNCHANGED <<reinit_delay, wait_state>>

\* The next byte of an answer is to come.
Advance ==
  /\ resp_count' = resp_count + 1
  /\ Kept /\ UNCHANGED <<initstep, mcmd, in_cmd, wheel_type, both, present>>

\* Mutant: the Z80 is shown the mouse without a test.
FinishUntested ==
  /\ resp_count' = 0
  /\ IF in_cmd
     THEN mcmd' = None /\ in_cmd' = FALSE /\ UNCHANGED initstep
     ELSE initstep' = initstep + 1 /\ UNCHANGED <<mcmd, in_cmd>>
  /\ present' = TRUE /\ both' = FALSE
  /\ Kept

\* The answer is complete; ps2mouse_enable_if_ready().
Finish ==
  /\ resp_count' = 0
  /\ IF in_cmd
     THEN mcmd' = None /\ in_cmd' = FALSE /\ UNCHANGED initstep
     ELSE initstep' = initstep + 1 /\ UNCHANGED <<mcmd, in_cmd>>
  /\ present' = (present \/ Ready')
  /\ both' = (both /\ ~Ready')
  /\ Kept

Current == IF in_cmd THEN mcmd ELSE InitByte

\* Mutant: the wheel's byte is forgotten.
MovementOfThree(b) ==
  /\ resp_count' = IF resp_count = 2 THEN 0 ELSE resp_count + 1
  /\ both' \in IF resp_count = 0 THEN BOOLEAN ELSE {both}
  /\ Kept /\ UNCHANGED <<initstep, mcmd, in_cmd, wheel_type, present>>

\* A byte of a packet: buttons, X, Y and, of a mouse with one, the wheel.
Movement(b) ==
  /\ resp_count' = IF resp_count = 3 \/ (resp_count = 2 /\ ~wheel_type)
                   THEN 0 ELSE resp_count + 1
  /\ both' \in IF resp_count = 0 THEN BOOLEAN ELSE {both}
  /\ Kept /\ UNCHANGED <<initstep, mcmd, in_cmd, wheel_type, present>>

OfReset(b) ==
  IF resp_count = 1 /\ b # "FA" THEN Reinit
  ELSE IF resp_count >= 3 THEN Finish /\ UNCHANGED wheel_type
  ELSE Advance

OfType(b) ==
  IF resp_count = 1 THEN IF b = "FA" THEN Advance ELSE Reinit
  ELSE Finish /\ wheel_type' = (b \notin {None, "id0"})

\* Some mice need an ENABLE after the resolution.
OfResolution(b) ==
  IF b # "FA" THEN Reinit
  ELSE IF ~in_cmd THEN Finish /\ UNCHANGED wheel_type
  ELSE IF resp_count < 3 THEN Advance
  ELSE /\ resp_count' = 0 /\ in_cmd' = FALSE /\ mcmd' = "ENABLE"
       /\ Kept /\ UNCHANGED <<initstep, flags>>

OfOther(b) ==
  IF b # "FA" /\ (in_cmd \/ resp_count = 1)
  THEN Reinit ELSE Finish /\ UNCHANGED wheel_type

Handled(b) ==
  IF Current = None THEN Movement(b)
  ELSE IF Current = "RESET" THEN OfReset(b)
  ELSE IF Current = "TYPE" THEN OfType(b)
  ELSE IF Current = "RES" THEN OfResolution(b)
  ELSE OfOther(b)

-----------------------------------------------------------------------------
(* ps2mouse_task(): its branches                                           *)

MayStart == count = Full /\ ~reinit_delay /\ ToSend # None

\* 200 us of silence begin.
WaitStart ==
  /\ MayStart
  /\ wait_state' = ToSend
  /\ pc' = "loop"
  /\ UNCHANGED <<done, stage, reinit_delay, flags>>

MouseFailed ==
  /\ ~MayStart /\ TimedOut
  /\ Reinit
  /\ pc' = "release"
  /\ UNCHANGED done

MouseNothing ==
  /\ ~MayStart /\ ~TimedOut /\ count # 0
  /\ pc' = "loop"
  /\ UNCHANGED <<done, stage, reinit_delay, wait_state, flags>>

MouseSent ==
  /\ count = 0 /\ ~TimedOut /\ dir = "send"
  /\ pc' = "release"
  /\ UNCHANGED <<done, stage, reinit_delay, wait_state, flags>>

\* A byte that starts a new initialisation releases CLK twice within the time
\* that the mouse keeps silent, which is the same as once.
MouseReceived ==
  /\ count = 0 /\ ~TimedOut /\ dir = "recv"
  /\ \E b \in Decoded(MBytes) : Handled(b)
  /\ done' = None
  /\ pc' = "release"

MouseCheck ==
  /\ pc = "check" /\ wait_state = None
  /\ WaitStart \/ MouseFailed \/ MouseNothing \/ MouseSent \/ MouseReceived
  /\ UNCHANGED <<port, device, faults, mouse, user>>

\* ps2mouse_set_resolution(), from the keyboard's task.
SetResolution ==
  /\ pc = "loop"
  /\ changes < MaxChanges
  /\ both
  /\ mcmd' = "RES"
  /\ changes' = changes + 1
  /\ UNCHANGED <<link, pc, initstep, resp_count, in_cmd, reinit_delay, wait_state,
                 flags, mouse, haste>>

-----------------------------------------------------------------------------
(* The mouse and its user                                                  *)

\* A byte makes it forget what it was about to send.
Obey(b) ==
  /\ expects' = IF b \in {"RATE", "RES"} THEN "arg" ELSE "cmd"
  /\ stream' = ((stream \/ b = "ENABLE") /\ b # "RESET")
  /\ \E t \in {"id0", "id3"} :
       /\ queue' = IF b = "RESET" THEN <<"FA", "AA", "id0">>
                   ELSE IF b = "TYPE" THEN <<"FA", t>>
                   ELSE IF b = None \/ (b = "arg" /\ expects = "cmd") THEN <<"FE">>
                   ELSE <<"FA">>
       /\ wheel' = IF b = "TYPE" THEN t = "id3" ELSE wheel /\ b # "RESET"

MouseTake ==
  /\ mode = "recv"
  /\ Edge
  /\ IF bits' = Bits THEN mode' = "idle" /\ Obey(shifter)
                     ELSE UNCHANGED <<mode, queue, expects, mouse>>
  /\ UNCHANGED <<done, faults, stage, reinit_delay, wait_state, flags, user>>

\* Nothing is under way, nor about to be.
AtRest ==
  /\ pc = "loop" /\ mode = "idle" /\ ~edge /\ ~hold /\ count = Full
  /\ ~reinit_delay /\ wait_state = None /\ ToSend = None

Moved ==
  /\ mode # "gone" /\ stream /\ expects = "cmd"
  /\ queue = <<>>
  /\ queue' = IF wheel THEN Packet ELSE SubSeq(Packet, 1, 3)
  /\ UNCHANGED <<port, pc, mode, bits, byte, expects, done, faults>>
  /\ UNCHANGED <<stage, reinit_delay, wait_state, flags, mouse, changes>>

Move == AtRest /\ Moved /\ UNCHANGED haste

Hurry == haste < MaxHaste /\ Moved /\ haste' = haste + 1

-----------------------------------------------------------------------------
\* ps2mouse_init().  The mouse may be what an earlier start of the AVR has left.
Init ==
  /\ initstep = 1 /\ resp_count = 0 /\ mcmd = "RES" /\ in_cmd = FALSE
  /\ reinit_delay = FALSE /\ wait_state = None
  /\ wheel_type = FALSE /\ both = FALSE /\ present = FALSE
  /\ stream \in BOOLEAN /\ wheel \in BOOLEAN /\ (wheel => stream)
  /\ haste = 0 /\ changes = 0

Task ==
  \/ Turn \/ WaitOn \/ WaitOver \/ MouseCheck
  \/ (Pull \/ Release1 \/ Release2) /\ UNCHANGED own

\* No frame begins in the moment between the direction and the pull of CLK.
DevStep ==
  \/ MouseTake
  \/ ((DevRequest \/ (DevStart /\ pc # "pull") \/ DevSend \/ DevAbort) /\ UNCHANGED own)

Next ==
  \/ Task \/ Delayed \/ SetResolution
  \/ DevStep
  \/ Move \/ Hurry

-----------------------------------------------------------------------------
(* Properties                                                              *)

\* Each variable has its type.
TypeOK ==
  /\ LinkTypeOK(MBytes)
  /\ initstep \in 1 .. Len(InitSequence) + 1 /\ resp_count \in 0 .. 4
  /\ mcmd \in {None, "RES", "ENABLE"} /\ wait_state \in {None, "INIT", "CMD", "RES"}
  /\ in_cmd \in BOOLEAN /\ reinit_delay \in BOOLEAN /\ wheel_type \in BOOLEAN
  /\ both \in BOOLEAN /\ present \in BOOLEAN /\ stream \in BOOLEAN /\ wheel \in BOOLEAN
  /\ haste \in 0 .. MaxHaste /\ changes \in 0 .. MaxChanges

\* The Z80 is shown a mouse only when there is one that sends its movements.
PresentStreams == present /\ "missed" \notin faults => stream

Inv == TypeOK /\ ByteKept /\ PresentStreams

\* The packets are taken in step: the buttons from the first byte, X from the
\* second, Y from the third, at whatever moment the mouse is moved and the
\* resolution changed.  The type must have been read right, and no bit missed.
InStep ==
  [][MouseCheck /\ MouseReceived /\ Current = None /\ "missed" \notin faults
     /\ wheel_type = wheel /\ shifter # None
       => shifter = Packet[resp_count + 1]]_mvars

\* One byte has been counted before the first reset is sent.  The next byte
\* begins the initialisation again and the one after it is counted, so that
\* packets of four bytes end where they began.
Trapped == initstep = 1 /\ resp_count = 1 /\ dir = "recv" /\ stream /\ wheel

\* Without faults the mouse gets ready, and does so again after every movement
\* or change of resolution that came at a bad moment, unless a mouse with a
\* wheel traps the task.
MouseReady == []<>(Ready \/ faults # {} \/ Trapped)

=============================================================================
