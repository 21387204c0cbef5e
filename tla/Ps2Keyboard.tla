---------------------------- MODULE Ps2Keyboard ----------------------------
(***************************************************************************)
(* The keyboard's port: ps2keyboard_task() of ps2.c and its commands to    *)
(* the keyboard, which is told its LEDs and its repeat rate byte by byte,  *)
(* acknowledges each with FA, and sends scan codes in between.  An error   *)
(* resets the keyboard.                                                    *)
(***************************************************************************)
EXTENDS Ps2Link

CONSTANTS
  MaxKeys      \* scan codes the keyboard sends in a run

VARIABLES
  cmd,         \* ps2keyboard_cmd
  cmd_count,   \* ps2keyboard_cmd_count: stages to come
  keys         \* scan codes pressed so far

command == <<cmd, cmd_count>>

Commands == {"RESET", "SETLED", "AUTOREPEAT"}
TwoByte  == {"SETLED", "AUTOREPEAT"}
Bytes    == Commands \cup {"arg", "FA", "FE", "AA", "key"}

-----------------------------------------------------------------------------
(* ps2keyboard_send_cmd(), from the main loop                              *)

SendCmd(c) ==
  /\ pc = "loop"
  /\ cmd = None
  /\ cmd' = c
  /\ cmd_count' = IF c = "RESET" THEN 3 ELSE 4
  /\ UNCHANGED <<link, pc, keys>>

-----------------------------------------------------------------------------
(* ps2keyboard_task()                                                      *)

\* The first test; _delay_us(100) follows, with interrupts.
Begin ==
  /\ pc = "loop"
  /\ pc' = IF count = Full /\ cmd_count # 0 THEN "pause" ELSE "check"
  /\ UNCHANGED <<link, command, keys>>

\* The byte of the command's stage, if it is one that sends.
StageByte ==
  IF (cmd \in TwoByte /\ cmd_count = 4) \/ (cmd = "RESET" /\ cmd_count = 3) THEN cmd
  ELSE IF cmd \in TwoByte /\ cmd_count = 2 THEN "arg"
  ELSE None

Command ==
  /\ pc = "pause"
  /\ IF StageByte # None
     THEN Load(StageByte) /\ cmd_count' = cmd_count - 1 /\ pc' = "pull"
     ELSE pc' = "check" /\ UNCHANGED <<shifter, dir, cmd_count>>
  /\ UNCHANGED <<count, timeout, hold, drive, edge, device, done, faults, cmd, keys>>

\* The stages that wait for an acknowledge.
AwaitsFA ==
  \/ cmd \in TwoByte /\ cmd_count \in {1, 3}
  \/ cmd = "RESET" /\ cmd_count = 2

\* Mutant: the stage goes on whatever the keyboard answers.
AnsweredAny(b) ==
  /\ cmd_count' = IF AwaitsFA THEN cmd_count - 1 ELSE IF cmd_count = 1 THEN 0 ELSE cmd_count
  /\ cmd' = IF cmd_count' = 0 THEN None ELSE cmd

\* Mutant: the end of a reset waits for AA.
AnsweredStrict(b) ==
  /\ cmd_count' = IF AwaitsFA THEN IF b = "FA" THEN cmd_count - 1 ELSE 0
                  ELSE IF cmd = "RESET" /\ cmd_count = 1 /\ b = "AA" THEN 0
                  ELSE cmd_count
  /\ cmd' = IF cmd_count' = 0 THEN None ELSE cmd

\* What a received byte does to the command: FA goes on, anything else ends
\* it; AA or anything else ends a reset.  ps2keyboard_parse() has the other
\* bytes, which ZxKeys follows from there.
Answered(b) ==
  /\ cmd_count' = IF AwaitsFA THEN IF b = "FA" THEN cmd_count - 1 ELSE 0
                  ELSE IF cmd = "RESET" /\ cmd_count = 1 THEN 0
                  ELSE cmd_count
  /\ cmd' = IF cmd_count' = 0 THEN None ELSE cmd

\* The rest of the task: an error, nothing yet, a command's byte sent, or a
\* byte received.
Failed ==
  /\ TimedOut
  /\ cmd' = IF cmd = "RESET" THEN None ELSE "RESET"
  /\ cmd_count' = IF cmd = "RESET" THEN 0 ELSE 3
  /\ pc' = "release"
  /\ UNCHANGED done

Nothing ==
  /\ ~TimedOut /\ count # 0
  /\ pc' = "loop"
  /\ UNCHANGED <<command, done>>

Sent ==
  /\ count = 0 /\ ~TimedOut /\ dir = "send"
  /\ pc' = "release"
  /\ UNCHANGED <<command, done>>

Received ==
  /\ count = 0 /\ ~TimedOut /\ dir = "recv"
  /\ \E b \in Decoded(Bytes) : Answered(b)
  /\ done' = None
  /\ pc' = "release"

Check ==
  /\ pc = "check"
  /\ Failed \/ Nothing \/ Sent \/ Received
  /\ UNCHANGED <<port, device, faults, keys>>

Release == (Release1 \/ Release2) /\ UNCHANGED <<command, keys>>

-----------------------------------------------------------------------------
(* The keyboard                                                            *)

\* A byte makes it forget what it was about to send; it asks for a damaged
\* one again.
Answer(b) ==
  /\ queue' = IF b = "RESET" THEN <<"FA", "AA">> ELSE IF b = None THEN <<"FE">> ELSE <<"FA">>
  /\ expects' = IF b \in TwoByte THEN "arg" ELSE "cmd"

KbdTake ==
  /\ mode = "recv"
  /\ Edge
  /\ IF bits' = Bits THEN mode' = "idle" /\ Answer(shifter)
                     ELSE UNCHANGED <<mode, queue, expects>>
  /\ UNCHANGED <<done, faults, command, keys>>

\* A key is pressed; while it waits for an argument it does not scan.
Press ==
  /\ mode # "gone" /\ expects = "cmd"
  /\ keys < MaxKeys
  /\ keys' = keys + 1
  /\ queue' = Append(queue, "key")
  /\ UNCHANGED <<port, pc, mode, bits, byte, expects, done, faults, command>>

-----------------------------------------------------------------------------
Init == cmd = None /\ cmd_count = 0 /\ keys = 0

Task == Begin \/ Command \/ Check \/ Release \/ (Pull /\ UNCHANGED <<command, keys>>)

DevStep ==
  \/ KbdTake
  \/ ((DevRequest \/ DevStart \/ DevSend \/ DevAbort) /\ UNCHANGED <<command, keys>>)

Next ==
  \/ (\E c \in TwoByte : SendCmd(c))
  \/ Task
  \/ DevStep
  \/ Press

-----------------------------------------------------------------------------
(* Properties                                                              *)

\* Each variable has its type.
TypeOK ==
  /\ LinkTypeOK(Bytes)
  /\ cmd \in Commands \cup {None} /\ cmd_count \in 0 .. 4
  /\ cmd = None <=> cmd_count = 0
  /\ keys \in 0 .. MaxKeys

\* The types, and: no byte of the keyboard is lost or mixed with another,
\* though a command may be sent at any moment.
Inv == TypeOK /\ ByteKept

\* A command comes to an end, so that ps2keyboard_send_cmd_blocking() does,
\* unless the plug is pulled.
CommandEnds == cmd # None ~> cmd = None \/ mode = "gone"

=============================================================================
