------------------------------ MODULE ByteFifo ------------------------------
(***************************************************************************)
(* What the serial port's buffers promise: bytes come out in the order in  *)
(* which they went in, none twice and none invented; who asks an empty     *)
(* buffer gets nothing; a byte is refused only when DropFrom bytes wait.   *)
(***************************************************************************)
EXTENDS Naturals, Sequences

CONSTANTS
  Bytes,       \* the bytes
  NoByte,      \* the answer of an empty buffer
  Capacity,    \* the most that can wait
  DropFrom     \* with fewer waiting no byte is refused

VARIABLES
  queue,       \* the waiting bytes
  out,         \* the last answer
  lost         \* parity of the number of refused bytes

fvars == <<queue, out, lost>>

FInit == queue = <<>> /\ out = NoByte /\ lost = 0

Put(b) ==
  /\ Len(queue) < Capacity
  /\ queue' = Append(queue, b)
  /\ UNCHANGED <<out, lost>>

Drop ==
  /\ Len(queue) >= DropFrom
  /\ lost' = 1 - lost
  /\ UNCHANGED <<queue, out>>

Get ==
  /\ queue # <<>>
  /\ out' = Head(queue)
  /\ queue' = Tail(queue)
  /\ UNCHANGED lost

GetNothing ==
  /\ queue = <<>>
  /\ out' = NoByte
  /\ UNCHANGED <<queue, lost>>

Reset ==
  /\ queue' = <<>>
  /\ UNCHANGED <<out, lost>>

FNext == (\E b \in Bytes : Put(b)) \/ Drop \/ Get \/ GetNothing \/ Reset

FSpec == FInit /\ [][FNext]_fvars

=============================================================================
