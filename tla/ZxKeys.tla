------------------------------- MODULE ZxKeys -------------------------------
(***************************************************************************)
(* The keyboard's way to the Z80.  The main loop's PS/2 and joystick tasks *)
(* call to_zx() and update_keys(), which count the presses of each key of  *)
(* the Spectrum and put its first press and last release into a FIFO.      *)
(* zx_task() takes events from the FIFO into the bitmap zx_map, with a     *)
(* pause around the shift keys that the timer interrupt counts down, and   *)
(* then sends the bitmap, one column in each call, to the FPGA             *)
(* (slavespi.v, zkbdmus.v), where the Z80 sees it at once.                 *)
(*                                                                         *)
(* The 40-pin keyboard, the scan codes and the hot keys are left out: a    *)
(* physical key is one that gives ZX codes.  Repeated scan codes are       *)
(* filtered by ps2keyboard_parse() before they come here.                  *)
(***************************************************************************)
EXTENDS Naturals, Sequences, FiniteSets, Functions

CONSTANTS
  Phys,        \* physical keys
  Codes,       \* their rows of the key map: b1, or b1 and b2
  FifoSize,    \* ZX_FIFO_SIZE
  ShiftPause,  \* SHIFT_PAUSE
  MaxErrors,   \* bound on PS/2 timeouts
  MaxResets    \* bound on hard resets

KEY_CS == 7
KEY_SS == 8
KEY_V  == 39
CLRKYS == 122

ASSUME KeysAssumption ==
  /\ IsFiniteSet(Phys)
  /\ \A p \in Phys : /\ Codes[p] \in Seq((0 .. KEY_V) \cup {CLRKYS})
                     /\ Len(Codes[p]) \in {1, 2}
  /\ FifoSize \in Nat \ {0, 1}
  /\ ShiftPause \in Nat \ {0}
  /\ MaxErrors \in Nat /\ MaxResets \in Nat

VARIABLES
  held,        \* the physical keys that are down
  counters,    \* zx_counters
  fifo,        \* the bytes of zx_fifo from the out to the in pointer
  outPtr,      \* zx_fifo_out_ptr
  map,         \* zx_map, as the set of its keys
  prev,        \* prev_code
  shiftPause,  \* shift_pause
  wasData,     \* was_data of the call of zx_task() under way
  taskState,   \* task_state
  pc,          \* "loop", or "drain" inside the while loop of zx_task()
  kbdCnt,      \* the column counter of slavespi.v
  cols,        \* kbd of zkbdmus.v, the keys the Z80 sees
  errors,      \* PS/2 timeouts so far
  resets,      \* hard resets so far
  cleared      \* history: Esc or a timeout has cleared the counters

input == <<held, counters, fifo, outPtr>>
work  == <<map, prev, shiftPause, wasData, taskState, pc>>
fpga  == <<kbdCnt, cols>>
ends  == <<errors, resets, cleared>>
vars  == <<input, work, fpga, ends>>

Keys    == (UNION {Range(Codes[p]) : p \in Phys}) \ {CLRKYS}
Down(k) == [key |-> k, down |-> TRUE]
Up(k)   == [key |-> k, down |-> FALSE]
Clear   == Down(CLRKYS)
Events  == {Down(k) : k \in Keys} \cup {Up(k) : k \in Keys} \cup {Clear}
NoPrev  == Up(KEY_V + 1)      \* impossible scancode
IsShift(k) == k \in KEY_CS .. KEY_SS
NoKeys  == [k \in Keys |-> 0]

-----------------------------------------------------------------------------
(* The FIFO.  Its pointers are bytes; the sum in zx_fifo_isfull() is an    *)
(* int, so at the last index it is never equal to the out pointer.         *)

InPtr(f) == (outPtr + Len(f)) % FifoSize

IsFull(f) == InPtr(f) + 1 = outPtr

\* A put that makes the pointers equal makes the FIFO look empty.
Put(f, e) ==
  IF IsFull(f) THEN f
  ELSE IF Len(f) + 1 = FifoSize THEN <<>> ELSE Append(f, e)

-----------------------------------------------------------------------------
(* update_keys() and to_zx(), on the pair of counters and FIFO             *)

PressKey(q, k) ==
  [n |-> [q.n EXCEPT ![k] = @ + 1],
   f |-> IF q.n[k] = 0 THEN Put(q.f, Down(k)) ELSE q.f]

ReleaseKey(q, k) ==
  IF q.n[k] = 0 THEN q
  ELSE [n |-> [q.n EXCEPT ![k] = @ - 1],
        f |-> IF q.n[k] = 1 THEN Put(q.f, Up(k)) ELSE q.f]

update_keys(q, code, release) ==
  IF code = CLRKYS
  THEN IF release THEN q ELSE [n |-> NoKeys, f |-> Put(q.f, Clear)]
  ELSE IF release THEN ReleaseKey(q, code) ELSE PressKey(q, code)

to_zx(p, release) ==
  LET first == update_keys([n |-> counters, f |-> fifo], Codes[p][1], release)
      after == IF Len(Codes[p]) = 1 THEN first ELSE update_keys(first, Codes[p][2], release)
  IN counters' = after.n /\ fifo' = after.f

\* Keys come too slowly to fill the FIFO of 256.
Room(p) == Len(fifo) + Len(Codes[p]) < FifoSize

Press(p) ==
  /\ pc = "loop"
  /\ p \notin held
  /\ Room(p)
  /\ held' = held \cup {p}
  /\ to_zx(p, FALSE)
  /\ cleared' = (cleared \/ CLRKYS \in Range(Codes[p]))
  /\ UNCHANGED <<outPtr, work, fpga, errors, resets>>

Release(p) ==
  /\ pc = "loop"
  /\ p \in held
  /\ Room(p)
  /\ held' = held \ {p}
  /\ to_zx(p, TRUE)
  /\ UNCHANGED <<outPtr, work, fpga, ends>>

-----------------------------------------------------------------------------
(* zx_task()                                                               *)

\* TIMER2_OVF_vect.  A tick is 3 ms, the while loop takes microseconds: a
\* tick inside it amounts to one before or after it.
Tick ==
  /\ pc = "loop"
  /\ shiftPause > 0
  /\ shiftPause' = shiftPause - 1
  /\ UNCHANGED <<input, map, prev, wasData, taskState, pc, fpga, ends>>

\* The call finds task_state zero: it looks into the FIFO.
Begin ==
  /\ pc = "loop"
  /\ taskState = 0
  /\ fifo # <<>>
  /\ pc' = "drain"
  /\ wasData' = FALSE
  /\ UNCHANGED <<input, map, prev, shiftPause, taskState, fpga, ends>>

\* The event at the head has to wait: a key after its shift goes down, a
\* shift after its key comes up.
PausesDownOnly(e) ==    \* mutant: releases do not wait
  /\ shiftPause > 0
  /\ prev.down /\ e.down /\ IsShift(prev.key) /\ ~IsShift(e.key)

Pauses(e) ==
  /\ shiftPause > 0
  /\ \/ prev.down /\ e.down /\ IsShift(prev.key) /\ ~IsShift(e.key)
     \/ ~prev.down /\ ~e.down /\ ~IsShift(prev.key) /\ IsShift(e.key)

NothingMore == IF fifo = <<>> THEN TRUE ELSE Pauses(Head(fifo))

Take == fifo' = Tail(fifo) /\ outPtr' = (outPtr + 1) % FifoSize

\* An ordinary key.
ProcessKey ==
  /\ pc = "drain"
  /\ fifo # <<>>
  /\ LET e == Head(fifo)
     IN /\ e # Clear
        /\ ~Pauses(e)
        /\ map' = IF e.down THEN map \cup {e.key} ELSE map \ {e.key}
        /\ prev' = e
  /\ Take
  /\ shiftPause' = ShiftPause
  /\ wasData' = TRUE
  /\ UNCHANGED <<held, counters, taskState, pc, fpga, ends>>

\* CLRKYS: zx_clr_kb(), and the change is sent at once.
ProcessClear ==
  /\ pc = "drain"
  /\ fifo # <<>> /\ Head(fifo) = Clear
  /\ Take
  /\ prev' = NoPrev
  /\ map' = {}
  /\ counters' = NoKeys
  /\ wasData' = FALSE
  /\ taskState' = 6
  /\ pc' = "loop"
  /\ UNCHANGED <<held, shiftPause, fpga, ends>>

\* Mutant: the transfer starts with the second column.
EndDrainShort ==
  /\ pc = "drain"
  /\ NothingMore
  /\ pc' = "loop"
  /\ taskState' = IF wasData THEN 5 ELSE 0
  /\ wasData' = FALSE
  /\ UNCHANGED <<input, map, prev, shiftPause, fpga, ends>>

\* The FIFO is empty or the pause stops the loop; what has changed is sent.
EndDrain ==
  /\ pc = "drain"
  /\ NothingMore
  /\ pc' = "loop"
  /\ taskState' = IF wasData THEN 6 ELSE 0
  /\ wasData' = FALSE
  /\ UNCHANGED <<input, map, prev, shiftPause, fpga, ends>>

\* Where the keys of column c land when the FPGA's counter is n: the
\* counter runs up from the column of KEY_V, zx_task() down to it.
Landed(c, n) ==
  IF n > 4 THEN {}
  ELSE {(4 - n) * 8 + (k % 8) : k \in {j \in map : j \div 8 = c}}

\* task_state 5 .. 1: SPI_KBD_DAT.  The FPGA stores the eight bits at once.
SendColumn ==
  /\ pc = "loop"
  /\ taskState > 1
  /\ taskState' = taskState - 1
  /\ cols' = {k \in cols : k \div 8 # 4 - kbdCnt} \cup Landed(taskState - 2, kbdCnt)
  /\ kbdCnt' = (kbdCnt + 1) % 8
  /\ UNCHANGED <<input, map, prev, shiftPause, wasData, pc, ends>>

\* task_state 0: SPI_KBD_STB, which only sets the FPGA's counter back.
Strobe ==
  /\ pc = "loop"
  /\ taskState = 1
  /\ taskState' = 0
  /\ kbdCnt' = 0
  /\ UNCHANGED <<input, map, prev, shiftPause, wasData, pc, cols, ends>>

-----------------------------------------------------------------------------
(* Errors and resets                                                       *)

\* ps2keyboard_task() finds a byte that has not come to its end in time and
\* calls zx_clr_kb().
Ps2Error ==
  /\ pc = "loop"
  /\ errors < MaxErrors
  /\ errors' = errors + 1
  /\ cleared' = TRUE
  /\ map' = {}
  /\ counters' = NoKeys
  /\ UNCHANGED <<held, fifo, outPtr, prev, shiftPause, wasData, taskState, pc, fpga, resets>>

HardResetFifoKept ==    \* mutant: zx_init() leaves the FIFO
  /\ pc = "loop"
  /\ resets < MaxResets
  /\ resets' = resets + 1
  /\ counters' = NoKeys
  /\ prev' = NoPrev
  /\ map' = {}
  /\ shiftPause' = 0
  /\ taskState' = 0
  /\ cols' = {}
  /\ kbdCnt' = 0
  /\ UNCHANGED <<held, fifo, outPtr, wasData, pc, errors, cleared>>

\* FLAG_HARD_RESET: main() configures the FPGA again and calls zx_init(),
\* which calls zx_task(ZX_TASK_INIT).  Keys may be down meanwhile.
HardReset ==
  /\ pc = "loop"
  /\ resets < MaxResets
  /\ resets' = resets + 1
  /\ counters' = NoKeys
  /\ fifo' = <<>>
  /\ outPtr' = 0
  /\ prev' = NoPrev
  /\ map' = {}
  /\ shiftPause' = 0
  /\ taskState' = 0
  /\ cols' = {}
  /\ kbdCnt' = 0
  /\ UNCHANGED <<held, wasData, pc, errors, cleared>>

-----------------------------------------------------------------------------
Init ==
  /\ held = {}
  /\ counters = NoKeys
  /\ fifo = <<>>
  /\ outPtr = 0
  /\ map = {}
  /\ prev = NoPrev
  /\ shiftPause = 0
  /\ wasData = FALSE
  /\ taskState = 0
  /\ pc = "loop"
  /\ kbdCnt = 0
  /\ cols = {}
  /\ errors = 0
  /\ resets = 0
  /\ cleared = FALSE

ZxTask == Begin \/ ProcessKey \/ ProcessClear \/ EndDrain \/ SendColumn \/ Strobe

Next ==
  \/ \E p \in Phys : Press(p) \/ Release(p)
  \/ Tick
  \/ ZxTask
  \/ Ps2Error
  \/ HardReset

Spec == Init /\ [][Next]_vars

\* The main loop goes round.  The timer ticks whatever the loop does, so
\* that Tick is not enabled inside the while loop must not keep it away.
Fairness == WF_vars(ZxTask) /\ SF_vars(Tick)

FairSpec == Spec /\ Fairness

-----------------------------------------------------------------------------
(* Properties                                                              *)

\* Every variable keeps to its range.
TypeOK ==
  /\ held \subseteq Phys
  /\ counters \in [Keys -> Nat]
  /\ fifo \in Seq(Events) /\ Len(fifo) < FifoSize
  /\ outPtr \in 0 .. FifoSize - 1
  /\ map \subseteq Keys
  /\ prev \in Events \cup {NoPrev}
  /\ shiftPause \in 0 .. ShiftPause
  /\ wasData \in BOOLEAN
  /\ taskState \in 0 .. 6
  /\ pc \in {"loop", "drain"}
  /\ kbdCnt \in 0 .. 7
  /\ cols \subseteq 0 .. KEY_V
  /\ errors \in 0 .. MaxErrors
  /\ resets \in 0 .. MaxResets
  /\ cleared \in BOOLEAN

\* No row of the key map names a key twice.
RowsDistinct == \A p \in Phys : Len(Codes[p]) = 2 => Codes[p][1] # Codes[p][2]

Holders(k) == {p \in held : k \in Range(Codes[p])}

\* A counter never counts more presses than there are physical keys down that
\* give its key, so that it fits in its byte and a key nobody holds is not
\* counted; it may count less, after it has been cleared under them.
CountersHeld == RowsDistinct => \A k \in Keys : counters[k] <= Cardinality(Holders(k))

\* The places of a key's events in the FIFO; CLRKYS is an event of every key.
Places(k) == {i \in 1 .. Len(fifo) : fifo[i].key \in {k, CLRKYS}}

\* Whether the key is down after the event at place i, or in the bitmap now.
DownAfter(k, i) == IF i = 0 THEN k \in map ELSE fifo[i] = Down(k)

\* "filter ZX keystrokes here to assure every is pressed and released only
\* once" (zx.c:50).  From what the bitmap shows of a key, its events in the
\* FIFO are presses and releases in turn, and end where its counter says: a
\* release that will come is not ignored, and a key nobody holds goes up.
PressedAndReleasedOnce ==
  \A k \in Keys : \A i \in Places(k) \cup {0} :
    LET later == {j \in Places(k) : j > i}
    IN IF later = {} THEN counters[k] > 0 <=> DownAfter(k, i)
       ELSE \A j \in later : (\A m \in later : j <= m) /\ fifo[j] # Clear =>
              (DownAfter(k, j) <=> ~DownAfter(k, i))

\* The same while nothing has cleared the counters: also for a key that two
\* physical keys give, and for keys that are down during a hard reset.
OnceUntilCleared == ~cleared => PressedAndReleasedOnce

\* The same with no exception for Esc, as zx.c:50 says it: the run zx_esc finds
\* this violated, for CLRKYS clears the counters again when it is processed
\* (zx.c:560), under a key that has been pressed since it was queued.
OnceWithEsc == errors = 0 => PressedAndReleasedOnce

\* When nothing is to be done, the Z80 sees the keys that zx_map has: the
\* columns went to their places and the last change was sent.  A timeout
\* clears zx_map and sends nothing, so after it the Z80 may see more.
MatrixFollowsMap ==
  pc = "loop" /\ taskState = 0 /\ fifo = <<>> =>
    map \subseteq cols /\ (errors = 0 => cols = map)

\* The types, the counters of the filter and the matrix in the FPGA.
Inv == TypeOK /\ CountersHeld /\ OnceUntilCleared /\ MatrixFollowsMap

\* The event that this step takes from the FIFO into the bitmap.
Applies(e) == pc = "drain" /\ fifo # <<>> /\ Head(fifo) = e /\ fifo' = Tail(fifo)

\* See ShiftShownFirst.
InOrder(e) ==
  Applies(e) /\ errors = 0 =>
    /\ prev.down /\ e.down /\ IsShift(prev.key) /\ ~IsShift(e.key) => prev.key \in cols
    /\ ~prev.down /\ ~e.down /\ ~IsShift(prev.key) /\ IsShift(e.key) => prev.key \notin cols

EventsInOrder == \A e \in Events \ {Clear} : InOrder(e)

\* A key that follows its shift goes down only when the Z80 has seen the
\* shift, and a shift that follows its key comes up only when the Z80 has
\* seen the key go: pause, transfer and next call fit together (a timeout
\* clears the bitmap in the middle of a transfer).
ShiftShownFirst == [][EventsInOrder]_vars

\* A key held for good is seen for good, though other keys come and go, if
\* nothing clears the counters under it.
HeldKeySeen ==
  [](~cleared /\ resets = 0) =>
    \A p \in Phys : <>[](p \in held) => <>[](Range(Codes[p]) \subseteq cols)

=============================================================================
