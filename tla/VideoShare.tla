----------------------------- MODULE VideoShare -----------------------------
(***************************************************************************)
(* What the DRAM arbiter promises the video fetcher and the Z80.  Memory   *)
(* cycles come in blocks; a block of t cycles owes the video n of them,    *)
(* n <= t, and gives it exactly n.  Within a block the Z80 goes first as   *)
(* long as the video can still get its cycles, and the video before the    *)
(* other clients.  Outside blocks the video gets nothing.                  *)
(***************************************************************************)
EXTENDS Naturals

CONSTANT Shares       \* the pairs <<t, n>> a block may have

VARIABLES
  left,    \* cycles of the block not given yet, 0 outside blocks
  owed,    \* how many of them the video must get
  ask,     \* the Z80 asks for the next cycle
  owner    \* who has the cycle in progress

bvars == <<left, owed, ask, owner>>

BInit == left = 0 /\ owed = 0

\* One of r cycles is given, n of them owed to the video.
Give(r, n) ==
  /\ left' = r - 1
  /\ \/ ask /\ n < r /\ owner' = "cpu" /\ owed' = n
     \/ n > 0 /\ (ask => n = r) /\ owner' = "vid" /\ owed' = n - 1
     \/ ~ask /\ n = 0 /\ owner' \notin {"cpu", "vid"} /\ owed' = 0

BeginBlock == left = 0 /\ \E s \in Shares : Give(s[1], s[2])

Continue == left > 0 /\ Give(left, owed)

Outside ==
  /\ left = 0 /\ left' = 0 /\ owed' = 0
  /\ owner' # "vid"
  /\ ask => owner' = "cpu"

BNext == BeginBlock \/ Continue \/ Outside

BSpec == BInit /\ [][BNext]_bvars

=============================================================================
