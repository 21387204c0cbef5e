------------------------------ MODULE Arbiter ------------------------------
(***************************************************************************)
(* The DRAM arbiter (arbiter.v).  At the end of each memory cycle, at c3,  *)
(* it gives the next cycle to the Z80, the video fetcher, the tile or      *)
(* sprite engine, the DMA or, as a refresh, to nobody.  Video fetches come *)
(* in blocks of 8, 4 or 2 cycles, of which it needs some.                  *)
(*                                                                         *)
(* One step is one c3.  in holds the arbiter's input wires as that c3 will *)
(* find them; they are free, so the properties hold for whatever the       *)
(* clients do.  need, given and waited record what the properties speak of.*)
(***************************************************************************)
EXTENDS Naturals

CONSTANTS
  Bandwidths,   \* values of video_bw, as [total, code] of its two fields
  CpuBound      \* cycles a request of the Z80 may wait

\* total is what {video_bw[4:3], 1'b1} counts down from, plus one.  code is
\* video_bw[2:0], the number of video cycles, where 0 stands for all of them.
ASSUME BandwidthAssumption ==
  Bandwidths \subseteq [total : {2, 4, 8}, code : 0 .. 7]
ASSUME CodeAssumption == \A b \in Bandwidths : b.code < b.total
ASSUME BoundAssumption == CpuBound \in Nat

VARIABLES
  blk_rem,     \* remaining cycles of the block
  vid_rem,     \* remaining video cycles of the block
  stall,       \* the block is all video
  curr_cycle,  \* the client of the cycle in progress
  in,          \* the input wires: video_go, video_bw and the requests
  need,        \* history: video cycles the last block was to give
  given,       \* history: video cycles it has given so far
  waited       \* history: cycles outside all-video blocks that the Z80's
               \* request has waited, up to CpuBound + 1

state   == <<blk_rem, vid_rem, stall, curr_cycle>>
history == <<need, given, waited>>
arbiter_vars == <<state, in, history>>

Clients == {"cpu", "vid", "ts", "tm", "dma", "free"}

Inputs == [go : BOOLEAN, bw : Bandwidths,
           cpu : BOOLEAN, tm : BOOLEAN, ts : BOOLEAN, dma : BOOLEAN]

-----------------------------------------------------------------------------
\* bw_full: the code's bits that count are those of a number below total.
Full(b) == b.code % b.total = 0

Need(b) == IF Full(b) THEN b.total ELSE b.code

video_start == blk_rem = 0
block_start == video_start /\ in.go
video_only_late == stall \/ vid_rem > blk_rem   \* mutant: a cycle late
video_only  == stall \/ vid_rem = blk_rem
video_idle  == vid_rem = 0
dev_req     == in.tm \/ in.ts \/ in.dma

\* cyc_dev
Device == IF in.tm THEN "tm" ELSE IF in.ts THEN "ts" ELSE "dma"

\* Mutant: the idle default of the device multiplexer.
SpareUnconditional == Device

Spare == IF dev_req THEN Device ELSE "free"

\* cpu_next: the Z80 may have the next cycle (dev_over_cpu is tied to 0).
cpu_next == IF video_start THEN in.go => ~Full(in.bw) ELSE ~video_only

\* Mutant: the video goes first while it is not idle.
NextCycleVideoFirst ==
  IF block_start THEN "vid"
  ELSE IF ~video_start /\ ~video_idle THEN "vid"
  ELSE IF in.cpu THEN "cpu" ELSE Spare

NextCycle ==
  IF block_start THEN IF in.cpu /\ ~Full(in.bw) THEN "cpu" ELSE "vid"
  ELSE IF ~video_start /\ video_only THEN "vid"
  ELSE IF in.cpu THEN "cpu"
  ELSE IF ~video_start /\ ~video_idle THEN "vid" ELSE Spare

blk_nrem ==
  IF block_start THEN in.bw.total - 1 ELSE IF video_start THEN 0 ELSE blk_rem - 1

\* Mutant: the first cycle is taken for the video's whoever gets it.
vid_nrem_first ==
  IF block_start THEN (in.bw.code + 7) % 8
  ELSE IF NextCycle = "vid" /\ ~video_idle THEN vid_rem - 1
  ELSE vid_rem

vid_nrem ==
  IF block_start THEN IF in.cpu THEN in.bw.code ELSE (in.bw.code + 7) % 8
  ELSE IF NextCycle = "vid" /\ ~video_idle THEN vid_rem - 1
  ELSE vid_rem

ArbiterInit ==
  /\ blk_rem = 0
  /\ vid_rem = 0
  /\ stall \in BOOLEAN
  /\ curr_cycle \in Clients
  /\ in \in Inputs
  /\ need = 0 /\ given = 0 /\ waited = 0

\* The next cycle belongs to an all-video block.
AllVideo == IF video_start THEN in.go /\ Full(in.bw) ELSE stall

Remember ==
  LET v == IF NextCycle = "vid" THEN 1 ELSE 0
  IN /\ need'   = IF block_start THEN Need(in.bw) ELSE need
     /\ given'  = IF block_start THEN v ELSE given + v
     /\ waited' = IF ~in.cpu \/ NextCycle = "cpu" THEN 0
                  ELSE IF AllVideo \/ waited > CpuBound THEN waited ELSE waited + 1

\* The posedge of clk at c3.
Cycle ==
  /\ blk_rem' = blk_nrem
  /\ vid_rem' = vid_nrem
  /\ stall' = IF video_start THEN in.go /\ Full(in.bw) ELSE stall
  /\ curr_cycle' = NextCycle
  /\ in' \in Inputs
  /\ Remember

ArbiterNext == Cycle

ArbiterSpec == ArbiterInit /\ [][ArbiterNext]_arbiter_vars

-----------------------------------------------------------------------------
(* Properties                                                              *)

\* The three-bit counters stay three-bit counters: no subtraction in
\* blk_nrem and vid_nrem wraps except the one from an all-video code.
ArbiterTypes ==
  /\ blk_rem \in 0 .. 7
  /\ vid_rem \in 0 .. 7
  /\ stall \in BOOLEAN
  /\ curr_cycle \in Clients
  /\ in \in Inputs
  /\ need \in 0 .. 8
  /\ given \in 0 .. 8
  /\ waited \in 0 .. CpuBound + 1

\* Whatever the other clients ask for and whenever video_go and video_bw
\* change, a block that has ended has given the video exactly the cycles it
\* needed, no fewer (a hole in the picture) and no more (lost memory time).
VideoServed == blk_rem = 0 => given = need

\* The types, and: every block gives the video what it needs.
ArbiterInv == ArbiterTypes /\ VideoServed

\* Not counting all-video blocks, a request of the Z80 waits no longer than for
\* the video cycles of one block, although another block may follow at once
\* and the video reserves the end of each.
CpuWaitBounded == waited <= CpuBound

\* zmem.v counts on cpu_next: a request made while it is up gets the very
\* next cycle, and the Z80 gets no cycle it did not ask for or expect.
CpuNextKept == [][curr_cycle' = "cpu" <=> in.cpu /\ cpu_next]_arbiter_vars

\* A device has a cycle only if it asked (a stray cycle would make the DMA or
\* the tile engine take a step), TM before TS before DMA, and a cycle becomes
\* a refresh only if nobody could use it.
DevicesInOrder ==
  [][/\ curr_cycle' = "tm"  => in.tm
     /\ curr_cycle' = "ts"  => in.ts /\ ~in.tm
     /\ curr_cycle' = "dma" => in.dma /\ ~in.ts /\ ~in.tm
     /\ curr_cycle' = "free" => ~in.cpu /\ ~dev_req]_arbiter_vars

\* The counters implement the shares.
Owed == IF blk_rem = 0 THEN 0 ELSE IF stall THEN blk_rem ELSE vid_rem

Share == INSTANCE VideoShare WITH
  Shares <- {<<b.total, Need(b)>> : b \in Bandwidths},
  left <- blk_rem, owed <- Owed, ask <- in.cpu, owner <- curr_cycle

ImplementsVideoShare == Share!BSpec

=============================================================================
