-------------------------------- MODULE Zmem --------------------------------
(***************************************************************************)
(* The Z80's way to the memory: the memory manager (zmem.v) asks the DRAM  *)
(* arbiter for a cycle, stops the Z80's clock (zclock.v) until the data    *)
(* are there, and keeps a cache of words.  The Z80 runs at 3.5, 7 or 14    *)
(* MHz; a DRAM cycle takes the four clocks c0 to c3 of 28 MHz.             *)
(*                                                                         *)
(* One step is one posedge of clk.  An edge of the Z80's clock falls in    *)
(* the clock of its strobe, and the Z80's pins change in the next one.     *)
(* An address is a word of memory, <<page and high part, line>>, and a     *)
(* word has one datum: the byte select is left out.  So are ROM and        *)
(* write-protected windows, which ask for nothing, and the writes of the   *)
(* DMA, of which the cache does not know.  The mapping changes only        *)
(* between accesses.                                                       *)
(***************************************************************************)
EXTENDS Naturals

CONSTANTS
  Addrs,       \* words of memory
  Written,     \* those that the program writes
  Turbos,      \* clocks of the Z80 in use: "3.5", "7", "14"
  MaxBusy      \* DRAM cycles in a row that the video keeps for itself

ASSUME AddrAssumption == Addrs \subseteq Nat \X Nat /\ Written \subseteq Addrs
ASSUME TurboAssumption == Turbos \subseteq {"3.5", "7", "14"}
ASSUME BusyAssumption == MaxBusy \in Nat \ {0}

VARIABLES
  clk14_src, c2_cnt, stall_count, zpos, zneg,  \* zclock.v
  turbo,       \* sysconf[1:0]
  cyc,         \* Z80: the machine cycle, "m1", "rd", "wr", "io" or "t"
  t,           \* Z80: edges of its clock in this machine cycle
  addr,        \* Z80: its address, mapped
  d,           \* Z80: the datum on the bus when it writes, and after
  cache_en,    \* the window of the address uses the cache
  req_r,       \* mreq_r and iorq_r of zsignals.v
  ramreq_r, pre_ramreq_r, pending_cpu_req, stall14_cycrd, stall14_fin,
  cache,       \* the cache's lines
  q,           \* the line at its output
  c,           \* clock of the DRAM cycle, 0 .. 3
  cpu_next,    \* the arbiter offers the next cycle
  busy,        \* cycles in a row that it has not
  curr,        \* the cycle in progress
  mem,         \* the DRAM
  want,        \* history: what the Z80's program has made of the memory
  beg,         \* history: the clock in which the read was begun, at 14 MHz
  waits        \* history: clocks it has waited since it could be served

clock   == <<clk14_src, c2_cnt, stall_count, zpos, zneg>>
z80     == <<turbo, cyc, t, addr, d, cache_en, req_r>>
zmem    == <<ramreq_r, pre_ramreq_r, pending_cpu_req, stall14_cycrd, stall14_fin>>
dram    == <<c, cpu_next, busy, curr, mem>>
history == <<want, beg, waits>>
vars    == <<clock, z80, zmem, cache, q, dram, history>>

Data  == {0, 1}
Lines == {a[2] : a \in Addrs}
Ops   == {"rd", "wr"}

Nobody == [op |-> "other", addr |-> <<0, 0>>]

-----------------------------------------------------------------------------
(* The Z80's pins (zsignals.v)                                             *)

Cycles   == {"m1", "rd", "wr", "io", "t"}
LastEdge == [x \in Cycles |-> IF x \in {"m1", "io"} THEN 8 ELSE IF x = "t" THEN 2 ELSE 6]

\* ~MREQ from the falling edge of T1 to T3, of M1 to its rising edge.
opfetch == cyc = "m1" /\ t \in 2 .. 4
memrd   == opfetch \/ (cyc = "rd" /\ t \in 2 .. 5)
memwr   == cyc = "wr" /\ t \in 2 .. 5
iorq    == cyc = "io" /\ t \in 3 .. 7

\* The strobes come in the clock after the zpos that finds the request.
strobe    == req_r = <<TRUE, FALSE>>
memwr_s   == strobe /\ memwr
opfetch_s == strobe /\ opfetch
iorq_s    == strobe /\ iorq

\* The clock in which the Z80 takes the datum.
Takes ==
  \/ cyc = "m1" /\ t = 4 /\ zpos
  \/ cyc = "rd" /\ t = 5 /\ zneg

-----------------------------------------------------------------------------
(* zmem.v                                                                  *)

cache_hit == q.v /\ q.tag = addr[1]

\* Mutant: a write through a window without the cache leaves the line.
cache_inv_hit_en == cache_hit /\ cache_en /\ memwr_s

cache_inv == cache_hit /\ memwr_s
ramreq    == (memrd /\ ~(cache_hit /\ cache_en)) \/ memwr

dram_beg == ramreq /\ ~pre_ramreq_r /\ zneg

cpureq_357 == ramreq /\ ~ramreq_r
cpu_req == IF turbo = "14" THEN dram_beg \/ pending_cpu_req ELSE cpureq_357

\* Mutant: the request itself stops the clock.
stall357_always == cpureq_357

stall357    == cpureq_357 /\ ~cpu_next
stall14_ini == dram_beg /\ (~cpu_next \/ memrd)
stall14_cyc == IF memrd THEN stall14_cycrd ELSE ~cpu_next
cpu_stall   ==
  IF turbo = "14" THEN stall14_ini \/ stall14_cyc \/ stall14_fin ELSE stall357

\* The arbiter takes the request at the end of this clock.
Granted == c = 3 /\ cpu_next

\* Mutant: the datum of M1 is waited for like that of a read.
FinEndsLate == memrd /\ c = 2

FinEnds == (opfetch /\ c = 1) \/ (memrd /\ c = 2)

Requests ==
  /\ ramreq_r' = IF c = 3 /\ ~cpu_stall THEN ramreq ELSE ramreq_r
  /\ pre_ramreq_r' = IF zneg THEN ramreq ELSE pre_ramreq_r
  /\ pending_cpu_req' = (~Granted /\ (dram_beg \/ pending_cpu_req))
  /\ stall14_cycrd' = (~Granted /\ ((dram_beg /\ memrd) \/ stall14_cycrd))
  /\ stall14_fin' =
       IF stall14_fin /\ FinEnds THEN FALSE
       ELSE stall14_fin \/ (Granted /\ cpu_req /\ memrd)

cpu_strobe == curr.op = "rd" /\ c = 2
cpu_latch  == curr.op = "rd" /\ c \in {2, 3}

\* The cache is written at the address the Z80 has, whosever datum comes.
CacheStep ==
  /\ cache' =
       IF cpu_strobe \/ cache_inv
       THEN [cache EXCEPT ![addr[2]] =
               [v |-> ~cache_inv, tag |-> addr[1],
                d |-> IF cpu_strobe THEN mem[curr.addr] ELSE @.d]]
       ELSE cache
  /\ q' = cache[addr[2]]

\* zd_out
Bus == IF cpu_latch THEN mem[curr.addr] ELSE q.d

-----------------------------------------------------------------------------
(* arbiter.v and dram.v, of which Arbiter has the choice of cpu_next       *)

DramStep ==
  /\ c' = (c + 1) % 4
  /\ mem' = IF c = 0 /\ curr.op = "wr"
            THEN [mem EXCEPT ![curr.addr] = IF memrd THEN 1 - d ELSE d] ELSE mem
  /\ IF c = 3
     THEN /\ curr' = IF cpu_req /\ cpu_next
                     THEN [op |-> IF memrd THEN "rd" ELSE "wr", addr |-> addr]
                     ELSE Nobody
          /\ cpu_next' \in BOOLEAN
          /\ busy' = IF cpu_next' THEN 0 ELSE busy + 1
          /\ busy' <= MaxBusy
     ELSE UNCHANGED <<curr, cpu_next, busy>>

-----------------------------------------------------------------------------
(* zclock.v                                                                *)

pre_zpos == \/ turbo = "14"  /\ clk14_src
            \/ turbo = "7"   /\ c = 2
            \/ turbo = "3.5" /\ c = 2 /\ c2_cnt
pre_zneg == \/ turbo = "14"  /\ ~clk14_src
            \/ turbo = "7"   /\ c = 0
            \/ turbo = "3.5" /\ c = 2 /\ ~c2_cnt

\* from is what stall_count starts from in this clock, or None.  zclk_out is
\* low after an odd number of edges.
None == 9

ClockStep(from) ==
  LET stall == cpu_stall \/ from # None \/ stall_count < 8
  IN /\ zpos' = (~stall /\ pre_zpos /\ t' % 2 = 0)
     /\ zneg' = (~stall /\ pre_zneg /\ t' % 2 = 1)
     /\ clk14_src' = IF stall THEN clk14_src ELSE ~clk14_src
     /\ c2_cnt' = IF c = 2 THEN ~c2_cnt ELSE c2_cnt
     /\ stall_count' = IF from # None THEN from
                       ELSE IF stall_count < 8 THEN stall_count + 1 ELSE stall_count

\* dos_on comes with a fetch, vdos_off and an external port with an I/O cycle.
StallFrom ==
  {None} \cup (IF opfetch_s \/ iorq_s THEN {4} ELSE {})
         \cup (IF iorq_s /\ turbo = "14" THEN {0} ELSE {})

-----------------------------------------------------------------------------
(* The Z80                                                                 *)

\* The next machine cycle, with its address.
NewCycle ==
  /\ t' = 1
  /\ cyc' \in Cycles
  /\ IF cyc' \in {"io", "t"} THEN UNCHANGED <<addr, cache_en>>
     ELSE addr' \in (IF cyc' = "wr" THEN Written ELSE Addrs) /\ cache_en' \in BOOLEAN
  /\ UNCHANGED <<d, want>>

\* An edge within a machine cycle: the refresh address after M1's datum; the
\* datum of a write, which is in memory when the write is over.
NextEdge ==
  /\ t' = t + 1
  /\ addr' \in IF cyc = "m1" /\ t = 4 THEN Addrs ELSE {addr}
  /\ d' = IF cyc = "wr" /\ t = 1 THEN 1 - want[addr] ELSE d
  /\ want' = IF cyc = "wr" /\ t = 5 THEN [want EXCEPT ![addr] = d] ELSE want
  /\ UNCHANGED <<cyc, cache_en>>

Z80Step ==
  IF zpos \/ zneg
  THEN IF t = LastEdge[cyc] THEN NewCycle ELSE NextEdge
  ELSE UNCHANGED <<cyc, t, addr, d, cache_en, want>>

\* OUT (SYSCONF) changes the clock in its strobe.
SpeedStep == turbo' \in IF iorq_s THEN Turbos ELSE {turbo}

Strobes ==
  req_r' = <<IF zpos THEN memrd \/ memwr \/ iorq ELSE req_r[1], req_r[1]>>

-----------------------------------------------------------------------------
\* The clocks that a read at 14 MHz waits for its cycle and its datum, counted
\* anew in each cycle in which it could not be accepted.
Remember ==
  LET waiting == dram_beg \/ stall14_cycrd
  IN IF turbo # "14" \/ Takes \/ ~memrd THEN beg' = None /\ waits' = 0
     ELSE IF waiting /\ ~cpu_next THEN beg' = 0 /\ waits' = 0
     ELSE IF dram_beg THEN beg' = c /\ waits' = 1
     ELSE beg' = beg /\ waits' = IF cpu_stall THEN waits + 1 ELSE waits

Tick ==
  /\ Z80Step
  /\ SpeedStep
  /\ Strobes
  /\ \E from \in StallFrom : ClockStep(from)
  /\ Requests
  /\ CacheStep
  /\ DramStep
  /\ Remember

Init ==
  /\ clk14_src = FALSE /\ c2_cnt = FALSE /\ stall_count = 0
  /\ zpos = FALSE /\ zneg = FALSE
  /\ turbo \in Turbos
  /\ cyc = "t" /\ t = 1 /\ addr \in Addrs /\ d = 0 /\ cache_en = FALSE
  /\ req_r = <<FALSE, FALSE>>
  /\ ramreq_r = FALSE /\ pre_ramreq_r = FALSE /\ pending_cpu_req = FALSE
  /\ stall14_cycrd = FALSE /\ stall14_fin = FALSE
  /\ cache = [i \in Lines |-> [v |-> FALSE, tag |-> 0, d |-> 0]]
  /\ q = [v |-> FALSE, tag |-> 0, d |-> 0]
  /\ c = 0 /\ cpu_next \in BOOLEAN /\ busy = (IF cpu_next THEN 0 ELSE 1)
  /\ curr = Nobody
  /\ mem = [a \in Addrs |-> 0] /\ want = mem
  /\ beg = None /\ waits = 0

Next == Tick

Spec == Init /\ [][Next]_vars

FairSpec == Spec /\ WF_vars(Tick)

-----------------------------------------------------------------------------
(* Properties                                                              *)

\* Each variable has its type.
Line == [v : BOOLEAN, tag : Nat, d : Data]

TypeOK ==
  /\ {clk14_src, c2_cnt, zpos, zneg, cache_en, cpu_next} \subseteq BOOLEAN
  /\ ~(zpos /\ zneg)
  /\ stall_count \in 0 .. 8 /\ turbo \in Turbos
  /\ cyc \in Cycles /\ t \in 1 .. LastEdge[cyc]
  /\ addr \in Addrs /\ d \in Data /\ req_r \in BOOLEAN \X BOOLEAN
  /\ {ramreq_r, pre_ramreq_r, pending_cpu_req, stall14_cycrd, stall14_fin} \subseteq BOOLEAN
  /\ \A i \in Lines : cache[i] \in Line
  /\ q \in Line
  /\ c \in 0 .. 3 /\ busy \in 0 .. MaxBusy
  /\ curr \in [op : Ops, addr : Addrs] \cup {Nobody}
  /\ mem \in [Addrs -> Data] /\ want \in [Addrs -> Data]
  /\ beg \in 0 .. 3 \cup {None} /\ waits \in 0 .. 8

\* The Z80 takes what its program last wrote to the word: at each speed and
\* across changes of it, from the DRAM or the cache, through windows with and
\* without the cache, however the video's cycles and the stalls fall.
ReadsTrue == Takes => Bus = want[addr]

Inv == TypeOK /\ ReadsTrue

\* The "wait table" of zmem.v for fetches: at 14 MHz one that begins in c3 is
\* held for three clocks, and for one more for each clock earlier.  If the
\* video has the next cycle, the table's c0 is counted from the first cycle in
\* which it has not.
WaitTable == Takes /\ beg # None /\ opfetch => waits = 3 + (3 - beg)

\* And its table for reads, two clocks and more (zmem.v:162-166).  The code
\* stops the clock until the c2 in which the datum comes, two clocks later, so
\* the run zmem_reads finds this violated.
ReadWaitTable == Takes /\ beg # None /\ ~opfetch => waits = 2 + (3 - beg)

\* The Z80's clock never stops for good: a stall ends, though what it waits
\* for is one clock of a cycle that others may take.
ClockRuns == []<>zneg

=============================================================================
