----------------------------- MODULE ZmemProofs -----------------------------
(***************************************************************************)
(* Proofs about Zmem, for all words of memory and all speeds in use: the   *)
(* Z80 takes what its program last wrote, and a fetch waits at 14 MHz      *)
(* exactly as long as the wait table says. Either the video keeps at most  *)
(* three cycles in a row for itself, or the program does not change        *)
(* between 14 MHz and the lower speeds (NothingLeftOver).                  *)
(*                                                                         *)
(* The invariant is in three layers.  Where the edges can be (Parity,      *)
(* Phase, Strobed).  How far a request has come at each edge of the        *)
(* access: at 3.5 and 7 MHz it is asked for by the second edge and         *)
(* ramreq_r stands for "accepted" (SlowAsks, SlowServed); at 14 MHz by the *)
(* third, and it is pending, in progress with the clock stopped, or done   *)
(* (BeginsOnce, FastPending, FastServed, Reading, Writing, Waiting,        *)
(* Waits).  What the data are: the DRAM has what the program wrote but     *)
(* for the word that is being written (MemTrue), every valid line is true  *)
(* (CacheTrue), and the line of a written word goes before the program     *)
(* can count on it (Invalidated).                                          *)
(***************************************************************************)
EXTENDS Zmem, TLAPS

-----------------------------------------------------------------------------
(* The inductive invariant                                                 *)

Slow   == turbo # "14"
Memory == cyc \in {"m1", "rd", "wr"}

ClockTypes ==
  /\ clk14_src \in BOOLEAN /\ c2_cnt \in BOOLEAN /\ zpos \in BOOLEAN /\ zneg \in BOOLEAN
  /\ stall_count \in 0 .. 8

CycleTypes ==
  /\ turbo \in Turbos /\ cyc \in Cycles /\ t \in 1 .. LastEdge[cyc]
  /\ addr \in Addrs /\ d \in Data /\ cache_en \in BOOLEAN
  /\ req_r[1] \in BOOLEAN /\ req_r[2] \in BOOLEAN /\ req_r = <<req_r[1], req_r[2]>>

ZmemTypes ==
  /\ ramreq_r \in BOOLEAN /\ pre_ramreq_r \in BOOLEAN /\ pending_cpu_req \in BOOLEAN
  /\ stall14_cycrd \in BOOLEAN /\ stall14_fin \in BOOLEAN

CacheTypes == cache \in [Lines -> Line] /\ q \in Line

DramTypes ==
  /\ c \in 0 .. 3 /\ cpu_next \in BOOLEAN /\ busy \in 0 .. MaxBusy
  /\ cpu_next <=> busy = 0
  /\ curr \in [op : Ops, addr : Addrs] \cup {Nobody}
  /\ mem \in [Addrs -> Data] /\ want \in [Addrs -> Data]

Types == ClockTypes /\ CycleTypes /\ ZmemTypes /\ CacheTypes /\ DramTypes

\* The Z80's clock rises after an even number of edges.
Parity == (zpos => t \in {2, 4, 6, 8}) /\ (zneg => t \in {1, 3, 5, 7})

\* At 3.5 and 7 MHz it does so in fixed clocks of the DRAM cycle, but for the edge
\* that is on its way when an I/O cycle changes the speed.
Phase ==
  Slow => /\ zpos /\ ~(cyc = "io" /\ t = 6) => c = 3
          /\ zneg /\ ~(cyc = "io" /\ t = 5) => c = IF turbo = "7" THEN 1 ELSE 3

\* The strobe of a request comes once, after its first rising edge.
Requested == (Memory /\ t \in 3 .. 6) \/ (cyc = "io" /\ t \in 5 .. 8)

Strobed ==
  /\ req_r[1] <=> Requested
  /\ strobe => t = IF cyc = "io" THEN 5 ELSE 3

\* dram_beg comes with the third edge and no other.
BeginsOnce ==
  /\ t \in {2, 3} => ~pre_ramreq_r
  /\ memwr /\ t >= 4 => pre_ramreq_r
  /\ memrd /\ t >= 4 => pre_ramreq_r \/ (cache_hit /\ cache_en)

\* The cycle in progress is for the Z80's address; its write is in memory, or is
\* the cycle that begins.
Same  == curr.addr = addr
Wrote == mem[addr] = d \/ (curr.op = "wr" /\ c = 0 /\ Same)

\* At 3.5 and 7 MHz an access that got to its third edge has been accepted, as the
\* second one waits for that ...
SlowAsks ==
  Slow => /\ t = 1 => ~ramreq_r
          /\ memrd /\ t >= 3 => ramreq_r \/ (cache_hit /\ cache_en)
          /\ memwr /\ t >= 3 => ramreq_r
          /\ zpos /\ cpureq_357 => cpu_next

\* ... and what has been accepted is in progress or done.
SlowServed ==
  Slow => /\ memrd /\ ramreq_r => curr.op = "rd" \/ cache_hit
          /\ cyc = "rd" /\ t = 5 => cache_hit
          /\ memwr /\ ramreq_r => Wrote
          /\ cyc = "wr" /\ t = 6 => Wrote

\* pending_cpu_req is set at 3.5 and 7 MHz too, where nobody looks at it, and stays
\* while the video keeps all cycles.  Age is the number of cycles since, at the
\* least: four when an I/O cycle can change to 14 MHz, so by then it is gone.
Age ==
  IF t <= 2 THEN 2 ELSE IF t = 3 THEN 3
  ELSE IF cyc = "io" THEN (IF t = 4 THEN 3 ELSE 4)
  ELSE IF t = 4 THEN 0 ELSE IF t <= 6 THEN 1 ELSE 2

Leftover ==
  MaxBusy <= 3 /\ Slow /\ pending_cpu_req =>
    IF cpu_next THEN Age <= 3 ELSE busy >= Age + 1

\* What keeps a request that was left over from being made at 14 MHz.
NothingLeftOver == MaxBusy <= 3 \/ "14" \notin Turbos \/ Turbos = {"14"}

\* At 14 MHz a request is pending for a read, whose clock is stopped after the
\* fourth edge; for a write that the video stops there; or for a write that goes on
\* while it has the next cycle for certain, and cannot end before that.
FastPending ==
  ~Slow /\ pending_cpu_req =>
    \/ memrd /\ stall14_cycrd /\ t = 4 /\ ~zpos
    \/ cyc = "wr" /\ ~cpu_next /\ t = 4 /\ ~zpos
    \/ /\ cyc = "wr" /\ cpu_next /\ t \in 4 .. 6
       /\ t <= c + 3 + (IF c = 0 THEN 1 ELSE 0)
       /\ c = 0 => ~zpos

\* What is not pending is in progress or done.
FastServed ==
  ~Slow => /\ memrd /\ t >= 4 => \/ cache_hit \/ pending_cpu_req
                                 \/ curr.op = "rd" /\ (c >= 2 \/ stall14_fin)
           /\ cyc = "rd" /\ t = 5 => cache_hit
           /\ cyc = "wr" /\ t >= 4 => Wrote \/ pending_cpu_req

\* A DRAM cycle that reads is for the access in progress, whose datum it can still
\* bring in time.
Reading ==
  curr.op = "rd" =>
    /\ memrd /\ Same /\ t <= 4
    /\ Slow /\ c <= 1 => t <= 3
    /\ ~Slow => t = 4 /\ (c <= 2 => ~zpos)
    /\ ~Slow /\ c <= 1 => stall14_fin

\* One that writes has the address and the datum of its access, which may just
\* have ended.
Writing ==
  curr.op = "wr" /\ c = 0 =>
    \/ cyc = "wr" /\ t >= 2 /\ Same
    \/ t = 1 /\ d = want[curr.addr]

\* The two stalls of a read at 14 MHz: for its cycle and for its datum.
Waiting ==
  /\ stall14_cycrd => pending_cpu_req
  /\ stall14_fin => curr.op = "rd" /\ c <= (IF opfetch THEN 1 ELSE 2)
  /\ ~Slow /\ stall14_fin => ~pending_cpu_req

\* How long it has waited, in terms of the clock in which it began.
Waits ==
  /\ beg \in 0 .. 3 \cup {None}
  /\ beg = None => waits = 0
  /\ Slow \/ ~memrd \/ t <= 3 => beg = None
  /\ beg # None =>
       waits = IF stall14_cycrd THEN (IF cpu_next THEN c - beg ELSE 0)
               ELSE IF stall14_fin THEN (4 - beg) + c
               ELSE (IF opfetch THEN 6 ELSE 7) - beg
  /\ ~Slow /\ memrd /\ (stall14_cycrd \/ stall14_fin) => beg # None
  /\ ~Slow /\ memrd /\ stall14_cycrd => IF cpu_next THEN beg <= c ELSE beg = 0

\* The DRAM has what the program wrote, but for the word of a write in progress.
MemTrue ==
  \A a \in Addrs :
    \/ mem[a] = want[a]
    \/ cyc = "wr" /\ t \in 2 .. 6 /\ a = addr
    \/ curr.op = "wr" /\ c = 0 /\ a = curr.addr

\* The program counts on a write from its last edge but one.
WroteIt == cyc = "wr" /\ t = 6 => d = want[addr]

\* Every valid line holds what the program wrote to the word it is of.
Word(i)   == <<cache[i].tag, i>>
CacheTrue == \A i \in Lines : cache[i].v => Word(i) \in Addrs /\ cache[i].d = want[Word(i)]

Cached == cache[addr[2]].v /\ cache[addr[2]].tag = addr[1]

\* The cache's output, one clock late, is right for a read that sees a hit; a read
\* from the DRAM has filled its line by c3.
OutTrue ==
  /\ memrd /\ cache_hit => Cached /\ q.d = want[addr]
  /\ curr.op = "rd" /\ c = 3 => Cached

\* A write finds its line at the output in the clock of its strobe, and from then
\* on the cache does not have the word.
Invalidated ==
  /\ cyc = "wr" /\ t = 2 => q = cache[addr[2]]
  /\ cyc = "wr" /\ t >= 3 /\ strobe => q = cache[addr[2]]
  /\ cyc = "wr" /\ t >= 3 /\ ~strobe => ~Cached

IInv ==
  /\ Types /\ Parity /\ Phase /\ Strobed /\ BeginsOnce /\ SlowAsks /\ SlowServed
  /\ Leftover /\ FastPending /\ FastServed /\ Reading /\ Writing /\ Waiting /\ Waits
  /\ MemTrue /\ WroteIt /\ CacheTrue /\ OutTrue /\ Invalidated

-----------------------------------------------------------------------------
(* Types, and the edges of the Z80's clock                                 *)

\* The three kinds of step of the Z80.
Stays == ~zpos /\ ~zneg /\ UNCHANGED <<cyc, t, addr, d, cache_en, want>>
Inner == (zpos \/ zneg) /\ t # LastEdge[cyc] /\ NextEdge
Outer == (zpos \/ zneg) /\ t = LastEdge[cyc] /\ NewCycle

LEMMA Kinds == Tick => Stays \/ Inner \/ Outer
  BY DEF Tick, Z80Step, Stays, Inner, Outer

LEMMA EvenOdd ==
  \A n \in 1 .. 8 : (n % 2 = 0 <=> n \in {2, 4, 6, 8}) /\ (n % 2 = 1 <=> n \in {1, 3, 5, 7})
  OBVIOUS

LEMMA LastIs ==
  \A x \in Cycles :
    /\ LastEdge[x] \in 2 .. 8
    /\ LastEdge[x] = IF x \in {"m1", "io"} THEN 8 ELSE IF x = "t" THEN 2 ELSE 6
  BY DEF LastEdge

LEMMA CycleTypesStep == Types /\ Tick => CycleTypes'
  <1> SUFFICES ASSUME Types, Tick PROVE CycleTypes'
    OBVIOUS
  <1>0. CycleTypes /\ want \in [Addrs -> Data] /\ zpos \in BOOLEAN
    BY DEF Types, DramTypes, ClockTypes
  <1>1. turbo' \in Turbos
    BY <1>0 DEF Tick, SpeedStep, CycleTypes
  <1>2. req_r'[1] \in BOOLEAN /\ req_r'[2] \in BOOLEAN /\ req_r' = <<req_r'[1], req_r'[2]>>
    BY <1>0 DEF Tick, Strobes, CycleTypes
  <1>3. cyc' \in Cycles /\ t' \in 1 .. LastEdge[cyc']
    BY <1>0, Kinds, LastIs DEF Stays, Inner, Outer, NextEdge, NewCycle, CycleTypes
  <1>4. addr' \in Addrs /\ cache_en' \in BOOLEAN
    BY <1>0, Kinds, LastIs, AddrAssumption
    DEF Stays, Inner, Outer, NextEdge, NewCycle, CycleTypes
  <1>5. d' \in Data
    BY <1>0, Kinds, LastIs DEF Stays, Inner, Outer, NextEdge, NewCycle, CycleTypes, Data
  <1> QED
    BY <1>1, <1>2, <1>3, <1>4, <1>5 DEF CycleTypes

LEMMA ClockTypesStep == Types /\ Tick => ClockTypes'
  <1> SUFFICES ASSUME Types, Tick PROVE ClockTypes'
    OBVIOUS
  <1>1. ClockTypes
    BY DEF Types
  <1>2. clk14_src' \in BOOLEAN /\ c2_cnt' \in BOOLEAN /\ zpos' \in BOOLEAN /\ zneg' \in BOOLEAN
    BY <1>1, Zenon DEF ClockTypes, Tick, ClockStep
  <1>3. PICK from \in {None, 4, 0} : ClockStep(from)
    BY Zenon DEF Tick, StallFrom
  <1>4. stall_count' \in 0 .. 8
    BY <1>1, <1>3 DEF ClockTypes, ClockStep, None
  <1> QED
    BY <1>2, <1>4 DEF ClockTypes

\* An edge is announced when the clock is not stopped, in its clock and parity.
LEMMA Edges ==
  ASSUME Types, Tick
  PROVE  /\ zpos' => ~cpu_stall /\ pre_zpos /\ t' \in {2, 4, 6, 8}
         /\ zneg' => ~cpu_stall /\ pre_zneg /\ t' \in {1, 3, 5, 7}
  <1>1. /\ zpos' => ~cpu_stall /\ pre_zpos /\ t' % 2 = 0
        /\ zneg' => ~cpu_stall /\ pre_zneg /\ t' % 2 = 1
    BY Zenon DEF Tick, ClockStep
  <1>2. t' \in 1 .. 8
    BY CycleTypesStep, LastIs DEF CycleTypes
  <1> QED
    BY <1>1, <1>2, EvenOdd

LEMMA ParityStep == Types /\ Tick => Parity'
  BY Edges DEF Parity

LEMMA ZmemTypesStep == Types /\ Tick => ZmemTypes'
  BY Zenon DEF Types, ZmemTypes, Tick, Requests, ramreq

LEMMA DramTypesStep == Types /\ Tick => DramTypes'
  <1> SUFFICES ASSUME Types, Tick PROVE DramTypes'
    OBVIOUS
  <1>0. DramTypes /\ CycleTypes
    BY DEF Types
  <1>1. c' \in 0 .. 3
    BY <1>0 DEF Tick, DramStep, DramTypes
  <1>2. cpu_next' \in BOOLEAN /\ busy' \in 0 .. MaxBusy /\ (cpu_next' <=> busy' = 0)
    BY <1>0, BusyAssumption DEF Tick, DramStep, DramTypes
  <1>3. curr' \in [op : Ops, addr : Addrs] \cup {Nobody}
    <2>1. CASE c = 3 /\ cpu_req /\ cpu_next
      <3>1. curr' = [op |-> IF memrd THEN "rd" ELSE "wr", addr |-> addr]
        BY <2>1 DEF Tick, DramStep
      <3> QED
        BY <1>0, <3>1 DEF CycleTypes, Ops
    <2>2. CASE ~(c = 3 /\ cpu_req /\ cpu_next)
      BY <1>0, <2>2 DEF Tick, DramStep, DramTypes
    <2> QED
      BY <2>1, <2>2
  <1>4. mem' \in [Addrs -> Data]
    <2> DEFINE x == IF memrd THEN 1 - d ELSE d
    <2>1. x \in Data
      BY <1>0 DEF CycleTypes, Data
    <2>2. mem' = IF c = 0 /\ curr.op = "wr" THEN [mem EXCEPT ![curr.addr] = x] ELSE mem
      BY DEF Tick, DramStep
    <2> HIDE DEF x
    <2> QED
      BY <1>0, <2>1, <2>2 DEF DramTypes
  <1>5. want' \in [Addrs -> Data]
    BY <1>0, Kinds DEF Stays, Inner, Outer, NextEdge, NewCycle, DramTypes, CycleTypes
  <1> QED
    BY <1>1, <1>2, <1>3, <1>4, <1>5 DEF DramTypes

\* An address is a tag and a line.
LEMMA AddrIs ==
  ASSUME CycleTypes
  PROVE  addr[2] \in Lines /\ addr[1] \in Nat /\ addr = <<addr[1], addr[2]>>
  BY AddrAssumption DEF CycleTypes, Lines

LEMMA CacheTypesStep == Types /\ Tick => CacheTypes'
  <1> SUFFICES ASSUME Types, Tick PROVE CacheTypes'
    OBVIOUS
  <1>0. CacheTypes /\ addr[2] \in Lines /\ addr[1] \in Nat
    BY AddrIs DEF Types
  <1>1. q' \in Line
    BY <1>0 DEF Tick, CacheStep, CacheTypes
  <1>2. cpu_strobe => mem[curr.addr] \in Data
    BY DEF Types, DramTypes, cpu_strobe, Nobody
  <1>4. cache' \in [Lines -> Line]
    <2> DEFINE l == [v |-> ~cache_inv, tag |-> addr[1],
                d |-> IF cpu_strobe THEN mem[curr.addr] ELSE cache[addr[2]].d]
    <2>1. l \in Line
      <3>1. (~cache_inv) \in BOOLEAN
        BY Zenon
      <3> QED
        BY <1>0, <1>2, <3>1 DEF CacheTypes, Line
    <2>2. cache' = cache \/ cache' = [cache EXCEPT ![addr[2]] = l]
      BY DEF Tick, CacheStep
    <2> HIDE DEF l
    <2> QED
      BY <1>0, <2>1, <2>2 DEF CacheTypes
  <1> QED
    BY <1>1, <1>4 DEF CacheTypes

LEMMA TypesStep == Types /\ Tick => Types'
  BY ClockTypesStep, CycleTypesStep, ZmemTypesStep, CacheTypesStep, DramTypesStep DEF Types

LEMMA Pair == \A x, y \in BOOLEAN : <<x, y>> = <<TRUE, FALSE>> <=> x /\ ~y
  OBVIOUS

LEMMA StrobeIs == CycleTypes => (strobe <=> req_r[1] /\ ~req_r[2])
  BY Pair DEF CycleTypes, strobe

LEMMA StrobedStep == Types /\ Parity /\ Strobed /\ Tick => Strobed'
  <1> SUFFICES ASSUME Types, Parity, Strobed, Tick PROVE Strobed'
    OBVIOUS
  <1>0. CycleTypes
    BY DEF Types
  <1>1. req_r'[1] <=> IF zpos THEN memrd \/ memwr \/ iorq ELSE req_r[1]
    BY Zenon DEF Tick, Strobes
  <1>2. req_r'[2] <=> req_r[1]
    BY DEF Tick, Strobes
  <1>3. strobe' <=> req_r'[1] /\ ~req_r'[2]
    <2>1. CycleTypes'
      BY CycleTypesStep
    <2> QED
      BY <2>1, Pair DEF CycleTypes, strobe
  <1>4. req_r'[1] <=> Requested'
    BY <1>0, <1>1, Kinds, LastIs
    DEF Strobed, Parity, Stays, Inner, Outer, NextEdge, NewCycle, Requested, Memory, memrd,
        memwr, opfetch, iorq, Cycles
  <1> QED
    BY <1>0, <1>1, <1>2, <1>3, <1>4, Kinds, LastIs
    DEF Strobed, Stays, Inner, Outer, NextEdge, Requested, Memory, memrd, memwr, opfetch, iorq,
        Cycles

-----------------------------------------------------------------------------
(* What the steps have in common                                           *)

\* The registers of zmem.v, as equivalences.
LEMMA Regs ==
  ASSUME Tick
  PROVE  /\ ramreq_r' <=> IF c = 3 /\ ~cpu_stall THEN ramreq ELSE ramreq_r
         /\ pre_ramreq_r' <=> IF zneg THEN ramreq ELSE pre_ramreq_r
         /\ pending_cpu_req' <=> ~Granted /\ (dram_beg \/ pending_cpu_req)
         /\ stall14_cycrd' <=> ~Granted /\ ((dram_beg /\ memrd) \/ stall14_cycrd)
         /\ stall14_fin' <=> IF stall14_fin /\ FinEnds THEN FALSE
                             ELSE stall14_fin \/ (Granted /\ cpu_req /\ memrd)
  <1>1. Requests
    BY DEF Tick
  <1> QED
    BY <1>1, Zenon DEF Requests

\* The speed changes only with the fifth edge of an I/O cycle.
LEMMA Speed ==
  ASSUME IInv, Tick
  PROVE  turbo' = turbo \/ (cyc = "io" /\ t = 5 /\ cyc' = "io" /\ t' \in {5, 6})
  <1>1. CycleTypes /\ Strobed
    BY DEF IInv, Types
  <1>2. turbo' = turbo \/ (strobe /\ cyc = "io")
    BY DEF Tick, SpeedStep, iorq_s, iorq
  <1>3. strobe /\ cyc = "io" => t = 5
    BY <1>1 DEF Strobed
  <1> QED
    BY <1>1, <1>2, <1>3, Kinds, LastIs DEF Stays, Inner, Outer, NextEdge, Cycles

\* The Z80 is in the same access after the step.
Goes ==
  /\ cyc' = cyc /\ addr' = addr /\ cache_en' = cache_en
  /\ (t' = t /\ ~zpos /\ ~zneg) \/ (t' = t + 1 /\ (zpos \/ zneg))

LEMMA Within ==
  ASSUME IInv, Tick, t' >= 2, cyc' \in {"m1", "rd", "wr"}, cyc' = "m1" => t' <= 4
  PROVE  Goes
  BY Kinds, LastIs DEF Stays, Inner, Outer, NextEdge, NewCycle, Goes

\* A read keeps the hit it has, and gets one with its datum.
LEMMA HitKept ==
  ASSUME IInv, Tick, memrd, cache_hit, addr' = addr
  PROVE  cache_hit'
  BY DEF IInv, OutTrue, Cached, cache_hit, Tick, CacheStep

LEMMA Filled ==
  ASSUME IInv, Tick, curr.op = "rd", c = 3, addr' = addr
  PROVE  cache_hit'
  BY DEF IInv, OutTrue, Cached, cache_hit, Tick, CacheStep

\* At 14 MHz an access asks with its third edge, at 3.5 and 7 MHz after its first.
LEMMA Begins ==
  ASSUME IInv, dram_beg
  PROVE  t = 3 /\ zneg /\ ramreq /\ cyc \in {"m1", "rd", "wr"}
  <1>1. zneg => t \in {1, 3, 5, 7}
    BY DEF IInv, Parity
  <1> QED
    BY <1>1 DEF IInv, BeginsOnce, dram_beg, ramreq, memrd, memwr, opfetch

LEMMA Asks ==
  ASSUME IInv, Slow, cpureq_357
  PROVE  t = 2
  BY DEF IInv, SlowAsks, cpureq_357, ramreq, memrd, memwr, opfetch

\* What stops the clock and what asks the arbiter, at either kind of speed.
LEMMA SlowStall ==
  ASSUME Slow
  PROVE  /\ cpu_stall <=> ramreq /\ ~ramreq_r /\ ~cpu_next
         /\ cpu_req <=> ramreq /\ ~ramreq_r
  BY DEF Slow, cpu_stall, cpu_req, stall357, cpureq_357

LEMMA FastStall ==
  ASSUME ~Slow
  PROVE  /\ cpu_stall <=> \/ dram_beg /\ (~cpu_next \/ memrd)
                          \/ IF memrd THEN stall14_cycrd ELSE ~cpu_next
                          \/ stall14_fin
         /\ cpu_req <=> dram_beg \/ pending_cpu_req
  BY DEF Slow, cpu_stall, cpu_req, stall14_ini, stall14_cyc

\* The DRAM's next clock, and its cycle.
LEMMA Clocks ==
  ASSUME IInv, Tick
  PROVE  /\ c \in 0 .. 3 /\ c' \in 0 .. 3
         /\ c' = IF c = 3 THEN 0 ELSE c + 1
         /\ c # 3 => curr' = curr /\ (cpu_next' <=> cpu_next) /\ busy' = busy
         /\ c = 3 => IF cpu_req /\ cpu_next
                     THEN curr'.op = (IF memrd THEN "rd" ELSE "wr") /\ curr'.addr = addr
                     ELSE curr' = Nobody
         /\ c = 3 => busy' = (IF cpu_next' THEN 0 ELSE busy + 1)
         /\ Granted <=> c = 3 /\ cpu_next
         /\ (cpu_next <=> busy = 0) /\ (cpu_next' <=> busy' = 0)
         /\ busy \in 0 .. MaxBusy /\ busy' \in 0 .. MaxBusy
  <1>1. DramTypes /\ DramTypes' /\ DramStep
    BY DramTypesStep DEF IInv, Types, Tick
  <1> QED
    BY <1>1 DEF DramTypes, DramStep, Granted

-----------------------------------------------------------------------------
(* Each conjunct is kept: the edges, and the requests                      *)

LEMMA PhaseStep == ASSUME IInv, Tick PROVE Phase'
  <1>1. turbo \in {"3.5", "7", "14"} /\ turbo' \in {"3.5", "7", "14"}
    BY CycleTypesStep, TurboAssumption DEF IInv, Types, CycleTypes
  <1>2. CASE turbo' = turbo
    BY <1>1, <1>2, Clocks, Edges DEF Phase, Slow, pre_zpos, pre_zneg, IInv
  <1>3. CASE cyc' = "io" /\ t' \in {5, 6}
    BY <1>3, Edges DEF Phase, IInv
  <1> QED
    BY <1>2, <1>3, Speed

LEMMA BeginsOnceStep == ASSUME IInv, Tick PROVE BeginsOnce'
  <1>0. BeginsOnce /\ CycleTypes /\ Parity
    BY DEF IInv, Types
  <1>1. pre_ramreq_r' <=> IF zneg THEN ramreq ELSE pre_ramreq_r
    BY Regs
  <1>2. t' \in {2, 3} => ~pre_ramreq_r'
    BY <1>0, <1>1, Kinds, LastIs
    DEF BeginsOnce, Parity, Stays, Inner, Outer, NextEdge, NewCycle, ramreq, memrd, memwr,
        opfetch
  <1>3. memwr' /\ t' >= 4 => pre_ramreq_r'
    BY <1>0, <1>1, Within DEF BeginsOnce, Parity, Goes, ramreq, memwr
  <1>4. ASSUME memrd', t' >= 4 PROVE pre_ramreq_r' \/ (cache_hit' /\ cache_en')
    <2>1. Goes /\ memrd
      BY <1>0, <1>4, Within DEF memrd, opfetch, Goes, CycleTypes
    <2>2. cache_hit => cache_hit'
      BY <2>1, HitKept DEF Goes
    <2> QED
      BY <1>0, <1>1, <1>4, <2>1, <2>2 DEF BeginsOnce, Parity, Goes, ramreq
  <1> QED
    BY <1>2, <1>3, <1>4 DEF BeginsOnce

\* At 3.5 and 7 MHz an edge comes only in c1 or c3, and a rising one only in c3,
\* but in an I/O cycle.
LEMMA SlowEdge ==
  ASSUME IInv, Slow, cyc # "io"
  PROVE  (zpos => c = 3) /\ (zneg => c \in {1, 3})
  BY DEF IInv, Phase

\* A read's access goes on, or has just begun.
LEMMA ReadOn ==
  ASSUME IInv, Tick, memrd'
  PROVE  /\ Goes /\ cyc \in {"m1", "rd"} /\ turbo' = turbo /\ (Slow' <=> Slow)
         /\ (opfetch' <=> cyc = "m1")
         /\ t >= 2 => memrd /\ (cache_hit => cache_hit')
  <1>0. CycleTypes
    BY DEF IInv, Types
  <1>1. Goes /\ cyc \in {"m1", "rd"} /\ (opfetch' <=> cyc = "m1")
    BY <1>0, Within DEF memrd, opfetch, Goes
  <1>2. turbo' = turbo
    BY <1>1, Speed
  <1>3. t >= 2 => memrd
    BY <1>0, <1>1 DEF memrd, opfetch, Goes, CycleTypes
  <1>4. memrd /\ cache_hit => cache_hit'
    BY <1>1, HitKept DEF Goes
  <1> QED
    BY <1>1, <1>2, <1>3, <1>4 DEF Slow

\* A write's goes on.
LEMMA WriteOn ==
  ASSUME IInv, Tick, cyc' = "wr", t' >= 2
  PROVE  /\ Goes /\ cyc = "wr" /\ turbo' = turbo /\ (Slow' <=> Slow) /\ ~memrd
         /\ t >= 2 => d' = d
  <1>0. CycleTypes
    BY DEF IInv, Types
  <1>1. Goes
    BY Within
  <1>2. turbo' = turbo
    BY <1>1, Speed DEF Goes
  <1>3. t >= 2 => d' = d
    BY <1>0, Kinds DEF Stays, Inner, Outer, NextEdge, NewCycle
  <1> QED
    BY <1>1, <1>2, <1>3 DEF Slow, Goes, memrd, opfetch

LEMMA ReadingStep == ASSUME IInv, Tick PROVE Reading'
  <1> SUFFICES ASSUME curr'.op = "rd" PROVE Reading'
    BY DEF Reading
  <1>0. CycleTypes /\ Parity /\ Reading
    BY DEF IInv, Types
  <1>1. CASE c = 3
    <2>1. Granted /\ cpu_req /\ memrd /\ curr'.addr = addr /\ c' = 0
      BY <1>1, Clocks DEF Nobody
    <2>2. cyc \in {"m1", "rd"} /\ turbo' = turbo
      BY <2>1, Speed DEF memrd, opfetch
    <2>3. CASE Slow
      <3>1. t = 2
        BY <2>1, <2>3, SlowStall, Asks DEF cpureq_357
      <3> QED
        BY <1>0, <2>1, <2>2, <2>3, <3>1, Kinds, LastIs
        DEF Reading, Stays, Inner, Outer, NextEdge, memrd, opfetch, Same, Slow, CycleTypes
    <2>4. CASE ~Slow
      <3>1. cpu_stall /\ ((t = 3 /\ zneg) \/ (t = 4 /\ ~zpos))
        BY <2>1, <2>2, <2>4, FastStall, Begins DEF IInv, FastPending
      <3>2. t' = 4 /\ ~zpos' /\ cyc' = cyc /\ addr' = addr
        BY <1>0, <2>2, <3>1, Edges, Kinds, LastIs
        DEF IInv, Parity, Stays, Inner, Outer, NextEdge, CycleTypes
      <3>3. stall14_fin'
        BY <1>1, <2>1, Regs DEF FinEnds
      <3> QED
        BY <2>1, <2>2, <2>4, <3>2, <3>3 DEF Reading, memrd, opfetch, Same, Slow
    <2> QED
      BY <2>3, <2>4
  <1>2. CASE c # 3
    <2>1. curr' = curr /\ c' = c + 1 /\ c \in 0 .. 2
      BY <1>2, Clocks
    <2>2. memrd /\ Same /\ t <= 4 /\ cyc \in {"m1", "rd"} /\ turbo' = turbo
      BY <1>0, <2>1, Speed DEF Reading, memrd, opfetch
    <2>3. CASE Slow
      <3>1. c # 1 => ~zpos /\ ~zneg
        BY <2>1, <2>2, <2>3, SlowEdge
      <3>2. c = 1 => t <= 3
        BY <1>0, <2>1, <2>3 DEF Reading
      <3>3. cyc' = cyc /\ addr' = addr /\ t' \in {t, t + 1} /\ (c # 1 => t' = t)
        BY <1>0, <2>2, <3>1, <3>2, Kinds, LastIs DEF Stays, Inner, Outer, NextEdge, CycleTypes
      <3>4. memrd' /\ t' <= 4
        BY <1>0, <2>1, <2>2, <3>2, <3>3 DEF memrd, opfetch, CycleTypes
      <3>5. c' <= 1 => t' <= 3
        BY <1>0, <2>1, <2>3, <3>3 DEF Reading
      <3> QED
        BY <2>1, <2>2, <2>3, <3>3, <3>4, <3>5 DEF Reading, Same, Slow
    <2>4. CASE ~Slow
      <3>1. t = 4 /\ ~zpos /\ ~zneg
        BY <1>0, <2>1, <2>4 DEF Reading, Parity
      <3>2. t' = 4 /\ cyc' = cyc /\ addr' = addr
        BY <3>1, Kinds DEF Stays, Inner, Outer
      <3>3. c <= 1 => ~zpos'
        BY <1>0, <2>1, <2>4, FastStall, Edges DEF Reading, IInv
      <3>4. c = 0 => stall14_fin'
        BY <1>0, <2>1, <2>4, Regs DEF Reading, FinEnds
      <3> QED
        BY <2>1, <2>2, <2>4, <3>2, <3>3, <3>4 DEF Reading, memrd, opfetch, Same, Slow
    <2> QED
      BY <2>3, <2>4
  <1> QED
    BY <1>1, <1>2

LEMMA WritingStep == ASSUME IInv, Tick PROVE Writing'
  <1> SUFFICES ASSUME curr'.op = "wr", c' = 0 PROVE Writing'
    BY DEF Writing
  <1>0. CycleTypes /\ Parity /\ WroteIt
    BY DEF IInv, Types
  <1>1. Granted /\ cpu_req /\ ~memrd /\ curr'.addr = addr
    BY Clocks DEF Nobody
  <1>2. cyc = "wr" /\ t >= 2
    <2>1. CASE Slow
      BY <2>1, <1>1, SlowStall DEF ramreq, memwr
    <2>2. CASE ~Slow /\ dram_beg
      BY <2>2, <1>1, Begins DEF ramreq, memwr
    <2>3. CASE ~Slow /\ pending_cpu_req
      BY <2>3, <1>1, Clocks DEF IInv, FastPending
    <2> QED
      BY <1>1, <2>1, <2>2, <2>3, FastStall
  <1>3. \/ cyc' = "wr" /\ t' >= 2 /\ addr' = addr
        \/ t = 6 /\ t' = 1 /\ d' = d /\ want' = want
    BY <1>0, <1>2, Kinds, LastIs DEF Stays, Inner, Outer, NextEdge, NewCycle, CycleTypes
  <1> QED
    BY <1>0, <1>1, <1>2, <1>3 DEF Writing, WroteIt, Same

LEMMA WaitingStep == ASSUME IInv, Tick PROVE Waiting'
  <1>0. Waiting /\ Reading
    BY DEF IInv
  <1>1. stall14_cycrd' => pending_cpu_req'
    BY <1>0, Regs DEF Waiting
  <1>2. ASSUME Granted, cpu_req, memrd PROVE curr'.op = "rd" /\ c' = 0
    BY <1>2, Clocks
  <1>3. ASSUME stall14_fin, ~FinEnds
        PROVE  curr'.op = "rd" /\ c' <= IF opfetch' THEN 1 ELSE 2
    <2>1. memrd /\ curr.op = "rd" /\ c <= (IF opfetch THEN 1 ELSE 2)
      BY <1>0, <1>3 DEF Waiting, Reading
    <2>2. c' = c + 1 /\ curr' = curr /\ c <= (IF opfetch THEN 0 ELSE 1)
      BY <1>3, <2>1, Clocks DEF FinEnds
    <2>3. opfetch' => opfetch
      <3>1. opfetch' => cyc = "m1"
        BY ReadOn DEF memrd
      <3> QED
        BY <2>1, <3>1 DEF memrd
    <2> QED
      BY <2>1, <2>2, <2>3, Clocks
  <1>4. ASSUME ~Slow', stall14_fin' PROVE ~pending_cpu_req'
    <2>1. stall14_fin \/ (Granted /\ cpu_req /\ memrd)
      BY <1>4, Regs
    <2>2. memrd /\ ~Slow
      <3>1. memrd
        BY <1>0, <2>1 DEF Waiting, Reading
      <3> QED
        BY <1>4, <3>1, Speed DEF memrd, opfetch, Slow
    <2>3. stall14_fin => ~dram_beg /\ ~pending_cpu_req
      BY <1>0, <2>2, Begins, Clocks DEF Waiting, Reading
    <2> QED
      BY <2>1, <2>3, Regs
  <1> QED
    BY <1>1, <1>2, <1>3, <1>4, Regs DEF Waiting

\* What a write has put in memory, or is about to, is there after the step.
LEMMA WroteKept ==
  ASSUME IInv, Tick, cyc' = "wr", t >= 2, t' >= 2, Wrote
  PROVE  Wrote'
  <1>1. d' = d /\ addr' = addr /\ ~memrd /\ addr \in Addrs /\ mem \in [Addrs -> Data]
    BY WriteOn DEF Goes, IInv, Types, CycleTypes, DramTypes
  <1>2. mem' = IF c = 0 /\ curr.op = "wr" THEN [mem EXCEPT ![curr.addr] = d] ELSE mem
    BY <1>1 DEF Tick, DramStep
  <1> QED
    BY <1>1, <1>2 DEF Wrote, Same

\* A granted write is the cycle that begins.
LEMMA Put ==
  ASSUME IInv, Tick, Granted, cpu_req, ~memrd, addr' = addr
  PROVE  Wrote'
  BY Clocks DEF Wrote, Same

LEMMA SlowAsksStep == ASSUME IInv, Tick PROVE SlowAsks'
  <1> SUFFICES ASSUME Slow' PROVE SlowAsks'
    BY DEF SlowAsks
  <1>0. CycleTypes /\ Parity
    BY DEF IInv, Types
  <1>1. CASE turbo' # turbo
    <2>1. cyc' = "io" /\ t' \in {5, 6}
      BY <1>1, Speed
    <2> QED
      BY <2>1 DEF SlowAsks, memrd, memwr, opfetch, cpureq_357, ramreq
  <1>2. CASE turbo' = turbo
    <2>0. Slow /\ SlowAsks
      BY <1>2 DEF Slow, IInv
    <2>1. ramreq_r' <=> IF c = 3 /\ ~cpu_stall THEN ramreq ELSE ramreq_r
      BY Regs
    <2>2. ASSUME t' = 1 PROVE ~ramreq_r'
      <3>1. CASE t = 1
        BY <2>0, <2>1, <3>1 DEF SlowAsks, ramreq, memrd, memwr, opfetch
      <3>2. CASE t # 1
        <4>1. (zpos \/ zneg) /\ t = LastEdge[cyc] /\ (cyc = "t" <=> t = 2) /\ t \in {2, 6, 8}
            BY <1>0, <2>2, <3>2, Kinds, LastIs DEF Stays, Inner, Outer, NextEdge, CycleTypes
        <4>2. ~ramreq /\ zpos
          BY <1>0, <4>1 DEF Parity, ramreq, memrd, memwr, opfetch
        <4>3. c = 3
          BY <1>0, <2>0, <4>1, <4>2, LastIs DEF IInv, Phase, CycleTypes
        <4> QED
          BY <2>0, <2>1, <4>2, <4>3, SlowStall
      <3> QED
        BY <3>1, <3>2
    <2>3. ASSUME memrd', t' >= 3 PROVE ramreq_r' \/ (cache_hit' /\ cache_en')
      <3>1. Goes /\ t >= 2 /\ memrd /\ (cache_hit => cache_hit') /\ cyc # "io"
        <4>1. Goes /\ cyc # "io"
          BY <2>3, ReadOn
        <4>2. t >= 2
          BY <1>0, <2>3, <4>1 DEF Goes, CycleTypes
        <4> QED
          BY <2>3, <4>1, <4>2, ReadOn
      <3>2. CASE cache_hit /\ cache_en
        BY <3>1, <3>2 DEF Goes
      <3>3. CASE ~(cache_hit /\ cache_en)
        <4>1. ramreq
          BY <3>1, <3>3 DEF ramreq
        <4>2. CASE t >= 3
          BY <2>0, <2>1, <3>1, <3>3, <4>1, <4>2 DEF SlowAsks
        <4>3. CASE t = 2
          <5>1. zpos /\ c = 3
            BY <1>0, <2>0, <2>3, <3>1, <4>3, SlowEdge DEF Goes, Parity
          <5> QED
            BY <2>0, <2>1, <4>1, <5>1, SlowStall DEF SlowAsks, cpureq_357
        <4> QED
          BY <1>0, <3>1, <4>2, <4>3 DEF CycleTypes
      <3> QED
        BY <3>2, <3>3
    <2>4. ASSUME memwr', t' >= 3 PROVE ramreq_r'
      <3>1. Goes /\ t >= 2 /\ memwr /\ cyc # "io"
        <4>1. Goes /\ cyc = "wr"
          BY <2>4, WriteOn DEF memwr
        <4> QED
          BY <1>0, <2>4, <4>1 DEF Goes, CycleTypes, memwr
      <3>2. ramreq
        BY <3>1 DEF ramreq
      <3>3. CASE t >= 3
        BY <2>0, <2>1, <3>1, <3>2, <3>3 DEF SlowAsks
      <3>4. CASE t = 2
        <4>1. zpos /\ c = 3
          BY <1>0, <2>0, <2>4, <3>1, <3>4, SlowEdge DEF Goes, Parity
        <4> QED
          BY <2>0, <2>1, <3>2, <4>1, SlowStall DEF SlowAsks, cpureq_357
      <3> QED
        BY <1>0, <3>1, <3>3, <3>4 DEF CycleTypes
    <2>5. ASSUME zpos', cpureq_357' PROVE cpu_next'
      <3>1. c = 2 /\ ~cpu_stall
        BY <2>0, <2>5, Edges, CycleTypesStep, TurboAssumption DEF IInv, pre_zpos, Slow
      <3>2. (cpu_next' <=> cpu_next) /\ (ramreq_r' <=> ramreq_r)
        BY <2>1, <3>1, Clocks
      <3>3. ramreq' /\ ~ramreq_r
        BY <2>5, <3>2 DEF cpureq_357
      <3>4. ramreq
        <4>1. CASE memwr'
          <5>1. Goes /\ cyc = "wr"
            BY <4>1, WriteOn DEF memwr
          <5>2. t' = t
            BY <2>0, <3>1, <5>1, SlowEdge DEF Goes
          <5> QED
            BY <4>1, <5>1, <5>2 DEF ramreq, memwr
        <4>2. CASE memrd' /\ ~(cache_hit' /\ cache_en')
          <5>1. Goes /\ cyc # "io"
            BY <4>2, ReadOn
          <5>2. t' = t
            BY <2>0, <3>1, <5>1, SlowEdge DEF Goes
          <5>3. t >= 2
            BY <1>0, <4>2, <5>2 DEF memrd, opfetch, CycleTypes
          <5>4. memrd /\ (cache_hit => cache_hit')
            BY <4>2, <5>3, ReadOn
          <5> QED
            BY <4>2, <5>1, <5>4 DEF Goes, ramreq
        <4> QED
          BY <3>3, <4>1, <4>2 DEF ramreq
      <3> QED
        BY <2>0, <3>1, <3>2, <3>3, <3>4, SlowStall
    <2> QED
      BY <2>2, <2>3, <2>4, <2>5 DEF SlowAsks
  <1> QED
    BY <1>1, <1>2

LEMMA SlowServedStep == ASSUME IInv, Tick PROVE SlowServed'
  <1> SUFFICES ASSUME Slow' PROVE SlowServed'
    BY DEF SlowServed
  <1>0. CycleTypes /\ Parity
    BY DEF IInv, Types
  <1>1. ramreq_r' <=> IF c = 3 /\ ~cpu_stall THEN ramreq ELSE ramreq_r
    BY Regs
  <1>2. ASSUME memrd', ramreq_r' PROVE curr'.op = "rd" \/ cache_hit'
    <2>1. Slow /\ Goes /\ (t >= 2 => memrd /\ (cache_hit => cache_hit'))
      BY <1>2, ReadOn
    <2>2. t >= 2
      BY <1>0, <1>1, <1>2, <2>1 DEF IInv, SlowAsks, ramreq, memrd, memwr, opfetch, CycleTypes
    <2>3. CASE ramreq_r
      BY <2>1, <2>2, <2>3, Clocks, Filled DEF IInv, SlowServed, Goes
    <2>4. CASE ~ramreq_r
      BY <1>1, <1>2, <2>1, <2>2, <2>4, Clocks, SlowStall
    <2> QED
      BY <2>3, <2>4
  <1>3. ASSUME cyc' = "rd", t' = 5 PROVE cache_hit'
    <2>1. memrd' /\ t' >= 3
      BY <1>3 DEF memrd
    <2>2. Slow /\ Goes /\ (t >= 2 => memrd /\ (cache_hit => cache_hit')) /\ cyc # "io"
      BY <2>1, ReadOn
    <2>3. cyc = "rd" /\ t \in {4, 5} /\ memrd /\ (cache_hit => cache_hit')
      BY <1>0, <1>3, <2>2 DEF Goes, CycleTypes
    <2>4. CASE t = 5
      BY <2>2, <2>3, <2>4 DEF IInv, SlowServed
    <2>5. CASE t = 4
      <3>1. c = 3
        BY <1>0, <1>3, <2>2, <2>5, SlowEdge DEF Goes, Parity
      <3>2. ramreq_r \/ cache_hit
        BY <2>2, <2>3, <2>5 DEF IInv, SlowAsks
      <3> QED
        BY <2>2, <2>3, <3>1, <3>2, Filled DEF IInv, SlowServed, Goes
    <2> QED
      BY <2>3, <2>4, <2>5
  <1>4. ASSUME memwr', ramreq_r' PROVE Wrote'
    <2>1. Slow /\ Goes /\ cyc = "wr" /\ ~memrd /\ cyc' = "wr" /\ t' >= 2
      BY <1>4, WriteOn DEF memwr
    <2>2. t >= 2 /\ memwr
      BY <1>0, <1>1, <1>4, <2>1 DEF IInv, SlowAsks, ramreq, memwr, CycleTypes, Goes
    <2>3. CASE ramreq_r
      BY <2>1, <2>2, <2>3, WroteKept DEF IInv, SlowServed
    <2>4. CASE ~ramreq_r
      BY <1>1, <1>4, <2>1, <2>2, <2>4, Clocks, SlowStall, Put DEF Goes
    <2> QED
      BY <2>3, <2>4
  <1>5. ASSUME cyc' = "wr", t' = 6 PROVE Wrote'
    <2>1. Slow /\ Goes /\ cyc = "wr" /\ t \in {5, 6}
      BY <1>0, <1>5, WriteOn DEF Goes, CycleTypes
    <2>2. Wrote
      BY <2>1 DEF IInv, SlowServed, SlowAsks, memwr
    <2> QED
      BY <1>5, <2>1, <2>2, WroteKept
  <1> QED
    BY <1>2, <1>3, <1>4, <1>5 DEF SlowServed

\* A request left over from 3.5 or 7 MHz does not reach 14 MHz: here the bound on
\* the video's cycles is needed.
LEMMA FastPendingStep == ASSUME IInv, Tick, NothingLeftOver PROVE FastPending'
  <1> SUFFICES ASSUME ~Slow', pending_cpu_req' PROVE FastPending'
    BY DEF FastPending
  <1>0. CycleTypes /\ Parity
    BY DEF IInv, Types
  <1>1. ~Granted /\ (dram_beg \/ pending_cpu_req)
    BY Regs
  <1>2. ~Slow
    <2> SUFFICES ASSUME Slow PROVE FALSE
      OBVIOUS
    <2>1. cyc = "io" /\ t = 5
      BY Speed DEF Slow
    <2>2. pending_cpu_req
      BY <1>1, <2>1, Begins
    <2>3. turbo' = "14" /\ turbo # "14" /\ turbo \in Turbos /\ turbo' \in Turbos
      BY <1>0, CycleTypesStep DEF Slow, CycleTypes, IInv
    <2>4. MaxBusy <= 3
      BY <2>3 DEF NothingLeftOver
    <2> QED
      BY <2>1, <2>2, <2>4, Clocks, BusyAssumption DEF IInv, Leftover, Age
  <1>3. CASE dram_beg
    <2>1. t = 3 /\ zneg /\ cyc \in {"m1", "rd", "wr"} /\ (cyc = "wr" \/ memrd)
      BY <1>3, Begins DEF ramreq, memwr
    <2>2. t' = 4 /\ cyc' = cyc
      BY <1>0, <2>1, Kinds, LastIs DEF Stays, Inner, Outer, NextEdge, CycleTypes
    <2>3. CASE memrd
      <3>1. ~zpos' /\ stall14_cycrd' /\ memrd'
        BY <1>1, <1>2, <1>3, <2>1, <2>2, <2>3, FastStall, Edges, Regs
        DEF memrd, opfetch, IInv
      <3> QED
        BY <2>2, <3>1 DEF FastPending
    <2>4. CASE ~memrd
      <3>1. ~cpu_next => ~zpos'
        BY <1>2, <1>3, <2>4, FastStall, Edges DEF IInv
      <3>2. cyc' = "wr"
        BY <2>1, <2>2, <2>4
      <3> QED
        BY <1>1, <2>2, <3>1, <3>2, Clocks DEF FastPending
    <2> QED
      BY <2>3, <2>4
  <1>4. CASE pending_cpu_req
    <2>1. CASE memrd
      <3>1. stall14_cycrd /\ t = 4 /\ ~zpos /\ ~zneg
        BY <1>0, <1>2, <1>4, <2>1 DEF IInv, FastPending, Parity, memrd, opfetch
      <3>2. cyc' = cyc /\ t' = t
        BY <3>1, Kinds DEF Stays, Inner, Outer
      <3>3. ~zpos' /\ stall14_cycrd' /\ memrd'
        BY <1>1, <1>2, <2>1, <3>1, <3>2, FastStall, Edges, Regs DEF memrd, opfetch, IInv
      <3> QED
        BY <3>1, <3>2, <3>3 DEF FastPending
    <2>2. CASE cyc = "wr" /\ ~cpu_next
      <3>1. t = 4 /\ ~zpos /\ ~zneg /\ ~memrd
        BY <1>0, <1>2, <1>4, <2>2 DEF IInv, FastPending, Parity, memrd, opfetch
      <3>2. cyc' = cyc /\ t' = t
        BY <3>1, Kinds DEF Stays, Inner, Outer
      <3>3. ~zpos'
        BY <1>2, <2>2, <3>1, FastStall, Edges DEF IInv
      <3> QED
        BY <2>2, <3>1, <3>2, <3>3, Clocks DEF FastPending
    <2>3. CASE cyc = "wr" /\ cpu_next
      <3>1. t \in 4 .. 6 /\ t <= c + 3 + (IF c = 0 THEN 1 ELSE 0) /\ (c = 0 => ~zpos)
        BY <1>2, <1>4, <2>3 DEF IInv, FastPending, memrd, opfetch
      <3>2. c' = c + 1 /\ cpu_next' /\ c \in 0 .. 2
        BY <1>1, <2>3, Clocks
      <3>3. cyc' = "wr" /\ (t' = t \/ (t' = t + 1 /\ (zpos \/ zneg)))
        BY <2>3, <3>1, <3>2, Kinds, LastIs DEF Stays, Inner, Outer, NextEdge, Cycles
      <3>4. c = 0 => t' = 4
        BY <1>0, <3>1, <3>3 DEF Parity
      <3> QED
        BY <3>1, <3>2, <3>3, <3>4 DEF FastPending
    <2> QED
      BY <1>2, <1>4, <2>1, <2>2, <2>3 DEF IInv, FastPending
  <1> QED
    BY <1>1, <1>3, <1>4

LEMMA LeftoverStep == ASSUME IInv, Tick PROVE Leftover'
  <1> SUFFICES ASSUME MaxBusy <= 3, Slow', pending_cpu_req' PROVE Leftover'
    BY DEF Leftover
  <1>0. CycleTypes /\ Parity
    BY DEF IInv, Types
  <1>1. ~Granted /\ (dram_beg \/ pending_cpu_req)
    BY Regs
  <1>2. Slow
    <2> SUFFICES ASSUME ~Slow PROVE FALSE
      OBVIOUS
    <2>1. cyc = "io"
      BY Speed DEF Slow
    <2> QED
      BY <1>1, <2>1, Begins DEF IInv, FastPending, memrd, opfetch
  <1>3. CASE dram_beg
    <2>1. t = 3 /\ zneg /\ cyc \in {"m1", "rd", "wr"}
      BY <1>3, Begins
    <2>2. t' = 4 /\ cyc' = cyc
      BY <1>0, <2>1, Kinds, LastIs DEF Stays, Inner, Outer, NextEdge, CycleTypes
    <2>3. Age' = 0
      BY <2>1, <2>2 DEF Age
    <2> QED
      BY <2>3, Clocks, BusyAssumption DEF Leftover
  <1>4. CASE ~dram_beg
    <2>1. IF cpu_next THEN Age <= 3 ELSE busy >= Age + 1
      BY <1>1, <1>2, <1>4 DEF IInv, Leftover
    <2>2. Age \in 0 .. 2 \/ (Age = 3 /\ cpu_next)
      BY <2>1, Clocks, BusyAssumption DEF Age
    <2>3. Age' \in 0 .. 4 /\ Age' <= Age + 1
      BY <1>0, Kinds, LastIs, CycleTypesStep
      DEF Age, Stays, Inner, Outer, NextEdge, NewCycle, CycleTypes
    <2>4. Age' > Age => zpos
      BY <1>0, Kinds, LastIs, CycleTypesStep
      DEF Age, Stays, Inner, Outer, NextEdge, CycleTypes, Parity
    <2>5. zpos /\ Age <= 3 => c = 3
      BY <1>2 DEF IInv, Phase, Age
    <2> QED
      BY <1>1, <2>1, <2>2, <2>3, <2>4, <2>5, Clocks, BusyAssumption DEF Leftover
  <1> QED
    BY <1>3, <1>4

LEMMA FastServedStep == ASSUME IInv, Tick PROVE FastServed'
  <1> SUFFICES ASSUME ~Slow' PROVE FastServed'
    BY DEF FastServed
  <1>0. CycleTypes /\ Parity
    BY DEF IInv, Types
  <1>1. pending_cpu_req' <=> ~Granted /\ (dram_beg \/ pending_cpu_req)
    BY Regs
  <1>2. ASSUME memrd', t' >= 4
        PROVE  \/ cache_hit' \/ pending_cpu_req'
               \/ curr'.op = "rd" /\ (c' >= 2 \/ stall14_fin')
    <2>1. ~Slow /\ Goes /\ (t >= 2 => memrd /\ (cache_hit => cache_hit'))
      BY <1>2, ReadOn
    <2>2. t >= 3 /\ memrd /\ (cache_hit => cache_hit')
      BY <1>0, <1>2, <2>1 DEF Goes, CycleTypes
    <2>3. ASSUME dram_beg \/ pending_cpu_req, ~pending_cpu_req'
          PROVE  curr'.op = "rd" /\ stall14_fin'
      <3>1. Granted /\ cpu_req
        BY <1>1, <2>1, <2>3, FastStall
      <3> QED
        BY <2>2, <3>1, Clocks, Regs DEF FinEnds
    <2>4. CASE t = 3
      <3>1. zneg
        BY <1>0, <1>2, <2>1, <2>4 DEF Goes, Parity
      <3>2. dram_beg \/ cache_hit
        BY <2>2, <2>4, <3>1 DEF IInv, BeginsOnce, dram_beg, ramreq
      <3> QED
        BY <2>1, <2>2, <2>3, <3>2
    <2>5. CASE t >= 4
      <3>1. \/ cache_hit \/ pending_cpu_req
            \/ curr.op = "rd" /\ (c >= 2 \/ stall14_fin)
        BY <2>1, <2>2, <2>5 DEF IInv, FastServed
      <3>2. ASSUME curr.op = "rd", c >= 2 \/ stall14_fin
            PROVE  cache_hit' \/ (curr'.op = "rd" /\ (c' >= 2 \/ stall14_fin'))
        <4>1. CASE c = 3
          BY <2>1, <3>2, <4>1, Filled DEF Goes
        <4>2. CASE c \in {1, 2}
          BY <3>2, <4>2, Clocks
        <4>3. CASE c = 0
          BY <3>2, <4>3, Clocks, Regs DEF FinEnds
        <4> QED
          BY <4>1, <4>2, <4>3, Clocks
      <3> QED
        BY <2>1, <2>2, <2>3, <3>1, <3>2
    <2> QED
      BY <1>0, <2>2, <2>4, <2>5 DEF CycleTypes
  <1>3. ASSUME cyc' = "rd", t' = 5 PROVE cache_hit'
    <2>1. memrd'
      BY <1>3 DEF memrd
    <2>2. ~Slow /\ Goes /\ (t >= 2 => memrd /\ (cache_hit => cache_hit'))
      BY <2>1, ReadOn
    <2>3. cyc = "rd" /\ t \in {4, 5} /\ memrd /\ (cache_hit => cache_hit')
      BY <1>0, <1>3, <2>2 DEF Goes, CycleTypes
    <2>4. CASE t = 5
      BY <2>2, <2>3, <2>4 DEF IInv, FastServed
    <2>5. CASE t = 4
      <3>1. zpos
        BY <1>0, <1>3, <2>2, <2>5 DEF Goes, Parity
      <3>2. ~pending_cpu_req
        BY <2>2, <2>3, <3>1 DEF IInv, FastPending
      <3>3. cache_hit \/ curr.op = "rd"
        BY <2>2, <2>3, <2>5, <3>2 DEF IInv, FastServed
      <3>4. curr.op = "rd" => c = 3
        BY <2>2, <3>1, Clocks DEF IInv, Reading
      <3> QED
        BY <2>2, <2>3, <3>3, <3>4, Filled DEF Goes
    <2> QED
      BY <2>3, <2>4, <2>5
  <1>4. ASSUME cyc' = "wr", t' >= 4 PROVE Wrote' \/ pending_cpu_req'
    <2>0. t' \in Nat /\ t' >= 2
      BY <1>4, CycleTypesStep, LastIs DEF IInv, CycleTypes
    <2>1. ~Slow /\ Goes /\ cyc = "wr" /\ ~memrd
      BY <1>4, <2>0, WriteOn
    <2>2. t >= 3
      BY <1>0, <1>4, <2>1 DEF Goes, CycleTypes
    <2>3. dram_beg \/ pending_cpu_req \/ Wrote
      <3>1. CASE t >= 4
        BY <2>1, <3>1 DEF IInv, FastServed
      <3>2. CASE t = 3
        <4>1. zneg
          BY <1>0, <1>4, <2>1, <3>2 DEF Goes, Parity
        <4> QED
          BY <2>1, <3>2, <4>1 DEF IInv, BeginsOnce, dram_beg, ramreq, memwr
      <3> QED
        BY <1>0, <2>2, <3>1, <3>2 DEF CycleTypes
    <2>4. Wrote => Wrote'
      BY <1>0, <1>4, <2>0, <2>2, WroteKept DEF CycleTypes
    <2>5. Granted /\ cpu_req => Wrote'
      BY <2>1, Put DEF Goes
    <2> QED
      BY <1>1, <2>1, <2>3, <2>4, <2>5, FastStall
  <1> QED
    BY <1>2, <1>3, <1>4 DEF FastServed

\* At 14 MHz a read that is waited for is the access in progress, and its datum has
\* not been taken.
LEMMA Held ==
  ASSUME IInv, ~Slow, memrd, dram_beg \/ stall14_cycrd \/ stall14_fin
  PROVE  /\ ~Takes /\ cpu_stall /\ t \in {3, 4}
         /\ stall14_cycrd \/ stall14_fin => t = 4 /\ ~zpos /\ ~zneg
         /\ stall14_fin => ~dram_beg /\ ~stall14_cycrd /\ c <= 2
  <1>0. Parity /\ Waiting /\ Reading
    BY DEF IInv
  <1>1. dram_beg => t = 3
    BY Begins
  <1>2. stall14_cycrd => t = 4 /\ ~zpos
    BY <1>0 DEF IInv, FastPending, Waiting, memrd, opfetch
  <1>3. stall14_fin => t = 4 /\ ~zpos /\ c <= 2
    BY <1>0, Clocks DEF IInv, Waiting, Reading, Types, DramTypes
  <1>4. t \in {3, 4} /\ (t = 4 => ~zneg) /\ (t = 3 => ~zpos)
    BY <1>0, <1>1, <1>2, <1>3 DEF Parity
  <1>5. ~Takes
    BY <1>1, <1>2, <1>3, <1>4 DEF Takes
  <1>6. stall14_fin => ~stall14_cycrd
    BY <1>0 DEF Waiting
  <1> QED
    BY <1>1, <1>2, <1>3, <1>4, <1>5, <1>6, FastStall

\* Remember, by cases.
LEMMA Remembers ==
  ASSUME Tick
  PROVE  /\ Slow \/ Takes \/ ~memrd => beg' = None /\ waits' = 0
         /\ ~Slow /\ ~Takes /\ memrd =>
              IF (dram_beg \/ stall14_cycrd) /\ ~cpu_next THEN beg' = 0 /\ waits' = 0
              ELSE IF dram_beg THEN beg' = c /\ waits' = 1
              ELSE beg' = beg /\ waits' = IF cpu_stall THEN waits + 1 ELSE waits
  BY DEF Tick, Remember, Slow

LEMMA WaitsStep == ASSUME IInv, Tick PROVE Waits'
  <1>0. CycleTypes /\ Parity /\ Waiting /\ Reading /\ Waits
    BY DEF IInv, Types
  <1>1. CASE Slow \/ Takes \/ ~memrd
    <2>1. beg' = None /\ waits' = 0
      BY <1>1, Remembers
    <2>2. ASSUME ~Slow', memrd', stall14_cycrd' \/ stall14_fin' PROVE FALSE
      <3>1. ~Slow /\ (t >= 2 => memrd)
        BY <2>2, ReadOn
      <3>2. (dram_beg /\ memrd) \/ stall14_cycrd \/ stall14_fin \/ (Granted /\ cpu_req /\ memrd)
        BY <2>2, Regs
      <3>3. stall14_cycrd => pending_cpu_req /\ cyc # "wr"
        BY <1>0, <2>2, ReadOn DEF Waiting
      <3>4. memrd
        BY <1>0, <3>1, <3>2, <3>3 DEF IInv, FastPending, Waiting, Reading
      <3>5. dram_beg \/ stall14_cycrd \/ stall14_fin
        BY <3>1, <3>2, <3>3, <3>4, FastStall DEF IInv, FastPending, memrd, opfetch
      <3> QED
        BY <1>1, <3>1, <3>4, <3>5, Held
    <2> QED
      BY <2>1, <2>2 DEF Waits, None
  <1>2. CASE ~Slow /\ ~Takes /\ memrd
    <2>0. cyc \in {"m1", "rd"} /\ turbo' = turbo /\ ~Slow'
      BY <1>2, Speed DEF memrd, opfetch, Slow
    <2>1. cyc' = cyc /\ (t' = t \/ t' = t + 1) /\ (t' # t => zpos \/ zneg)
      BY <1>0, <1>2, Kinds, LastIs DEF Stays, Inner, Outer, NextEdge, memrd, opfetch, CycleTypes
    <2>2. memrd' /\ (opfetch' <=> opfetch)
      BY <1>0, <1>2, <2>0, <2>1 DEF Parity, memrd, opfetch, Takes
    <2>3. pending_cpu_req <=> stall14_cycrd
      BY <1>0, <1>2, <2>0 DEF IInv, FastPending, Waiting
    <2>4. CASE (dram_beg \/ stall14_cycrd) /\ ~cpu_next
      <3>1. beg' = 0 /\ waits' = 0
        BY <1>2, <2>4, Remembers
      <3>2. stall14_cycrd' /\ (cpu_next' => c' = 0)
        BY <1>2, <2>4, Regs, Clocks
      <3>3. t' = 4
        BY <1>0, <1>2, <2>1, <2>4, Begins, Held, Kinds, LastIs
        DEF Stays, Inner, Outer, NextEdge, CycleTypes
      <3> QED
        BY <2>0, <2>2, <3>1, <3>2, <3>3 DEF Waits, None
    <2>5. CASE dram_beg /\ cpu_next
      <3>1. beg' = c /\ waits' = 1
        BY <1>2, <2>5, Remembers
      <3>2. t' = 4
        BY <1>0, <2>0, <2>5, Begins, Kinds, LastIs DEF Stays, Inner, Outer, NextEdge, CycleTypes
      <3>3. CASE c = 3
        <4>1. Granted /\ cpu_req /\ c' = 0
          BY <1>2, <2>5, <3>3, FastStall, Clocks
        <4>2. ~stall14_cycrd' /\ stall14_fin'
          BY <1>2, <3>3, <4>1, Regs DEF FinEnds
        <4> QED
          BY <2>0, <2>2, <3>1, <3>2, <3>3, <4>1, <4>2 DEF Waits, None
      <3>4. CASE c # 3
        <4>1. stall14_cycrd' /\ cpu_next' /\ c' = c + 1 /\ c \in 0 .. 2
          BY <1>2, <2>5, <3>4, Regs, Clocks
        <4> QED
          BY <2>0, <2>2, <3>1, <3>2, <4>1 DEF Waits, None
      <3> QED
        BY <3>3, <3>4
    <2>6. CASE ~dram_beg /\ (stall14_cycrd => cpu_next)
      <3>1. beg' = beg /\ waits' = IF cpu_stall THEN waits + 1 ELSE waits
        BY <1>2, <2>6, Remembers
      <3>2. cpu_req <=> stall14_cycrd
        BY <1>2, <2>3, <2>6, FastStall
      <3>3. cpu_stall <=> stall14_cycrd \/ stall14_fin
        BY <1>2, <2>6, FastStall
      <3>4. t' <= 3 => t <= 3
        BY <1>0, <2>1 DEF CycleTypes
      <3>5. CASE stall14_cycrd /\ c = 3
        <4>1. Granted /\ cpu_req /\ c' = 0
          BY <2>6, <3>2, <3>5, Clocks
        <4>2. ~stall14_cycrd' /\ stall14_fin'
          BY <1>2, <3>5, <4>1, Regs DEF FinEnds
        <4>3. t' = 4
          BY <1>2, <3>5, Held, <2>1
        <4>4. beg \in 0 .. 3 /\ waits = 3 - beg
          BY <1>0, <1>2, <2>6, <3>5 DEF Waits, None
        <4> QED
          BY <2>0, <2>2, <3>1, <3>3, <3>5, <4>1, <4>2, <4>3, <4>4 DEF Waits, None
      <3>6. CASE stall14_cycrd /\ c # 3
        <4>1. stall14_cycrd' /\ cpu_next' /\ c' = c + 1 /\ c \in 0 .. 2
          BY <2>6, <3>6, Regs, Clocks
        <4>2. t' = 4
          BY <1>2, <3>6, Held, <2>1
        <4>3. beg \in 0 .. 3 /\ waits = c - beg /\ beg <= c
          BY <1>0, <1>2, <2>6, <3>6 DEF Waits, None
        <4> QED
          BY <2>0, <2>2, <3>1, <3>3, <3>6, <4>1, <4>2, <4>3 DEF Waits, None
      <3>7. CASE ~stall14_cycrd /\ stall14_fin
        <4>1. ~stall14_cycrd' /\ c \in 0 .. 2 /\ c' = c + 1 /\ ~Granted
          BY <1>2, <2>6, <3>7, Regs, Clocks, Held
        <4>2. stall14_fin' <=> ~FinEnds
          BY <3>7, <4>1, Regs
        <4>3. t' = 4
          BY <1>2, <3>7, Held, <2>1
        <4>4. beg \in 0 .. 3 /\ waits = (4 - beg) + c /\ c <= (IF opfetch THEN 1 ELSE 2)
          BY <1>0, <1>2, <3>7 DEF Waits, None, Waiting
        <4> QED
          BY <1>2, <2>0, <2>2, <3>1, <3>3, <3>7, <4>1, <4>2, <4>3, <4>4 DEF Waits, None, FinEnds
      <3>8. CASE ~stall14_cycrd /\ ~stall14_fin
        <4>1. ~stall14_cycrd' /\ ~stall14_fin'
          BY <2>6, <3>2, <3>8, Regs
        <4> QED
          BY <1>0, <1>2, <2>0, <2>2, <3>1, <3>3, <3>4, <3>8, <4>1 DEF Waits, None
      <3> QED
        BY <3>5, <3>6, <3>7, <3>8
    <2> QED
      BY <2>4, <2>5, <2>6
  <1> QED
    BY <1>1, <1>2

-----------------------------------------------------------------------------
(* Each conjunct is kept: the data                                         *)

LEMMA WroteItStep == ASSUME IInv, Tick PROVE WroteIt'
  <1> SUFFICES ASSUME cyc' = "wr", t' = 6 PROVE d' = want'[addr']
    BY DEF WroteIt
  <1>0. CycleTypes /\ DramTypes /\ WroteIt
    BY DEF IInv, Types
  <1>1. (t = 6 /\ cyc = "wr" /\ UNCHANGED <<d, addr, want>>)
        \/ (t = 5 /\ cyc = "wr" /\ NextEdge)
    BY <1>0, Kinds DEF Stays, Inner, Outer, NewCycle, NextEdge, CycleTypes
  <1>2. t = 5 /\ cyc = "wr" /\ NextEdge =>
          addr' = addr /\ d' = d /\ want' = [want EXCEPT ![addr] = d]
    BY DEF NextEdge
  <1> QED
    BY <1>0, <1>1, <1>2 DEF WroteIt, CycleTypes, DramTypes

\* What the program has made of the memory changes with the fifth edge of a write.
LEMMA Wants ==
  ASSUME IInv, Tick
  PROVE  /\ want \in [Addrs -> Data]
         /\ \/ want' = want
            \/ /\ cyc = "wr" /\ t = 5 /\ cyc' = "wr" /\ t' = 6 /\ addr' = addr
               /\ want' = [want EXCEPT ![addr] = d]
  <1>0. CycleTypes /\ want \in [Addrs -> Data]
    BY DEF IInv, Types, DramTypes
  <1> QED
    BY <1>0, Kinds, LastIs DEF Stays, Inner, Outer, NewCycle, NextEdge

\* A write's datum is in memory, or asked for, before the access ends.
LEMMA WrittenInTime ==
  ASSUME IInv, cyc = "wr", t = 6
  PROVE  Wrote \/ (pending_cpu_req /\ ~Slow)
  BY DEF IInv, SlowServed, FastServed

LEMMA MemTrueStep == ASSUME IInv, Tick PROVE MemTrue'
  <1>0. CycleTypes /\ DramTypes /\ Parity /\ Writing /\ WroteIt /\ MemTrue
    BY DEF IInv, Types
  <1> SUFFICES ASSUME NEW a \in Addrs
               PROVE  \/ mem'[a] = want'[a]
                      \/ cyc' = "wr" /\ t' \in 2 .. 6 /\ a = addr'
                      \/ curr'.op = "wr" /\ c' = 0 /\ a = curr'.addr
    BY DEF MemTrue
  <1> DEFINE x == IF memrd THEN 1 - d ELSE d
  <1>1. mem' = IF c = 0 /\ curr.op = "wr" THEN [mem EXCEPT ![curr.addr] = x] ELSE mem
    BY DEF Tick, DramStep
  <1>2. mem \in [Addrs -> Data]
    BY <1>0 DEF DramTypes
  <1>3. ASSUME cyc = "wr", t \in 2 .. 6, a = addr
        PROVE  \/ cyc' = "wr" /\ t' \in 2 .. 6 /\ a = addr'
               \/ t = 6 /\ zpos /\ t' = 1 /\ want' = want /\ d' = d
    BY <1>0, <1>3, Kinds, LastIs DEF Stays, Inner, Outer, NewCycle, NextEdge, CycleTypes, Parity
  <1>4. ASSUME mem'[a] = want[a]
        PROVE  mem'[a] = want'[a] \/ (cyc' = "wr" /\ t' \in 2 .. 6 /\ a = addr')
    BY <1>4, Wants
  <1>5. CASE c = 0 /\ curr.op = "wr" /\ a = curr.addr
    <2>1. CASE cyc = "wr" /\ t >= 2 /\ Same
      <3>1. t \in 2 .. 6 /\ a = addr
        BY <1>0, <1>5, <2>1, LastIs DEF CycleTypes, Same
      <3>2. mem'[a] = d
        BY <1>1, <1>2, <1>5, <2>1 DEF memrd, opfetch
      <3>3. t = 6 => d = want[addr]
        BY <1>0, <2>1 DEF WroteIt
      <3> QED
        BY <1>3, <2>1, <3>1, <3>2, <3>3
    <2>2. CASE t = 1 /\ d = want[curr.addr]
      <3>1. mem'[a] = want[a]
        BY <1>1, <1>2, <1>5, <2>2 DEF memrd, opfetch
      <3> QED
        BY <1>4, <3>1
    <2> QED
      BY <1>0, <1>5, <2>1, <2>2 DEF Writing
  <1>6. CASE ~(c = 0 /\ curr.op = "wr" /\ a = curr.addr)
    <2>1. mem'[a] = mem[a]
      BY <1>1, <1>2, <1>6
    <2>2. CASE mem[a] = want[a]
      BY <1>4, <2>1, <2>2
    <2>3. CASE cyc = "wr" /\ t \in 2 .. 6 /\ a = addr
      <3> SUFFICES ASSUME t = 6, zpos, t' = 1, want' = want
                   PROVE  mem'[a] = want'[a] \/ (curr'.op = "wr" /\ c' = 0 /\ a = curr'.addr)
        BY <1>3, <2>3
      <3>1. CASE Wrote
        BY <1>0, <1>6, <2>1, <2>3, <3>1 DEF Wrote, WroteIt, Same
      <3>2. CASE pending_cpu_req /\ ~Slow
        <4>1. c = 3 /\ cpu_next
          BY <2>3, <3>2, Clocks DEF IInv, FastPending
        <4>2. cpu_req /\ ~memrd
          BY <2>3, <3>2, FastStall DEF memrd, opfetch
        <4> QED
          BY <2>3, <4>1, <4>2, Clocks
      <3> QED
        BY <2>3, <3>1, <3>2, WrittenInTime
    <2> QED
      BY <1>0, <1>6, <2>2, <2>3 DEF MemTrue
  <1> QED
    BY <1>5, <1>6

\* What a step does to the cache's lines.
LEMMA Cache ==
  ASSUME IInv, Tick
  PROVE  /\ cache \in [Lines -> Line] /\ addr[2] \in Lines /\ q' = cache[addr[2]]
         /\ cache_inv => ~cpu_strobe /\ cyc = "wr" /\ t = 3
         /\ IF cpu_strobe
            THEN /\ memrd /\ Same /\ addr \in Addrs /\ mem[addr] = want[addr]
                 /\ cache' = [cache EXCEPT ![addr[2]] =
                                [v |-> TRUE, tag |-> addr[1], d |-> mem[addr]]]
            ELSE IF cache_inv
            THEN cache' = [cache EXCEPT ![addr[2]] =
                             [v |-> FALSE, tag |-> addr[1], d |-> cache[addr[2]].d]]
            ELSE cache' = cache
  <1>0. CycleTypes /\ DramTypes /\ Strobed /\ Reading /\ MemTrue
    BY DEF IInv, Types
  <1>1. cache \in [Lines -> Line] /\ addr[2] \in Lines
    BY AddrIs DEF IInv, Types, CacheTypes
  <1>2. cpu_strobe => memrd /\ Same /\ mem[addr] = want[addr]
    BY <1>0 DEF Reading, MemTrue, cpu_strobe, memrd, opfetch, CycleTypes
  <1>3. cache_inv => cyc = "wr" /\ t = 3
    BY <1>0 DEF Strobed, cache_inv, memwr_s, memwr
  <1>4. cache_inv => ~cpu_strobe
    BY <1>2, <1>3 DEF memrd, opfetch
  <1>5. CacheStep
    BY DEF Tick
  <1>6. CASE cpu_strobe
    <2>1. (~cache_inv) = TRUE
      BY <1>4, <1>6
    <2>2. cache' = [cache EXCEPT ![addr[2]] =
                      [v |-> ~cache_inv, tag |-> addr[1], d |-> mem[curr.addr]]]
      BY <1>5, <1>6 DEF CacheStep
    <2>3. cache' = [cache EXCEPT ![addr[2]] =
                      [v |-> TRUE, tag |-> addr[1], d |-> mem[addr]]]
      BY <1>2, <1>6, <2>1, <2>2 DEF Same
    <2> QED
      BY <1>0, <1>1, <1>2, <1>3, <1>4, <1>5, <1>6, <2>3 DEF CycleTypes, CacheStep
  <1>7. CASE ~cpu_strobe /\ cache_inv
    <2>1. (~cache_inv) = FALSE
      BY <1>7
    <2>2. cache' = [cache EXCEPT ![addr[2]] =
                      [v |-> ~cache_inv, tag |-> addr[1], d |-> cache[addr[2]].d]]
      BY <1>1, <1>5, <1>7 DEF CacheStep
    <2>3. cache' = [cache EXCEPT ![addr[2]] =
                      [v |-> FALSE, tag |-> addr[1], d |-> cache[addr[2]].d]]
      BY <2>1, <2>2
    <2> QED
      BY <1>1, <1>3, <1>4, <1>5, <1>7, <2>3 DEF CacheStep
  <1>8. CASE ~cpu_strobe /\ ~cache_inv
    BY <1>1, <1>5, <1>8 DEF CacheStep
  <1> QED
    BY <1>6, <1>7, <1>8

LEMMA CacheTrueStep == ASSUME IInv, Tick PROVE CacheTrue'
  <1>0. CycleTypes /\ CacheTrue /\ Invalidated /\ Strobed
    BY DEF IInv, Types
  <1> SUFFICES ASSUME NEW i \in Lines, cache'[i].v
               PROVE  /\ <<cache'[i].tag, i>> \in Addrs
                      /\ cache'[i].d = want'[<<cache'[i].tag, i>>]
    BY DEF CacheTrue, Word
  <1>1. CASE i = addr[2] /\ cpu_strobe
    <2>1. cache'[i].tag = addr[1] /\ cache'[i].d = want[addr] /\ addr \in Addrs
      BY <1>1, Cache
    <2>2. want' = want
      BY <1>1, Cache, Wants DEF memrd, opfetch
    <2> QED
      BY <1>0, <1>1, <2>1, <2>2, AddrIs
  <1>2. CASE ~(i = addr[2] /\ cpu_strobe)
    <2>1. cache'[i] = cache[i] /\ cache[i].v
      BY <1>2, Cache
    <2>2. Word(i) \in Addrs /\ cache[i].d = want[Word(i)]
      BY <1>0, <2>1 DEF CacheTrue
    <2>3. want'[Word(i)] = want[Word(i)]
      <3>1. CASE cyc = "wr" /\ t = 5
        <4>1. ~Cached
          BY <1>0, <3>1 DEF Invalidated, Strobed
        <4>2. Word(i) # addr
          BY <1>0, <2>1, <4>1, AddrIs DEF Cached, Word
        <4> QED
          BY <2>2, <4>2, Wants
      <3>2. CASE ~(cyc = "wr" /\ t = 5)
        BY <3>2, Wants
      <3> QED
        BY <3>1, <3>2
    <2> QED
      BY <2>1, <2>2, <2>3 DEF Word
  <1> QED
    BY <1>1, <1>2

LEMMA OutTrueStep == ASSUME IInv, Tick PROVE OutTrue'
  <1>0. CycleTypes /\ CacheTrue /\ OutTrue /\ Reading
    BY DEF IInv, Types
  <1>1. ASSUME memrd', cache_hit' PROVE Cached' /\ q'.d = want'[addr']
    <2>1. addr' = addr /\ cyc \in {"m1", "rd"}
      BY <1>1, ReadOn DEF Goes
    <2>2. q' = cache[addr[2]] /\ Cached
      BY <1>1, <2>1, Cache DEF cache_hit, Cached
    <2>3. Cached'
      BY <2>1, <2>2, Cache DEF Cached
    <2>4. q'.d = want[addr]
      BY <1>0, <2>2, Cache, AddrIs DEF CacheTrue, Cached, Word
    <2>5. want' = want
      BY <2>1, Wants
    <2> QED
      BY <2>1, <2>3, <2>4, <2>5
  <1>2. ASSUME curr'.op = "rd", c' = 3 PROVE Cached'
    <2>1. c = 2 /\ curr' = curr /\ cpu_strobe
      BY <1>2, Clocks DEF cpu_strobe
    <2>2. addr' = addr
      BY <1>2, ReadingStep, ReadOn DEF Reading, Goes
    <2> QED
      BY <2>1, <2>2, Cache DEF Cached
  <1> QED
    BY <1>1, <1>2 DEF OutTrue

LEMMA InvalidatedStep == ASSUME IInv, Tick PROVE Invalidated'
  <1>0. CycleTypes /\ CycleTypes' /\ Strobed /\ Strobed' /\ Parity /\ Invalidated
    BY StrobedStep, CycleTypesStep DEF IInv, Types
  <1> SUFFICES ASSUME cyc' = "wr", t' >= 2 PROVE Invalidated'
    BY <1>0, LastIs DEF Invalidated, CycleTypes
  <1>1. Goes /\ cyc = "wr" /\ ~memrd
    BY WriteOn
  <1>2. ~cpu_strobe /\ q' = cache[addr[2]] /\ addr[2] \in Lines /\ cache \in [Lines -> Line]
    BY <1>1, Cache
  <1>3. t # 3 \/ ~strobe => cache' = cache
    BY <1>2, Cache DEF cache_inv, memwr_s
  <1>4. strobe' <=> req_r'[1] /\ ~req_r[1]
    <2>1. req_r'[2] <=> req_r[1]
      BY DEF Tick, Strobes
    <2>2. strobe' <=> req_r'[1] /\ ~req_r'[2]
      BY <1>0, Pair DEF CycleTypes, strobe
    <2> QED
      BY <2>1, <2>2
  <1>5. t' >= 3 /\ t <= 2 => strobe'
    BY <1>0, <1>1, <1>4, LastIs DEF Strobed, Requested, Memory, CycleTypes
  <1>6. t >= 3 => ~strobe'
    BY <1>0, <1>1, <1>4, LastIs DEF Strobed, Requested, Memory, CycleTypes
  <1>7. CASE t <= 2
    BY <1>0, <1>1, <1>2, <1>3, <1>5, <1>7 DEF Invalidated, Goes, CycleTypes
  <1>8. CASE t >= 3
    <2>1. ~Cached'
      <3>1. CASE strobe
        <4>1. t = 3 /\ q = cache[addr[2]]
          BY <1>0, <1>1, <1>8, <3>1 DEF Strobed, Invalidated
        <4>2. cache_inv <=> Cached
          BY <1>1, <3>1, <4>1 DEF cache_inv, cache_hit, memwr_s, memwr, Cached
        <4> QED
          BY <1>1, <1>2, <4>2, Cache DEF Cached, Goes
      <3>2. CASE ~strobe
        BY <1>0, <1>1, <1>3, <1>8, <3>2 DEF Invalidated, Cached, Goes
      <3> QED
        BY <3>1, <3>2
    <2>2. t' >= 3
      BY <1>0, <1>1, <1>8 DEF Goes, CycleTypes
    <2> QED
      BY <1>0, <1>6, <1>8, <2>1, <2>2 DEF Invalidated, CycleTypes
  <1> QED
    BY <1>0, <1>7, <1>8 DEF CycleTypes

-----------------------------------------------------------------------------
(* The theorems                                                            *)

LEMMA Starts == Init => IInv
  <1> SUFFICES ASSUME Init PROVE IInv
    OBVIOUS
  <1>0. /\ clk14_src = FALSE /\ c2_cnt = FALSE /\ stall_count = 0
        /\ zpos = FALSE /\ zneg = FALSE
        /\ turbo \in Turbos /\ cyc = "t" /\ t = 1 /\ addr \in Addrs /\ d = 0 /\ cache_en = FALSE
        /\ req_r = <<FALSE, FALSE>>
        /\ ramreq_r = FALSE /\ pre_ramreq_r = FALSE /\ pending_cpu_req = FALSE
        /\ stall14_cycrd = FALSE /\ stall14_fin = FALSE
        /\ c = 0 /\ cpu_next \in BOOLEAN /\ busy = (IF cpu_next THEN 0 ELSE 1)
        /\ curr = Nobody /\ want = mem /\ mem = [a \in Addrs |-> 0]
        /\ beg = None /\ waits = 0
    BY DEF Init
  <1>1. ClockTypes
    <2>1. /\ clk14_src \in BOOLEAN /\ c2_cnt \in BOOLEAN
          /\ zpos \in BOOLEAN /\ zneg \in BOOLEAN
      BY <1>0, Zenon
    <2> QED
      BY <1>0, <2>1 DEF ClockTypes
  <1>2. CycleTypes
    <2>1. cache_en \in BOOLEAN
      BY <1>0, Zenon
    <2>2. req_r[1] \in BOOLEAN /\ req_r[2] \in BOOLEAN /\ req_r = <<req_r[1], req_r[2]>>
      BY <1>0
    <2>3. cyc \in Cycles /\ t \in 1 .. LastEdge[cyc]
      BY <1>0, LastIs DEF Cycles
    <2> QED
      BY <1>0, <2>1, <2>2, <2>3 DEF CycleTypes, Data
  <1>3. ZmemTypes
    BY <1>0 DEF ZmemTypes
  <1>4. CacheTypes
    BY DEF Init, CacheTypes, Line, Data
  <1>5. DramTypes
    BY <1>0, BusyAssumption DEF DramTypes, Data
  <1>6. Parity /\ Phase /\ Strobed /\ BeginsOnce
    BY <1>0 DEF Parity, Phase, Strobed, strobe, Requested, BeginsOnce
  <1>7. SlowAsks /\ SlowServed
    BY <1>0 DEF SlowAsks, SlowServed
  <1>8. Leftover /\ FastPending /\ FastServed /\ Waiting
    BY <1>0 DEF Leftover, FastPending, FastServed, Waiting
  <1>9. Reading /\ Writing
    BY <1>0 DEF Reading, Writing, Nobody
  <1>10. Waits
    BY <1>0 DEF Waits
  <1>11. MemTrue /\ WroteIt /\ Invalidated
    BY <1>0 DEF MemTrue, WroteIt, Invalidated
  <1>12. CacheTrue
    BY DEF Init, CacheTrue
  <1>13. OutTrue
    BY <1>0 DEF OutTrue, memrd, opfetch
  <1> QED
    BY <1>1, <1>2, <1>3, <1>4, <1>5, <1>6, <1>7, <1>8, <1>9, <1>10, <1>11, <1>12, <1>13
    DEF IInv, Types

LEMMA Steps ==
  ASSUME IInv, Tick, NothingLeftOver
  PROVE  IInv'
  <1>1. Types' /\ Parity' /\ Strobed'
    BY TypesStep, ParityStep, StrobedStep DEF IInv
  <1>2. Phase' /\ BeginsOnce' /\ SlowAsks' /\ SlowServed'
    BY PhaseStep, BeginsOnceStep, SlowAsksStep, SlowServedStep
  <1>3. Leftover' /\ FastPending' /\ FastServed'
    BY LeftoverStep, FastPendingStep, FastServedStep
  <1>4. Reading' /\ Writing' /\ Waiting' /\ Waits'
    BY ReadingStep, WritingStep, WaitingStep, WaitsStep
  <1>5. MemTrue' /\ WroteIt' /\ CacheTrue' /\ OutTrue' /\ Invalidated'
    BY MemTrueStep, WroteItStep, CacheTrueStep, OutTrueStep, InvalidatedStep
  <1> QED
    BY <1>1, <1>2, <1>3, <1>4, <1>5 DEF IInv

LEMMA Keeps ==
  ASSUME IInv, UNCHANGED vars
  PROVE  IInv'
  <1> USE DEF vars, clock, z80, zmem, dram, history
  <1>1. Types'
    BY DEF IInv, Types, ClockTypes, CycleTypes, ZmemTypes, CacheTypes, DramTypes
  <1>0. /\ Cached' = Cached /\ cache_hit' = cache_hit /\ memrd' = memrd /\ memwr' = memwr
        /\ strobe' = strobe /\ opfetch' = opfetch
    BY DEF Cached, cache_hit, memrd, memwr, opfetch, strobe
  <1>2. Parity' /\ Phase' /\ Strobed' /\ BeginsOnce'
    <2>1. Parity' /\ Phase'
      BY DEF IInv, Parity, Phase, Slow
    <2>2. Strobed'
      BY <1>0 DEF IInv, Strobed, Slow, Requested, Memory
    <2>3. BeginsOnce'
      BY <1>0 DEF IInv, BeginsOnce
    <2> QED
      BY <2>1, <2>2, <2>3
  <1>3. SlowAsks' /\ SlowServed'
    BY DEF IInv, SlowAsks, SlowServed, Slow, Wrote, Same, memwr, memrd, opfetch, cache_hit,
           cpureq_357, ramreq
  <1>4. Leftover' /\ FastPending' /\ FastServed'
    BY DEF IInv, Leftover, Age, FastPending, FastServed, Slow, Wrote, Same, memrd, opfetch,
           cache_hit
  <1>5. Reading' /\ Writing' /\ Waiting' /\ Waits'
    BY DEF IInv, Reading, Writing, Waiting, Waits, Slow, Same, memrd, opfetch
  <1>6. MemTrue' /\ WroteIt' /\ CacheTrue'
    BY DEF IInv, MemTrue, WroteIt, CacheTrue, Word
  <1>7. OutTrue' /\ Invalidated'
    BY <1>0 DEF IInv, OutTrue, Invalidated
  <1> QED
    BY <1>1, <1>2, <1>3, <1>4, <1>5, <1>6, <1>7 DEF IInv

\* When the Z80 takes a datum the read is served, and its waits are over.
LEMMA Taken ==
  ASSUME IInv, Takes
  PROVE  /\ Bus = want[addr]
         /\ beg # None => waits = (IF opfetch THEN 3 ELSE 4) + (3 - beg)
  <1>0. CycleTypes /\ DramTypes /\ Parity /\ Reading /\ MemTrue /\ OutTrue /\ Waits
    BY DEF IInv, Types
  <1>1. /\ memrd /\ t >= 4 /\ cyc \in {"m1", "rd"}
        /\ (cyc = "m1" /\ t = 4 /\ zpos) \/ (cyc = "rd" /\ t = 5)
        /\ (opfetch <=> cyc = "m1")
    BY DEF Takes, memrd, opfetch
  <1>2. cache_hit \/ (curr.op = "rd" /\ c \in {2, 3})
    <2>1. CASE Slow
      <3>1. cyc = "rd" => cache_hit
        BY <1>1, <2>1 DEF IInv, SlowServed
      <3>2. cyc = "m1" => c = 3 /\ (cache_hit \/ curr.op = "rd")
        BY <1>1, <2>1 DEF IInv, SlowServed, SlowAsks, Phase
      <3> QED
        BY <1>1, <3>1, <3>2
    <2>2. CASE ~Slow
      <3>1. cyc = "rd" => cache_hit
        BY <1>1, <2>2 DEF IInv, FastServed
      <3>2. cyc = "m1" => cache_hit \/ curr.op = "rd"
        BY <1>1, <2>2 DEF IInv, FastServed, FastPending
      <3>3. cyc = "m1" /\ curr.op = "rd" => c = 3
        BY <1>0, <1>1, <2>2 DEF Reading, DramTypes
      <3> QED
        BY <1>1, <3>1, <3>2, <3>3
    <2> QED
      BY <2>1, <2>2
  <1>3. Bus = want[addr]
    <2>1. CASE curr.op = "rd" /\ c \in {2, 3}
      BY <1>0, <1>1, <2>1 DEF Reading, MemTrue, Same, Bus, cpu_latch, CycleTypes
    <2>2. CASE ~(curr.op = "rd" /\ c \in {2, 3})
      BY <1>0, <1>1, <1>2, <2>2 DEF OutTrue, Bus, cpu_latch
    <2> QED
      BY <2>1, <2>2
  <1>4. ASSUME beg # None PROVE waits = (IF opfetch THEN 3 ELSE 4) + (3 - beg)
    <2>1. ~Slow /\ beg \in 0 .. 3
      BY <1>0, <1>4 DEF Waits
    <2>2. ~stall14_cycrd /\ ~stall14_fin
      BY <1>1, <2>1, Held
    <2> QED
      BY <1>0, <1>4, <2>1, <2>2 DEF Waits
  <1> QED
    BY <1>3, <1>4

LEMMA TypeIs == IInv => TypeOK
  <1> SUFFICES ASSUME IInv PROVE TypeOK
    OBVIOUS
  <1>0. Types /\ Parity /\ Waits /\ Waiting
    BY DEF IInv
  <1>1. ~(zpos /\ zneg)
    BY <1>0 DEF Parity
  <1>2. req_r \in BOOLEAN \X BOOLEAN
    BY <1>0 DEF Types, CycleTypes
  <1>3. waits \in 0 .. 8
    BY <1>0 DEF Waits, Types, DramTypes
  <1>4. {clk14_src, c2_cnt, zpos, zneg, cache_en, cpu_next} \subseteq BOOLEAN
    BY <1>0, Zenon DEF Types, ClockTypes, CycleTypes, DramTypes
  <1>5. {ramreq_r, pre_ramreq_r, pending_cpu_req, stall14_cycrd, stall14_fin} \subseteq BOOLEAN
    BY <1>0, Zenon DEF Types, ZmemTypes
  <1>6. \A i \in Lines : cache[i] \in Line
    BY <1>0 DEF Types, CacheTypes
  <1> QED
    BY <1>0, <1>1, <1>2, <1>3, <1>4, <1>5, <1>6
    DEF TypeOK, Types, ClockTypes, CycleTypes, CacheTypes, DramTypes, Waits

LEMMA Invariant == ASSUME NothingLeftOver PROVE Spec => []IInv
  <1>1. IInv /\ [Next]_vars => IInv'
    BY Steps, Keeps DEF Next
  <1> QED
    BY <1>1, Starts, PTL DEF Spec

\* The Z80 takes what its program last wrote to the word, at every speed and across
\* changes of it, from the DRAM or the cache (zmem.v, zclock.v), for all words and
\* lines, if no request is left over when the speed changes to 14 MHz.
THEOREM ReadsAreTrue == ASSUME NothingLeftOver PROVE Spec => []Inv
  <1>1. IInv => Inv
    BY TypeIs, Taken DEF Inv, ReadsTrue
  <1> QED
    BY <1>1, Invariant, PTL

\* At 14 MHz a fetch is held for exactly as many clocks as the wait table of zmem.v
\* (156-160) says of the clock in which it began.
THEOREM FetchesWait == ASSUME NothingLeftOver PROVE Spec => []WaitTable
  <1>1. IInv => WaitTable
    BY Taken DEF WaitTable
  <1> QED
    BY <1>1, Invariant, PTL

=============================================================================
