-------------------------------- MODULE Dma --------------------------------
(***************************************************************************)
(* The DMA controller (dma.v).  A transfer is a number of bursts of words  *)
(* between DRAM and a device, or from DRAM to DRAM; a byte device gives or *)
(* takes a word in two strobes.  Each word is read into data (phase 0) and *)
(* written (phase 1); the blitter reads a source and a destination word.   *)
(*                                                                         *)
(* One step is one strobe: dram_next of a cycle the arbiter granted, or    *)
(* the strobe of the device.  What a word is, is its origin: a word of     *)
(* memory is <<"mem", address>>, byte n that a device gave is <<"dev", n>>. *)
(* The program writes the registers only while no transfer runs; zports.v  *)
(* lets it do so at any time, but a launch would then take the strobe of   *)
(* the old transfer's last cycle for its own.                              *)
(***************************************************************************)
EXTENDS Naturals

CONSTANTS
  AddrSpan,    \* word addresses, 2^21
  Row,         \* words of a 256 byte line, 128
  Addrs,       \* addresses the program writes, as <<source, destination>>
  Lens,        \* values it writes to DMALen
  Nums,        \* values it writes to DMANum
  NumSpan,     \* values of b_num, 256; n_ctr has a bit more
  Controls,    \* values it writes to DMACtrl
  MaxLaunches  \* bound on launches

Devices == {"ram", "blt", "fill", "spi", "ide", "wtp", "cram"}

\* cram stands for sfile and clist too.  wr is dma_wnr where the device can be
\* read and written.
ASSUME DmaAssumption ==
  /\ AddrSpan \in Nat \ {0} /\ Row \in Nat \ {0} /\ NumSpan \in Nat \ {0}
  /\ AddrSpan % (2 * Row) = 0
  /\ Addrs \subseteq (0 .. AddrSpan - 1) \X (0 .. AddrSpan - 1)
  /\ Lens \subseteq Nat
  /\ Nums \subseteq 0 .. NumSpan - 1
  /\ Controls \subseteq
       [dev : Devices, wr : BOOLEAN, salgn : BOOLEAN, dalgn : BOOLEAN, asz : BOOLEAN]
  /\ MaxLaunches \in Nat

VARIABLES
  s_addr, d_addr,       \* current addresses
  s_addr_r, d_addr_r,   \* the addresses' low part as the program wrote it
  b_len, b_num,         \* DMALen, DMANum
  b_ctr, n_ctr,         \* words left in the burst, bursts left
  ctrl,                 \* device, dma_wnr, dma_salgn, dma_dalgn, dma_asz
  phase, phase_blt,     \* 0: read, source; 1: write, destination
  bsel,                 \* the byte of the word that comes next
  data,                 \* the word, as <<low, high>>
  dma_act_r,            \* dma_act one clock ago
  taken,                \* history: bytes the device gave in this transfer
  moved,                \* history: words written in this transfer
  job,                  \* history: the transfer's start addresses
  launches              \* launches so far

addrs  == <<s_addr, d_addr>>
params == <<s_addr_r, d_addr_r, b_len, b_num, ctrl>>
counts == <<b_ctr, n_ctr>>
hist   == <<taken, moved, job, launches>>
vars == <<addrs, params, counts, phase, phase_blt, bsel, data, dma_act_r, hist>>

-----------------------------------------------------------------------------
(* States                                                                  *)

dma_act == n_ctr < NumSpan

dev_ram   == ctrl.dev \in {"ram", "blt", "fill"}
dev_byte  == ctrl.dev \in {"spi", "wtp"}
state_mem == dev_ram \/ (phase = IF ctrl.wr THEN 0 ELSE 1)
state_dev == ~state_mem

next_burst == b_ctr = 0

\* Words of a line: 256 or 512 bytes.
Line == IF ctrl.asz THEN 2 * Row ELSE Row

\* s_addr_next, d_addr_next: aligned bursts stay in a line, and each begins at
\* the same place of the line that follows.
NextAddr(a, r, aligned, line, last) ==
  IF ~aligned THEN (a + 1) % AddrSpan
  ELSE IF last THEN (((a \div line) + 1) * line + (r % line)) % AddrSpan
  ELSE (a \div line) * line + ((a + 1) % line)

NextSource == NextAddr(s_addr, s_addr_r, ctrl.salgn, Line, next_burst)
NextDest   == NextAddr(d_addr, d_addr_r, ctrl.dalgn, Line, next_burst)

\* Mutant: the burst counter is not loaded again.
CountNoReload ==
  /\ b_ctr' = IF next_burst THEN 0 ELSE b_ctr - 1
  /\ n_ctr' = IF ~next_burst THEN n_ctr ELSE IF n_ctr = 0 THEN 2 * NumSpan - 1 ELSE n_ctr - 1

\* "cycle processed": n_ctr has one bit more than b_num, which it borrows.
Count ==
  /\ b_ctr' = IF next_burst THEN b_len ELSE b_ctr - 1
  /\ n_ctr' = IF ~next_burst THEN n_ctr ELSE IF n_ctr = 0 THEN 2 * NumSpan - 1 ELSE n_ctr - 1

-----------------------------------------------------------------------------
(* Strobes                                                                 *)

\* Mutant: every read of the blitter is taken for its first.
BlitHookAlways == ctrl.dev = "blt"

\* blt_hook: the blitter's first read is not the end of the phase.
BlitHook == ctrl.dev = "blt" /\ phase_blt = 0

Word(x) == <<x, x>>

\* dram_next of a read.  phase_blt counts for the blitter only.
MemRead ==
  /\ dma_act /\ state_mem /\ phase = 0
  /\ data' = IF ctrl.dev = "blt" /\ phase_blt = 1
             THEN <<data[1], <<"mem", d_addr>> >>
             ELSE Word(<<"mem", s_addr>>)
  /\ s_addr' = IF ctrl.dev = "blt" /\ phase_blt = 1 THEN s_addr ELSE NextSource
  /\ phase' = IF BlitHook THEN 0 ELSE 1
  /\ phase_blt' = IF ctrl.dev = "blt" THEN 1 - phase_blt ELSE phase_blt
  /\ UNCHANGED <<d_addr, params, counts, bsel, dma_act_r, hist>>

\* dram_next of a write.  fil_hook keeps the fill in its write phase.
MemWrite ==
  /\ dma_act /\ state_mem /\ phase = 1
  /\ d_addr' = NextDest
  /\ phase' = IF ctrl.dev = "fill" THEN 1 ELSE 0
  /\ Count
  /\ moved' = moved + 1
  /\ UNCHANGED <<s_addr, params, phase_blt, bsel, data, dma_act_r, taken, job, launches>>

\* spi_stb or wtp_stb while the device is read: the byte is the result of the
\* exchange before this one (spi.v gives its strobe at the start), or of this
\* one (zwait.v gives it at the end).
ByteIn ==
  /\ dma_act /\ state_dev /\ phase = 0 /\ dev_byte
  /\ data' = [data EXCEPT ![bsel + 1] = <<"dev", taken>>]
  /\ taken' = taken + 1
  /\ bsel' = 1 - bsel
  /\ phase' = bsel
  /\ s_addr' = IF bsel = 1 THEN NextSource ELSE s_addr
  /\ UNCHANGED <<d_addr, params, counts, phase_blt, dma_act_r, moved, job, launches>>

\* spi_stb while the SPI is written: data[bsel] goes out.
ByteOut ==
  /\ dma_act /\ state_dev /\ phase = 1 /\ dev_byte
  /\ bsel' = 1 - bsel
  /\ IF bsel = 1
     THEN phase' = 0 /\ d_addr' = NextDest /\ Count /\ moved' = moved + 1
     ELSE UNCHANGED <<phase, d_addr, counts, moved>>
  /\ UNCHANGED <<s_addr, params, phase_blt, data, dma_act_r, taken, job, launches>>

\* ide_stb while the IDE is read.
WordIn ==
  /\ dma_act /\ state_dev /\ phase = 0 /\ ctrl.dev = "ide"
  /\ data' = << <<"dev", taken>>, <<"dev", taken + 1>> >>
  /\ taken' = taken + 2
  /\ s_addr' = NextSource
  /\ phase' = 1
  /\ UNCHANGED <<d_addr, params, counts, phase_blt, bsel, dma_act_r, moved, job, launches>>

\* ide_stb while the IDE is written; cram_we comes at once.
WordOut ==
  /\ dma_act /\ state_dev /\ phase = 1 /\ ctrl.dev \in {"ide", "cram"}
  /\ d_addr' = NextDest
  /\ phase' = 0
  /\ Count
  /\ moved' = moved + 1
  /\ UNCHANGED <<s_addr, params, phase_blt, bsel, data, dma_act_r, taken, job, launches>>

\* int_start, the clock after dma_act has gone.
Interrupt ==
  /\ dma_act_r /\ ~dma_act
  /\ dma_act_r' = FALSE
  /\ taken' = 0 /\ moved' = 0 /\ job' = <<0, 0>>
  /\ UNCHANGED <<addrs, params, counts, phase, phase_blt, bsel, data, launches>>

-----------------------------------------------------------------------------
(* The Z80                                                                 *)

Quiet == ~dma_act /\ ~dma_act_r

\* OUT (DMASAddrX/H/L), (DMADAddrX/H/L), (DMALen), (DMANum).
Program(a, len, num) ==
  /\ Quiet
  /\ launches < MaxLaunches
  /\ s_addr' = a[1] /\ s_addr_r' = a[1] % (2 * Row)
  /\ d_addr' = a[2] /\ d_addr_r' = a[2] % (2 * Row)
  /\ b_len' = len /\ b_num' = num
  /\ UNCHANGED <<ctrl, counts, phase, phase_blt, bsel, data, dma_act_r, hist>>

Load(c) ==
  /\ ctrl' = c
  /\ phase' = 0 /\ phase_blt' = 0
  /\ b_ctr' = b_len /\ n_ctr' = b_num
  /\ dma_act_r' = TRUE
  /\ taken' = 0 /\ moved' = 0 /\ job' = <<s_addr, d_addr>>
  /\ launches' = launches + 1

LaunchKeepsBsel(c) ==   \* mutant: bsel is left as it is
  /\ Quiet
  /\ launches < MaxLaunches
  /\ Load(c)
  /\ UNCHANGED <<addrs, s_addr_r, d_addr_r, b_len, b_num, bsel, data>>

\* OUT (DMACtrl).
Launch(c) ==
  /\ Quiet
  /\ launches < MaxLaunches
  /\ Load(c)
  /\ bsel' = 0
  /\ UNCHANGED <<addrs, s_addr_r, d_addr_r, b_len, b_num, data>>

\* Its own byte over the SPI, while the last transfer's device was the SPI.
OwnSpi ==
  /\ Quiet
  /\ ctrl.dev = "spi"
  /\ bsel' = 1 - bsel
  /\ data' = IF phase = 0 THEN [data EXCEPT ![bsel + 1] = <<"z80", 0>>] ELSE data
  /\ UNCHANGED <<addrs, params, counts, phase, phase_blt, dma_act_r, hist>>

\* Its own IDE access, while the last transfer's device was the IDE: dev_stb
\* and the end of the phase do not ask for dma_act.  Left out: an access
\* after a reset in the write phase of an IDE word.  Its strobe is counted,
\* and that of the very last word would take the bit the reset has set.
OwnIde ==
  /\ Quiet
  /\ launches < MaxLaunches
  /\ ctrl.dev = "ide"
  /\ ~(ctrl.wr /\ phase = 1)
  /\ data' = IF phase = 0 THEN Word(<<"z80", 0>>) ELSE data
  /\ s_addr' = IF phase = 0 THEN NextSource ELSE s_addr
  /\ d_addr' = IF phase = 1 THEN NextDest ELSE d_addr
  /\ phase' = IF ctrl.wr THEN phase ELSE 1
  /\ UNCHANGED <<params, counts, phase_blt, bsel, dma_act_r, hist>>

\* rst_n: only the top bit of n_ctr and dma_act_r are reset.
Reset ==
  /\ dma_act
  /\ n_ctr' = n_ctr + NumSpan
  /\ dma_act_r' = FALSE
  /\ taken' = 0 /\ moved' = 0 /\ job' = <<0, 0>>
  /\ UNCHANGED <<addrs, params, b_ctr, phase, phase_blt, bsel, data, launches>>

-----------------------------------------------------------------------------
Init ==
  /\ s_addr = 0 /\ d_addr = 0 /\ s_addr_r = 0 /\ d_addr_r = 0
  /\ b_len \in Lens /\ b_num \in Nums
  /\ b_ctr = 0 /\ n_ctr = NumSpan
  /\ ctrl \in Controls
  /\ phase = 0 /\ phase_blt = 0 /\ bsel = 0
  /\ data = Word(<<"z80", 0>>)
  /\ dma_act_r = FALSE
  /\ taken = 0 /\ moved = 0 /\ job = <<0, 0>> /\ launches = 0

Strobe == MemRead \/ MemWrite \/ ByteIn \/ ByteOut \/ WordIn \/ WordOut

Next ==
  \/ Strobe
  \/ Interrupt
  \/ \E a \in Addrs, len \in Lens, num \in Nums : Program(a, len, num)
  \/ \E c \in Controls : Launch(c)
  \/ OwnSpi \/ OwnIde
  \/ Reset

Spec == Init /\ [][Next]_vars

\* The arbiter and the devices answer each request; the clock ticks.
Fairness == WF_vars(Strobe) /\ WF_vars(Interrupt)

FairSpec == Spec /\ Fairness

-----------------------------------------------------------------------------
(* Properties                                                              *)

Words == (b_num + 1) * (b_len + 1)

Tags == {"mem", "dev", "z80"} \X Nat

\* Registers keep to their widths, the counters to their range.
TypeOK ==
  /\ s_addr \in 0 .. AddrSpan - 1 /\ d_addr \in 0 .. AddrSpan - 1
  /\ s_addr_r \in 0 .. 2 * Row - 1 /\ d_addr_r \in 0 .. 2 * Row - 1
  /\ b_len \in Lens /\ b_num \in Nums
  /\ b_ctr \in Nat /\ n_ctr \in 0 .. 2 * NumSpan - 1
  /\ ctrl \in Controls
  /\ phase \in {0, 1} /\ phase_blt \in {0, 1} /\ bsel \in {0, 1}
  /\ data \in Tags \X Tags
  /\ dma_act_r \in BOOLEAN
  /\ taken \in Nat /\ moved \in Nat
  /\ job \in (0 .. AddrSpan - 1) \X (0 .. AddrSpan - 1)
  /\ launches \in 0 .. MaxLaunches

\* A transfer moves (DMANum + 1) * (DMALen + 1) words, and its interrupt comes
\* when it has moved them all, never after a reset has cut it short.
TransferExact ==
  IF dma_act THEN moved < Words ELSE dma_act_r => moved = Words

\* The types, and: every transfer moves its number of words.
Inv == TypeOK /\ TransferExact

\* Where word k of a transfer in bursts of len words is, given its start
\* address and the low part the program wrote: the first burst begins at the
\* address, which may be left over from an earlier transfer, aligned ones that
\* follow at r.
Place(k, start, r, aligned, line, len) ==
  LET burst == k \div len
      from  == IF burst = 0 THEN start ELSE r
  IN IF aligned
     THEN (((start \div line) + burst) * line + ((from + (k % len)) % line)) % AddrSpan
     ELSE (start + k) % AddrSpan

SourceOf(k) == Place(k, job[1], s_addr_r, ctrl.salgn, Line, b_len + 1)
DestOf(k)   == Place(k, job[2], d_addr_r, ctrl.dalgn, Line, b_len + 1)

FromDevice == ctrl.dev \in {"spi", "ide", "wtp"} /\ ~ctrl.wr

\* What word k must be.
Origin(k) ==
  IF FromDevice THEN << <<"dev", 2 * k>>, <<"dev", 2 * k + 1>> >>
  ELSE IF ctrl.dev = "blt" THEN << <<"mem", SourceOf(k)>>, <<"mem", DestOf(k)>> >>
  ELSE Word(<<"mem", SourceOf(IF ctrl.dev = "fill" THEN 0 ELSE k)>>)

\* Word k comes from its place, or is the device's bytes 2k and 2k + 1 in this
\* order, and goes to its place: whatever the program's own accesses, resets
\* and earlier transfers have left in data, bsel, phase and the addresses.
WordsInPlace ==
  dma_act => IF phase = 0
             THEN s_addr = SourceOf(moved) \/ phase_blt = 1
             ELSE d_addr = DestOf(moved) /\ data = Origin(moved)

\* A transfer comes to its end.
TransferEnds == dma_act ~> ~dma_act

=============================================================================
