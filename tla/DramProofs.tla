---------------------------- MODULE DramProofs ----------------------------
(***************************************************************************)
(* Proofs about two components that share no state and are only proved in  *)
(* one module: first Dma, then Arbiter.                                    *)
(*                                                                         *)
(* Of Dma: what its run shows on lines of two words, for every memory,     *)
(* every set of parameters and any number of transfers.                    *)
(*                                                                         *)
(* Of Arbiter: the same for every set of bandwidths.  The invariant that   *)
(* carries it is Account: what a block has given and what its counters     *)
(* still reserve add up to what the video needs.                           *)
(***************************************************************************)
EXTENDS Dma, Arbiter, TLAPS

-----------------------------------------------------------------------------
(* Arithmetic of lines and bursts                                          *)

\* A quotient and a remainder are known when they are found.
LEMMA DivMod ==
  ASSUME NEW n \in Nat \ {0}, NEW q \in Nat, NEW r \in 0 .. n - 1, NEW a, a = q * n + r
  PROVE  a \div n = q /\ a % n = r
<1>1. a \in Nat
  OBVIOUS
<1>2. /\ a \div n \in Nat /\ a % n \in 0 .. n - 1
      /\ a = n * (a \div n) + (a % n)
  BY <1>1
<1>3. ASSUME NEW x \in Nat, NEW y \in Nat, x < y
      PROVE  n * x + n <= n * y
  BY <1>3
<1>4. ~(q < a \div n)
  BY <1>1, <1>2, <1>3
<1>5. ~(a \div n < q)
  BY <1>1, <1>2, <1>3
<1>6. a \div n = q
  BY <1>2, <1>4, <1>5
<1> QED  BY <1>2, <1>6

\* The next number is in the same group, or the first of the next one.
LEMMA DivModNext ==
  ASSUME NEW n \in Nat \ {0}, NEW x \in Nat
  PROVE  /\ x % n # n - 1 => /\ (x + 1) \div n = x \div n
                            /\ (x + 1) % n = (x % n) + 1
                            /\ (x % n) + 1 \in 0 .. n - 1
         /\ x % n = n - 1 => /\ (x + 1) \div n = (x \div n) + 1
                            /\ (x + 1) % n = 0
<1> DEFINE q == x \div n
           r == x % n
           u == x + 1
           v == r + 1
           p == q + 1
<1>1. q \in Nat /\ r \in 0 .. n - 1 /\ x = q * n + r
  OBVIOUS
<1> HIDE DEF q, r
<1>2. CASE r # n - 1
  <2>1. u = q * n + v /\ v \in 0 .. n - 1
    BY <1>1, <1>2
  <2> HIDE DEF u, v
  <2>2. u \div n = q /\ u % n = v
    BY <1>1, <2>1, DivMod
  <2> QED  BY <1>2, <2>1, <2>2 DEF q, r, u, v
<1>3. CASE r = n - 1
  <2>1. u = p * n + 0 /\ 0 \in 0 .. n - 1 /\ p \in Nat
    BY <1>1, <1>3
  <2> HIDE DEF u, p
  <2>2. u \div n = p /\ u % n = 0
    BY <2>1, DivMod
  <2> QED  BY <1>3, <2>2 DEF q, r, u, p
<1> QED  BY <1>2, <1>3 DEF r

\* A step inside a ring of n.
LEMMA ModStep ==
  ASSUME NEW n \in Nat \ {0}, NEW x \in Nat
  PROVE  ((x % n) + 1) % n = (x + 1) % n
<1> DEFINE r == x % n
           v == r + 1
<1>1. r \in 0 .. n - 1
  OBVIOUS
<1> HIDE DEF r
<1>2. CASE r # n - 1
  <2>1. v \in 0 .. n - 1 /\ v = 0 * n + v
    BY <1>1, <1>2
  <2> HIDE DEF v
  <2>2. v % n = v
    BY <2>1, DivMod
  <2> QED  BY <1>2, <2>2, DivModNext DEF r, v
<1>3. CASE r = n - 1
  <2>1. v = 1 * n + 0 /\ 0 \in 0 .. n - 1
    BY <1>1, <1>3
  <2> HIDE DEF v
  <2>2. v % n = 0
    BY <2>1, DivMod
  <2> QED  BY <1>3, <2>2, DivModNext DEF r, v
<1> QED  BY <1>2, <1>3

\* Memory is whole groups: it wraps from group to group.
LEMMA ModMul ==
  ASSUME NEW n \in Nat \ {0}, NEW q \in Nat \ {0}, NEW b \in Nat, NEW o \in 0 .. n - 1
  PROVE  (b * n + o) % (q * n) = (b % q) * n + o
<1> DEFINE c == b \div q
           d == b % q
<1>1. c \in Nat /\ d \in 0 .. q - 1 /\ b = q * c + d
  OBVIOUS
<1> HIDE DEF c, d
<1>2. q * n \in Nat \ {0} /\ d * n + o \in 0 .. q * n - 1
  <2>1. ASSUME NEW x \in Nat, NEW y \in Nat, x < y
        PROVE  x * n + n <= y * n
    BY <2>1
  <2>2. d * n + n <= q * n
    BY <1>1, <2>1
  <2>3. d * n \in Nat /\ q * n \in Nat
    BY <1>1
  <2> QED  BY <2>2, <2>3
<1>3. b * n + o = c * (q * n) + (d * n + o)
  <2>1. b * n = (q * c) * n + d * n
    BY <1>1
  <2>2. (q * c) * n = c * (q * n)
    BY <1>1
  <2> QED  BY <1>1, <2>1, <2>2
<1> DEFINE m == q * n
           s == d * n + o
<1>4. (c * m + s) % m = s
  <2>1. m \in Nat \ {0} /\ s \in 0 .. m - 1
    BY <1>2
  <2> HIDE DEF m, s
  <2> QED  BY <1>1, <2>1, DivMod
<1> QED  BY <1>3, <1>4 DEF d

-----------------------------------------------------------------------------
(* Types                                                                   *)

\* A number below a multiple of n ends its line below it too.
LEMMA LineFits ==
  ASSUME NEW n \in Nat \ {0}, NEW q \in Nat, NEW a \in Nat, a < q * n
  PROVE  (a \div n) * n + n <= q * n
<1>1. /\ a \div n \in Nat /\ a % n \in 0 .. n - 1
      /\ a = n * (a \div n) + (a % n)
  OBVIOUS
<1>2. ASSUME NEW k \in Nat, k * n < q * n
      PROVE  k < q
  BY <1>2
<1>3. ASSUME NEW k \in Nat, k < q
      PROVE  k * n + n <= q * n
  BY <1>3
<1>4. (a \div n) * n < q * n
  BY <1>1
<1> QED  BY <1>1, <1>2, <1>3, <1>4

\* Memory is a whole number of lines.
IsLine(line) == line \in Nat \ {0} /\ \E q \in Nat \ {0} : AddrSpan = q * line

LEMMA LinesOfMemory == \A double \in BOOLEAN : IsLine(IF double THEN 2 * Row ELSE Row)
<1>1. AddrSpan \in Nat \ {0} /\ Row \in Nat \ {0} /\ AddrSpan % (2 * Row) = 0
  BY DmaAssumption
<1> DEFINE p == AddrSpan \div (2 * Row)
<1>2. p \in Nat /\ AddrSpan = (2 * Row) * p
  BY <1>1
<1>3. AddrSpan = p * (2 * Row) /\ AddrSpan = (2 * p) * Row /\ p # 0 /\ 2 * p \in Nat \ {0}
  BY <1>1, <1>2
<1> HIDE DEF p
<1>4. IsLine(2 * Row)
  BY <1>1, <1>2, <1>3 DEF IsLine
<1>5. IsLine(Row)
  BY <1>1, <1>3 DEF IsLine
<1> QED  BY <1>4, <1>5

LEMMA MemoryIsLines == TypeOK => IsLine(Line)
<1>1. TypeOK => ctrl.asz \in BOOLEAN
  BY DmaAssumption DEF TypeOK
<1> QED  BY <1>1, LinesOfMemory DEF Line

\* s_addr_next and d_addr_next have the width of an address.
LEMMA NextAddrInRange ==
  ASSUME NEW a \in 0 .. AddrSpan - 1, NEW r \in Nat, NEW aligned \in BOOLEAN,
         NEW line, IsLine(line), NEW last \in BOOLEAN
  PROVE  NextAddr(a, r, aligned, line, last) \in 0 .. AddrSpan - 1
<1>1. AddrSpan \in Nat \ {0}
  BY DmaAssumption
<1>2. ASSUME NEW x \in Nat
      PROVE  x % AddrSpan \in 0 .. AddrSpan - 1
  BY <1>1
<1>3. line \in Nat \ {0}
  BY DEF IsLine
<1>4. PICK q \in Nat : AddrSpan = q * line
  BY DEF IsLine
<1>5. a \div line \in Nat /\ (a + 1) % line \in 0 .. line - 1 /\ r % line \in Nat
  BY <1>3
<1>6. (a \div line) * line + line <= AddrSpan
  <2>1. a \in Nat /\ a < q * line
    BY <1>1, <1>4
  <2> QED  BY <1>3, <1>4, <2>1, LineFits
<1>7. (a \div line) * line \in Nat /\ (a \div line + 1) * line \in Nat
  BY <1>3, <1>5
<1>8. (a \div line) * line + ((a + 1) % line) \in 0 .. AddrSpan - 1
  BY <1>1, <1>3, <1>5, <1>6, <1>7
<1>9. ((a \div line + 1) * line + (r % line)) % AddrSpan \in 0 .. AddrSpan - 1
  BY <1>2, <1>5, <1>7
<1>10. (a + 1) % AddrSpan \in 0 .. AddrSpan - 1
  BY <1>2
<1> QED  BY <1>8, <1>9, <1>10 DEF NextAddr

\* The addresses of the next word, and the low part the program wrote.
LEMMA NextInRange ==
  TypeOK => NextSource \in 0 .. AddrSpan - 1 /\ NextDest \in 0 .. AddrSpan - 1
<1>1. TypeOK => ctrl.salgn \in BOOLEAN /\ ctrl.dalgn \in BOOLEAN
  BY DmaAssumption DEF TypeOK
<1>2. TypeOK => s_addr_r \in Nat /\ d_addr_r \in Nat
  BY DmaAssumption DEF TypeOK
<1>3. next_burst \in BOOLEAN
  BY DEF next_burst
<1> QED
  BY <1>1, <1>2, <1>3, MemoryIsLines, NextAddrInRange DEF NextSource, NextDest, TypeOK

\* The registers keep to their widths and the counters to their range.
THEOREM TypeCorrect == Spec => []TypeOK
<1> DEFINE Pairs == (0 .. AddrSpan - 1) \X (0 .. AddrSpan - 1)
<1>0. 0 \in 0 .. AddrSpan - 1 /\ <<0, 0>> \in Pairs
  BY DmaAssumption
<1>1. Init => TypeOK
  <2> SUFFICES ASSUME Init PROVE TypeOK
    OBVIOUS
  <2>1. data \in Tags \X Tags
    BY DEF Init, Word, Tags
  <2>2. n_ctr \in 0 .. 2 * NumSpan - 1
    BY DmaAssumption DEF Init
  <2>3. s_addr_r \in 0 .. 2 * Row - 1 /\ d_addr_r \in 0 .. 2 * Row - 1
    BY DmaAssumption DEF Init
  <2>4. job \in Pairs /\ launches \in 0 .. MaxLaunches
    BY <1>0, DmaAssumption DEF Init
  <2>5. s_addr \in 0 .. AddrSpan - 1 /\ d_addr \in 0 .. AddrSpan - 1
    BY <1>0 DEF Init
  <2> QED  BY <2>1, <2>2, <2>3, <2>4, <2>5 DEF Init, TypeOK
<1>2. TypeOK /\ [Next]_vars => TypeOK'
  <2> SUFFICES ASSUME TypeOK, [Next]_vars PROVE TypeOK'
    OBVIOUS
  <2> USE DEF TypeOK
  <2>1. CASE MemRead
    <3>1. data' \in Tags \X Tags
      BY <2>1, DmaAssumption DEF MemRead, Word, Tags
    <3>2. s_addr' \in 0 .. AddrSpan - 1
      BY <2>1, NextInRange DEF MemRead
    <3> QED  BY <2>1, <3>1, <3>2 DEF MemRead, params, counts, hist
  <2>2. ASSUME Count PROVE b_ctr' \in Nat /\ n_ctr' \in 0 .. 2 * NumSpan - 1
    BY <2>2, DmaAssumption DEF Count, next_burst
  <2>3. CASE MemWrite
    BY <2>2, <2>3, NextInRange DEF MemWrite, params
  <2>4. CASE ByteIn
    <3>1. data' \in Tags \X Tags
      BY <2>4 DEF ByteIn, Tags
    <3> QED  BY <2>4, <3>1, NextInRange DEF ByteIn, params, counts
  <2>5. CASE ByteOut
    <3>1. CASE bsel = 1
      BY <2>2, <2>5, <3>1, NextInRange DEF ByteOut, params
    <3>2. CASE bsel = 0
      BY <2>5, <3>2 DEF ByteOut, params, counts
    <3> QED  BY <3>1, <3>2
  <2>6. CASE WordIn
    BY <2>6, NextInRange DEF WordIn, params, counts, Tags
  <2>7. CASE WordOut
    BY <2>2, <2>7, NextInRange DEF WordOut, params
  <2>8. CASE Interrupt
    BY <1>0, <2>8 DEF Interrupt, addrs, params, counts
  <2>9. ASSUME NEW a \in Addrs, NEW len \in Lens, NEW num \in Nums, Program(a, len, num)
        PROVE TypeOK'
    BY <2>9, DmaAssumption DEF Program, counts, hist
  <2>10. ASSUME NEW c \in Controls, Launch(c)
         PROVE TypeOK'
    <3>1. b_len \in Nat /\ b_num \in 0 .. 2 * NumSpan - 1
      BY DmaAssumption
    <3>2. launches + 1 \in 0 .. MaxLaunches
      BY <2>10, DmaAssumption DEF Launch
    <3>3. <<s_addr, d_addr>> \in Pairs
      OBVIOUS
    <3>4. b_ctr' \in Nat /\ n_ctr' \in 0 .. 2 * NumSpan - 1
      BY <2>10, <3>1 DEF Launch, Load
    <3>5. launches' \in 0 .. MaxLaunches /\ job' \in Pairs
      BY <2>10, <3>2, <3>3 DEF Launch, Load
    <3> HIDE DEF Pairs
    <3> QED  BY <2>10, <3>4, <3>5 DEF Launch, Load, Pairs, addrs
  <2>11. CASE OwnSpi
    BY <2>11 DEF OwnSpi, addrs, params, counts, hist, Tags
  <2>12. CASE OwnIde
    BY <2>12, NextInRange DEF OwnIde, params, counts, hist, Tags, Word
  <2>13. CASE Reset
    <3>1. n_ctr' \in 0 .. 2 * NumSpan - 1
      BY <2>13, DmaAssumption DEF Reset, dma_act
    <3> QED  BY <1>0, <2>13, <3>1 DEF Reset, addrs, params
  <2>14. CASE UNCHANGED vars
    BY <2>14 DEF vars, addrs, params, counts, hist
  <2> QED
    BY <2>1, <2>3, <2>4, <2>5, <2>6, <2>7, <2>8, <2>9, <2>10, <2>11, <2>12, <2>13, <2>14
    DEF Next, Strobe
<1> QED  BY <1>1, <1>2, PTL DEF Spec

-----------------------------------------------------------------------------
(* The length of a transfer                                                *)

\* The counters and the words moved always make up the whole transfer; the
\* interrupt is owed while a transfer runs, and after it only when all the
\* words have moved.
Balance ==
  /\ dma_act => /\ moved + n_ctr * (b_len + 1) + b_ctr + 1 = Words
                /\ dma_act_r
  /\ ~dma_act /\ dma_act_r => moved = Words

IInv == TypeOK /\ Balance

LEMMA Lines ==
  ASSUME NEW n \in Nat, NEW w \in Nat
  PROVE  (n + 1) * w = n * w + w /\ n * w \in Nat
OBVIOUS

\* Balance gives the property: the counters never reach below zero.
LEMMA BalanceIsExact == IInv => TransferExact
<1> SUFFICES ASSUME IInv PROVE TransferExact
  OBVIOUS
<1>1. b_len \in Nat /\ b_ctr \in Nat /\ n_ctr \in Nat /\ moved \in Nat
  BY DmaAssumption DEF IInv, TypeOK
<1>2. n_ctr * (b_len + 1) \in Nat
  BY <1>1, Lines
<1>3. dma_act => moved < moved + n_ctr * (b_len + 1) + b_ctr + 1
  BY <1>1, <1>2
<1> QED  BY <1>3 DEF IInv, Balance, TransferExact

\* "cycle processed": one word moved is one word less to move.
LEMMA CountKeepsBalance ==
  ASSUME IInv, dma_act, Count, moved' = moved + 1, UNCHANGED <<b_len, b_num, dma_act_r>>
  PROVE  Balance'
<1>1. /\ b_len \in Nat /\ b_num \in Nat /\ b_ctr \in Nat /\ n_ctr \in Nat
      /\ moved \in Nat /\ NumSpan \in Nat \ {0} /\ n_ctr < NumSpan
  BY DmaAssumption DEF IInv, TypeOK, dma_act
<1>2. /\ moved + n_ctr * (b_len + 1) + b_ctr + 1 = Words
      /\ dma_act_r /\ dma_act_r' /\ Words' = Words
  BY DEF IInv, Balance, Words
<1>3. CASE b_ctr # 0
  BY <1>1, <1>2, <1>3 DEF Count, next_burst, Balance, dma_act, Words
<1>4. CASE b_ctr = 0 /\ n_ctr # 0
  <2>1. b_ctr' = b_len /\ n_ctr' = n_ctr - 1
    BY <1>4 DEF Count, next_burst
  <2>2. n_ctr * (b_len + 1) = n_ctr' * (b_len + 1) + b_len + 1
    BY <1>1, <1>4, <2>1, Lines
  <2>3. moved' + n_ctr' * (b_len + 1) + b_ctr' + 1 = Words'
    BY <1>1, <1>2, <1>4, <2>1, <2>2, Lines
  <2>4. dma_act'
    BY <1>1, <1>4, <2>1 DEF dma_act
  <2> QED  BY <1>2, <2>3, <2>4 DEF Balance
<1>5. CASE b_ctr = 0 /\ n_ctr = 0
  <2>1. n_ctr' = 2 * NumSpan - 1
    BY <1>5 DEF Count, next_burst
  <2>2. ~dma_act'
    BY <1>1, <2>1 DEF dma_act
  <2>3. n_ctr * (b_len + 1) = 0
    BY <1>1, <1>5
  <2>4. moved' = Words'
    BY <1>1, <1>2, <1>5, <2>3
  <2> QED  BY <2>2, <2>4 DEF Balance
<1> QED  BY <1>3, <1>4, <1>5

LEMMA BalanceInit == Init => Balance
<1> SUFFICES ASSUME Init PROVE Balance
  OBVIOUS
<1>1. ~dma_act /\ ~dma_act_r
  BY DmaAssumption DEF Init, dma_act
<1> QED  BY <1>1 DEF Balance

\* A launch loads a balance; a word keeps it; a reset and the interrupt end
\* it; nothing else touches it.
LEMMA BalanceStep == IInv /\ [Next]_vars => Balance'
<1> SUFFICES ASSUME IInv, [Next]_vars PROVE Balance'
  OBVIOUS
<1> DEFINE Same == UNCHANGED <<b_len, b_num, counts, moved, dma_act_r>>
<1>1. Same => Balance'
  BY DEF IInv, Balance, counts, dma_act, Words
<1>2. ASSUME dma_act, Count, moved' = moved + 1, UNCHANGED <<params, dma_act_r>>
      PROVE  Balance'
  BY <1>2, CountKeepsBalance DEF params
<1>3. CASE MemRead
  BY <1>1, <1>3 DEF MemRead, params, hist
<1>4. CASE MemWrite
  BY <1>2, <1>4 DEF MemWrite
<1>5. CASE ByteIn
  BY <1>1, <1>5 DEF ByteIn, params
<1>6. CASE ByteOut
  BY <1>1, <1>2, <1>6 DEF ByteOut, params
<1>7. CASE WordIn
  BY <1>1, <1>7 DEF WordIn, params
<1>8. CASE WordOut
  BY <1>2, <1>8 DEF WordOut
<1>9. CASE Interrupt
  BY <1>9 DEF Interrupt, Balance, counts, dma_act
<1>10. ASSUME NEW a \in Addrs, NEW len \in Lens, NEW num \in Nums, Program(a, len, num)
       PROVE  Balance'
  BY <1>10 DEF Program, Quiet, Balance, counts, hist, dma_act
<1>11. ASSUME NEW c \in Controls, Launch(c)
       PROVE  Balance'
  <2>1. b_len \in Nat /\ b_num \in Nat /\ b_num < NumSpan
    BY DmaAssumption DEF IInv, TypeOK
  <2>2. /\ b_ctr' = b_len /\ n_ctr' = b_num /\ moved' = 0 /\ dma_act_r'
        /\ b_len' = b_len /\ b_num' = b_num
    BY <1>11 DEF Launch, Load
  <2>3. Words' = b_num * (b_len + 1) + b_len + 1
    BY <2>1, <2>2, Lines DEF Words
  <2>4. moved' + n_ctr' * (b_len' + 1) + b_ctr' + 1 = Words'
    BY <2>1, <2>2, <2>3, Lines
  <2>5. dma_act'
    BY <2>1, <2>2 DEF dma_act
  <2> QED  BY <2>2, <2>4, <2>5 DEF Balance
<1>12. CASE OwnSpi
  BY <1>1, <1>12 DEF OwnSpi, params, hist
<1>13. CASE OwnIde
  BY <1>1, <1>13 DEF OwnIde, params, hist
<1>14. CASE Reset
  <2>1. n_ctr \in Nat /\ NumSpan \in Nat
    BY DmaAssumption DEF IInv, TypeOK
  <2>2. ~dma_act' /\ ~dma_act_r'
    BY <1>14, <2>1 DEF Reset, dma_act
  <2> QED  BY <2>2 DEF Balance
<1>15. CASE UNCHANGED vars
  BY <1>1, <1>15 DEF vars, params, hist
<1> QED
  BY <1>3, <1>4, <1>5, <1>6, <1>7, <1>8, <1>9, <1>10, <1>11, <1>12, <1>13, <1>14, <1>15
  DEF Next, Strobe

\* A transfer of any length moves exactly its words, for all values of DMALen
\* and DMANum, and its interrupt comes when it has moved them; the types hold.
THEOREM TransfersAreExact == Spec => []Inv
<1>1. Init => Balance
  BY BalanceInit
<1>2. TypeOK /\ Balance /\ [Next]_vars => Balance'
  BY BalanceStep DEF IInv
<1>3. TypeOK /\ Balance => TransferExact
  BY BalanceIsExact DEF IInv
<1> QED  BY <1>1, <1>2, <1>3, TypeCorrect, PTL DEF Spec, Inv

-----------------------------------------------------------------------------
(* Where words go                                                          *)

\* The first word is at the start address.
LEMMA PlaceOfFirst ==
  ASSUME NEW start \in 0 .. AddrSpan - 1, NEW r \in Nat, NEW aligned \in BOOLEAN,
         NEW len \in Nat \ {0}, NEW line, IsLine(line)
  PROVE  Place(0, start, r, aligned, line, len) = start
<1>1. line \in Nat \ {0} /\ AddrSpan \in Nat \ {0}
  BY DmaAssumption DEF IsLine
<1>2. 0 \div len = 0 /\ 0 % len = 0
  <2>1. 0 = 0 * len + 0 /\ 0 \in 0 .. len - 1
    OBVIOUS
  <2> QED  BY <2>1, DivMod
<1>3. start % AddrSpan = start
  <2>1. start = 0 * AddrSpan + start
    BY <1>1
  <2> QED  BY <1>1, <2>1, DivMod
<1>4. (start \div line) * line + (start % line) = start
  BY <1>1
<1>5. (start \div line) + 0 = start \div line /\ start + 0 = start
  BY <1>1
<1> QED  BY <1>2, <1>3, <1>4, <1>5 DEF Place

\* Where a word of an aligned transfer is in its line.
LEMMA PlaceInLine ==
  ASSUME NEW b \in Nat, NEW o, NEW line, IsLine(line), o \in 0 .. line - 1
  PROVE  LET a == (b * line + o) % AddrSpan
         IN /\ a \in Nat /\ a % line = o
            /\ \A x \in 0 .. line - 1 :
                 /\ (a \div line) * line + x = (b * line + x) % AddrSpan
                 /\ ((a \div line + 1) * line + x) % AddrSpan = ((b + 1) * line + x) % AddrSpan
<1>1. line \in Nat \ {0} /\ AddrSpan \in Nat \ {0}
  BY DmaAssumption DEF IsLine
<1>2. PICK q \in Nat \ {0} : AddrSpan = q * line
  BY DEF IsLine
<1> DEFINE a == (b * line + o) % AddrSpan
<1>3. ASSUME NEW c \in Nat, NEW x \in 0 .. line - 1
      PROVE  (c * line + x) % AddrSpan = (c % q) * line + x
  BY <1>1, <1>2, ModMul
<1>4. b % q \in Nat
  BY <1>2
<1>5. a = (b % q) * line + o
  BY <1>3
<1>6. a \in Nat /\ a \div line = b % q /\ a % line = o
  <2> DEFINE d == b % q
  <2>1. d \in Nat /\ a = d * line + o /\ d * line \in Nat
    BY <1>1, <1>4, <1>5
  <2> HIDE DEF d, a
  <2>2. a \div line = d /\ a % line = o
    BY <1>1, <2>1, DivMod
  <2> QED  BY <2>1, <2>2 DEF d
<1> HIDE DEF a
<1>7. ASSUME NEW x \in 0 .. line - 1
      PROVE  /\ (a \div line) * line + x = (b * line + x) % AddrSpan
             /\ ((a \div line + 1) * line + x) % AddrSpan = ((b + 1) * line + x) % AddrSpan
  <2>1. (a \div line) * line + x = (b * line + x) % AddrSpan
    BY <1>3, <1>6
  <2>2. ((b + 1) * line + x) % AddrSpan = ((b + 1) % q) * line + x
    BY <1>3
  <2>3. (((b % q) + 1) * line + x) % AddrSpan = (((b % q) + 1) % q) * line + x
    BY <1>3, <1>4
  <2>4. ((b % q) + 1) % q = (b + 1) % q
    BY <1>2, ModStep
  <2> QED  BY <1>6, <2>1, <2>2, <2>3, <2>4
<1> QED  BY <1>6, <1>7 DEF a

\* The next address is the place of the next word, if next_burst says truly
\* that the word is the last of its burst.
LEMMA NextIsPlace ==
  ASSUME NEW k \in Nat, NEW start \in 0 .. AddrSpan - 1, NEW r \in Nat, NEW aligned \in BOOLEAN,
         NEW len \in Nat \ {0}, NEW line, IsLine(line), NEW last \in BOOLEAN,
         last <=> k % len = len - 1
  PROVE  NextAddr(Place(k, start, r, aligned, line, len), r, aligned, line, last)
           = Place(k + 1, start, r, aligned, line, len)
<1> DEFINE burst == k \div len
           off   == k % len
           from  == IF burst = 0 THEN start ELSE r
           b     == (start \div line) + burst
           o     == (from + off) % line
           a     == Place(k, start, r, aligned, line, len)
<1>1. line \in Nat \ {0} /\ AddrSpan \in Nat \ {0}
  BY DmaAssumption DEF IsLine
<1>2. burst \in Nat /\ off \in 0 .. len - 1 /\ k = burst * len + off
  OBVIOUS
<1>3. from \in Nat
  OBVIOUS
<1>4. b \in Nat
  BY <1>1, <1>2
<1>5. CASE ~aligned
  <2>1. start + k \in Nat /\ start + (k + 1) = (start + k) + 1
    BY <1>1
  <2>2. (((start + k) % AddrSpan) + 1) % AddrSpan = ((start + k) + 1) % AddrSpan
    BY <1>1, <2>1, ModStep
  <2> QED  BY <1>5, <2>1, <2>2 DEF Place, NextAddr
<1>6. CASE aligned
  <2> HIDE DEF burst, off
  <2>1. o \in 0 .. line - 1 /\ from + off \in Nat
    <3>1. from + off \in Nat
      BY <1>2, <1>3
    <3> HIDE DEF from
    <3> QED  BY <1>1, <3>1
  <2>2. a = (b * line + o) % AddrSpan
    BY <1>6 DEF Place, burst, off
  <2> HIDE DEF a, b, o, from
  <2>3. /\ a \in Nat /\ a % line = o
        /\ \A x \in 0 .. line - 1 :
             /\ (a \div line) * line + x = (b * line + x) % AddrSpan
             /\ ((a \div line + 1) * line + x) % AddrSpan = ((b + 1) * line + x) % AddrSpan
    BY <1>4, <2>1, <2>2, PlaceInLine
  <2>4. CASE ~last
    <3>2. (k + 1) \div len = burst /\ (k + 1) % len = off + 1
      BY <2>4, DivModNext DEF burst, off
    <3>3. (a + 1) % line = (from + (off + 1)) % line
      <4>1. (a + 1) % line = (o + 1) % line
        BY <1>1, <2>3, ModStep
      <4>2. (o + 1) % line = ((from + off) + 1) % line
        BY <1>1, <2>1, ModStep DEF o
      <4>3. (from + off) + 1 = from + (off + 1)
        BY <1>2, <1>3 DEF from
      <4> QED  BY <4>1, <4>2, <4>3
    <3>4. (a + 1) % line \in 0 .. line - 1
      BY <1>1, <2>3
    <3>5. (a \div line) * line + ((a + 1) % line)
            = (b * line + ((from + (off + 1)) % line)) % AddrSpan
      BY <2>3, <3>3, <3>4
    <3>6. Place(k + 1, start, r, aligned, line, len)
            = (b * line + ((from + (off + 1)) % line)) % AddrSpan
      BY <1>6, <3>2 DEF Place, b, from
    <3> QED  BY <1>6, <2>4, <3>5, <3>6 DEF NextAddr, a
  <2>5. CASE last
    <3>2. (k + 1) \div len = burst + 1 /\ (k + 1) % len = 0
      BY <2>5, DivModNext DEF burst, off
    <3>3. r % line \in 0 .. line - 1 /\ r + 0 = r
      BY <1>1
    <3>4. burst + 1 # 0 /\ (start \div line) + (burst + 1) = b + 1
      BY <1>1, <1>2 DEF b
    <3>5. Place(k + 1, start, r, aligned, line, len) = ((b + 1) * line + (r % line)) % AddrSpan
      BY <1>6, <3>2, <3>3, <3>4 DEF Place
    <3> QED  BY <1>6, <2>3, <2>5, <3>3, <3>5 DEF NextAddr, a
  <2> QED  BY <2>4, <2>5
<1> QED  BY <1>5, <1>6

\* next_burst and the counters agree with the words moved.
Progress == dma_act => b_ctr <= b_len /\ n_ctr <= b_num

\* Words read in this transfer, the fill apart.
WordsRead == moved + (IF phase = 1 \/ phase_blt = 1 THEN 1 ELSE 0)

\* The addresses are those of the word to read and of the word to write; a
\* fill reads one word, the first.
AtPlace ==
  dma_act => /\ d_addr = DestOf(moved)
             /\ ctrl.dev = "fill" /\ phase = 0 => moved = 0
             /\ (ctrl.dev = "fill" => phase = 0) => s_addr = SourceOf(WordsRead)

\* What data holds of a word that is not complete, and of one that is; the
\* device's bytes are counted, two to a word.
Held ==
  dma_act =>
    /\ phase_blt = 1 => phase = 0 /\ ctrl.dev = "blt" /\ data[1] = <<"mem", SourceOf(moved)>>
    /\ bsel = 1 => state_dev /\ dev_byte
    /\ FromDevice =>
         /\ taken = 2 * WordsRead + (IF phase = 0 THEN bsel ELSE 0)
         /\ phase = 0 /\ bsel = 1 => data[1] = <<"dev", 2 * moved>>
    /\ phase = 1 => data = Origin(moved)

WordInv == IInv /\ Progress /\ AtPlace /\ Held

LEMMA WordTypes ==
  ASSUME WordInv
  PROVE  /\ moved \in Nat /\ b_len \in Nat /\ b_len + 1 \in Nat \ {0} /\ b_num \in Nat
         /\ b_ctr \in Nat /\ n_ctr \in Nat /\ taken \in Nat /\ NumSpan \in Nat \ {0}
         /\ s_addr_r \in Nat /\ d_addr_r \in Nat
         /\ ctrl.salgn \in BOOLEAN /\ ctrl.dalgn \in BOOLEAN
         /\ job[1] \in 0 .. AddrSpan - 1 /\ job[2] \in 0 .. AddrSpan - 1
         /\ phase \in {0, 1} /\ phase_blt \in {0, 1} /\ bsel \in {0, 1}
         /\ TypeOK
BY DmaAssumption DEF WordInv, IInv, TypeOK

\* next_burst is the last word of a burst.
LEMMA LastOfBurst ==
  ASSUME WordInv, dma_act
  PROVE  next_burst <=> moved % (b_len + 1) = (b_len + 1) - 1
<1> DEFINE len == b_len + 1
           q   == b_num - n_ctr
           r   == b_len - b_ctr
<1>1. /\ moved + n_ctr * (b_len + 1) + b_ctr + 1 = (b_num + 1) * (b_len + 1)
      /\ b_ctr <= b_len /\ n_ctr <= b_num
  BY DEF WordInv, IInv, Balance, Progress, Words
<1>2. len \in Nat \ {0} /\ q \in Nat /\ r \in 0 .. len - 1
  BY <1>1, WordTypes
<1>3. moved = q * len + r
  <2>1. (b_num + 1) * len = q * len + n_ctr * len + len
    BY <1>1, WordTypes
  <2> DEFINE u == n_ctr * len
             v == q * len
  <2>2. u \in Nat /\ v \in Nat /\ moved + u + b_ctr + 1 = v + u + len
    BY <1>1, <1>2, <2>1, WordTypes
  <2> HIDE DEF u, v
  <2>3. moved = v + r
    BY <2>2, WordTypes
  <2> QED  BY <2>3 DEF v
<1>4. moved % len = r
  <2> HIDE DEF len, q, r
  <2> QED  BY <1>2, <1>3, DivMod
<1> QED  BY <1>4, WordTypes DEF next_burst

\* The next addresses are the places of the next word.
LEMMA NextWord ==
  ASSUME WordInv, dma_act
  PROVE  /\ s_addr = SourceOf(moved) => NextSource = SourceOf(moved + 1)
         /\ d_addr = DestOf(moved) => NextDest = DestOf(moved + 1)
<1> DEFINE len == b_len + 1
<1>1. next_burst \in BOOLEAN /\ (next_burst <=> moved % len = len - 1) /\ len \in Nat \ {0}
  BY WordTypes, LastOfBurst DEF next_burst
<1>a. /\ moved \in Nat /\ s_addr_r \in Nat /\ d_addr_r \in Nat /\ IsLine(Line)
      /\ ctrl.salgn \in BOOLEAN /\ ctrl.dalgn \in BOOLEAN
      /\ job[1] \in 0 .. AddrSpan - 1 /\ job[2] \in 0 .. AddrSpan - 1
  BY WordTypes, MemoryIsLines
<1> HIDE DEF len
<1>2. NextAddr(SourceOf(moved), s_addr_r, ctrl.salgn, Line, next_burst) = SourceOf(moved + 1)
  <2>1. NextAddr(Place(moved, job[1], s_addr_r, ctrl.salgn, Line, len), s_addr_r, ctrl.salgn,
                 Line, next_burst)
          = Place(moved + 1, job[1], s_addr_r, ctrl.salgn, Line, len)
    BY <1>1, <1>a, NextIsPlace
  <2> QED  BY <2>1 DEF SourceOf, len
<1>3. NextAddr(DestOf(moved), d_addr_r, ctrl.dalgn, Line, next_burst) = DestOf(moved + 1)
  <2>1. NextAddr(Place(moved, job[2], d_addr_r, ctrl.dalgn, Line, len), d_addr_r, ctrl.dalgn,
                 Line, next_burst)
          = Place(moved + 1, job[2], d_addr_r, ctrl.dalgn, Line, len)
    BY <1>1, <1>a, NextIsPlace
  <2> QED  BY <2>1 DEF DestOf, len
<1> QED  BY <1>2, <1>3 DEF NextSource, NextDest

\* A word written: the addresses are those of the next one.
LEMMA WordDone ==
  ASSUME WordInv, dma_act, phase = 1, Count, moved' = moved + 1, d_addr' = NextDest,
         phase' = IF ctrl.dev = "fill" THEN 1 ELSE 0, bsel' = 0,
         UNCHANGED <<s_addr, params, phase_blt, data, taken, job>>
  PROVE  Progress' /\ AtPlace' /\ Held'
<1>1. phase_blt = 0 /\ WordsRead = moved + 1 /\ WordsRead' = moved' + IF phase' = 1 THEN 1 ELSE 0
  BY WordTypes DEF WordInv, Held, WordsRead
<1>2. /\ d_addr = DestOf(moved)
      /\ ctrl.dev # "fill" => s_addr = SourceOf(moved + 1)
      /\ data = Origin(moved)
      /\ FromDevice => taken = 2 * (moved + 1)
  BY <1>1, WordTypes DEF WordInv, AtPlace, Held
<1>3. Progress'
  BY WordTypes DEF WordInv, Progress, Count, dma_act, next_burst, params
<1>4. d_addr' = DestOf(moved + 1)
  BY <1>2, NextWord
<1>5. CASE ctrl.dev = "fill"
  <2>1. AtPlace'
    BY <1>1, <1>4, <1>5 DEF AtPlace, DestOf, Line, params
  <2>2. ~FromDevice /\ ~FromDevice'
    BY <1>5 DEF FromDevice, params
  <2>3. data' = Origin(moved)'
    BY <1>2, <1>5, <2>2 DEF Origin, Word, SourceOf, Line, params
  <2> QED  BY <1>1, <1>3, <1>5, <2>1, <2>2, <2>3 DEF Held
<1>6. CASE ctrl.dev # "fill"
  <2>1. phase' = 0 /\ WordsRead' = moved'
    BY <1>1, <1>6, WordTypes
  <2>2. AtPlace'
    BY <1>2, <1>4, <1>6, <2>1 DEF AtPlace, SourceOf, DestOf, Line, params
  <2>3. FromDevice' => taken' = 2 * moved'
    BY <1>2 DEF FromDevice, params
  <2>4. Held'
    BY <1>1, <2>1, <2>3, WordTypes DEF Held
  <2> QED  BY <1>3, <2>2, <2>4
<1> QED  BY <1>5, <1>6

\* A read of memory: the blitter's source, its destination, or the word.
LEMMA WordRead ==
  ASSUME WordInv, MemRead
  PROVE  Progress' /\ AtPlace' /\ Held'
<1>1. /\ dma_act /\ phase = 0 /\ state_mem
      /\ UNCHANGED <<d_addr, params, b_ctr, n_ctr, bsel, taken, moved, job>>
  BY DEF MemRead, counts, hist
<1>2. ~FromDevice /\ ~FromDevice' /\ bsel = 0
  BY <1>1, WordTypes DEF FromDevice, state_mem, state_dev, dev_ram, WordInv, Held, params
<1>3. /\ d_addr = DestOf(moved) /\ s_addr = SourceOf(WordsRead)
      /\ ctrl.dev = "fill" => moved = 0
  BY <1>1 DEF WordInv, AtPlace
<1>4. Progress'
  BY <1>1 DEF WordInv, Progress, dma_act, params
<1>5. d_addr' = DestOf(moved)'
  BY <1>1, <1>3 DEF DestOf, Line, params
<1>6. CASE ctrl.dev = "blt" /\ phase_blt = 1
  <2>1. phase' = 1 /\ phase_blt' = 0 /\ data' = <<data[1], <<"mem", d_addr>> >> /\ s_addr' = s_addr
    BY <1>6 DEF MemRead, BlitHook
  <2>2. data[1] = <<"mem", SourceOf(moved)>>
    BY <1>1, <1>6 DEF WordInv, Held
  <2>3. data' = Origin(moved)'
    BY <1>1, <1>2, <1>3, <1>6, <2>1, <2>2 DEF Origin, SourceOf, DestOf, Line, params
  <2>4. WordsRead' = WordsRead
    BY <1>1, <1>6, <2>1 DEF WordsRead
  <2>5. s_addr' = SourceOf(WordsRead)'
    BY <1>1, <1>3, <2>1, <2>4 DEF SourceOf, Line, params
  <2>6. AtPlace'
    BY <1>5, <2>1, <2>5 DEF AtPlace
  <2> QED  BY <1>1, <1>2, <1>4, <2>1, <2>3, <2>6 DEF Held
<1>7. CASE ~(ctrl.dev = "blt" /\ phase_blt = 1)
  <2>1. phase_blt = 0 /\ WordsRead = moved
    BY <1>1, <1>7, WordTypes DEF WordInv, Held, WordsRead
  <2>2. s_addr' = SourceOf(moved + 1) /\ data' = Word(<<"mem", SourceOf(moved)>>)
    BY <1>1, <1>3, <1>7, <2>1, NextWord DEF MemRead
  <2>3. CASE ctrl.dev = "blt"
    <3>1. phase' = 0 /\ phase_blt' = 1
      BY <2>1, <2>3 DEF MemRead, BlitHook
    <3>2. WordsRead' = moved + 1
      BY <1>1, <3>1 DEF WordsRead
    <3>3. s_addr' = SourceOf(WordsRead)'
      BY <1>1, <2>2, <3>2 DEF SourceOf, Line, params
    <3>4. data'[1] = <<"mem", SourceOf(moved)'>>
      BY <1>1, <2>2 DEF Word, SourceOf, Line, params
    <3>5. AtPlace'
      BY <1>1, <1>5, <2>3, <3>3 DEF AtPlace, params
    <3> QED  BY <1>1, <1>2, <1>4, <2>3, <3>1, <3>4, <3>5 DEF Held, params
  <2>4. CASE ctrl.dev # "blt"
    <3>1. phase' = 1 /\ phase_blt' = 0
      BY <2>1, <2>4 DEF MemRead, BlitHook
    <3>2. WordsRead' = moved + 1
      BY <1>1, <3>1 DEF WordsRead
    <3>3. s_addr' = SourceOf(WordsRead)'
      BY <1>1, <2>2, <3>2 DEF SourceOf, Line, params
    <3>4. data' = Origin(moved)'
      BY <1>1, <1>2, <1>3, <2>2, <2>4 DEF Origin, Word, SourceOf, Line, params
    <3>5. AtPlace'
      BY <1>5, <3>1, <3>3 DEF AtPlace
    <3> QED  BY <1>1, <1>2, <1>4, <3>1, <3>4, <3>5 DEF Held
  <2> QED  BY <2>3, <2>4
<1> QED  BY <1>6, <1>7

\* A strobe of the device that gives: half a word, or one.
LEMMA WordGiven ==
  ASSUME WordInv, ByteIn \/ WordIn
  PROVE  Progress' /\ AtPlace' /\ Held'
<1>1. /\ dma_act /\ phase = 0 /\ state_dev /\ ctrl.dev \in {"spi", "wtp", "ide"}
      /\ UNCHANGED <<d_addr, params, b_ctr, n_ctr, phase_blt, moved, job>>
  BY DEF ByteIn, WordIn, dev_byte, counts, hist
<1>2. /\ FromDevice /\ FromDevice' /\ ctrl.dev # "fill" /\ ctrl.dev # "blt"
      /\ phase_blt = 0 /\ phase_blt' = 0
  BY <1>1, WordTypes DEF FromDevice, state_mem, state_dev, dev_ram, WordInv, Held, params
<1>3. /\ WordsRead = moved
      /\ d_addr = DestOf(moved) /\ s_addr = SourceOf(moved)
      /\ taken = 2 * moved + bsel
      /\ bsel = 1 => data[1] = <<"dev", 2 * moved>>
  <2>1. WordsRead = moved
    BY <1>1, <1>2, WordTypes DEF WordsRead
  <2> QED  BY <1>1, <1>2, <2>1 DEF WordInv, AtPlace, Held
<1>4. Progress'
  BY <1>1 DEF WordInv, Progress, dma_act, params
<1>5. d_addr' = DestOf(moved)'
  BY <1>1, <1>3 DEF DestOf, Line, params
<1>6. CASE ByteIn /\ bsel = 0
  <2>0. bsel + 1 = 1 /\ taken = 2 * moved
    BY <1>3, <1>6, WordTypes
  <2>1. /\ phase' = 0 /\ bsel' = 1 /\ taken' = 2 * moved + 1 /\ s_addr' = s_addr
        /\ data' = [data EXCEPT ![1] = <<"dev", 2 * moved>>]
    BY <1>6, <2>0 DEF ByteIn
  <2>2. data'[1] = <<"dev", 2 * moved>>
    BY <2>1, WordTypes DEF TypeOK
  <2>3. WordsRead' = moved
    BY <1>1, <1>2, <2>1, WordTypes DEF WordsRead
  <2>4. s_addr' = SourceOf(WordsRead)'
    BY <1>1, <1>3, <2>1, <2>3 DEF SourceOf, Line, params
  <2>5. AtPlace'
    BY <1>1, <1>2, <1>5, <2>4 DEF AtPlace, params
  <2>6. state_dev' /\ dev_byte'
    BY <1>1, <1>6, <2>1 DEF ByteIn, state_dev, state_mem, dev_ram, dev_byte, params
  <2> QED  BY <1>1, <1>2, <1>4, <2>1, <2>2, <2>3, <2>5, <2>6 DEF Held
<1>7. CASE ByteIn /\ bsel = 1
  <2>1. /\ phase' = 1 /\ bsel' = 0 /\ taken' = 2 * moved + 2
        /\ data' = [data EXCEPT ![2] = <<"dev", 2 * moved + 1>>]
    BY <1>3, <1>7, WordTypes DEF ByteIn
  <2>2. data' = << <<"dev", 2 * moved>>, <<"dev", 2 * moved + 1>> >>
    BY <1>3, <1>7, <2>1, WordTypes DEF TypeOK
  <2>3. s_addr' = SourceOf(moved + 1)
    BY <1>1, <1>3, <1>7, NextWord DEF ByteIn
  <2>4. WordsRead' = moved + 1
    BY <1>1, <2>1 DEF WordsRead
  <2>5. s_addr' = SourceOf(WordsRead)'
    BY <1>1, <2>3, <2>4 DEF SourceOf, Line, params
  <2>6. AtPlace'
    BY <1>5, <2>1, <2>5 DEF AtPlace
  <2>7. data' = Origin(moved)'
    BY <1>1, <1>2, <2>2 DEF Origin
  <2> QED  BY <1>2, <1>4, <2>1, <2>4, <2>6, <2>7, WordTypes DEF Held
<1>8. CASE WordIn
  <2>1. bsel = 0
    BY <1>8, WordTypes DEF WordIn, WordInv, Held, dev_byte
  <2>2. /\ phase' = 1 /\ bsel' = 0 /\ taken' = 2 * moved + 2
        /\ data' = << <<"dev", 2 * moved>>, <<"dev", 2 * moved + 1>> >>
    BY <1>3, <1>8, <2>1, WordTypes DEF WordIn
  <2>3. s_addr' = SourceOf(moved + 1)
    BY <1>1, <1>3, <1>8, NextWord DEF WordIn
  <2>4. WordsRead' = moved + 1
    BY <1>1, <2>2 DEF WordsRead
  <2>5. s_addr' = SourceOf(WordsRead)'
    BY <1>1, <2>3, <2>4 DEF SourceOf, Line, params
  <2>6. AtPlace'
    BY <1>5, <2>2, <2>5 DEF AtPlace
  <2>7. data' = Origin(moved)'
    BY <1>1, <1>2, <2>2 DEF Origin
  <2> QED  BY <1>2, <1>4, <2>2, <2>4, <2>6, <2>7, WordTypes DEF Held
<1> QED  BY <1>6, <1>7, <1>8, WordTypes

\* A strobe of the device that takes: half a word, or one.
LEMMA WordTaken ==
  ASSUME WordInv, ByteOut \/ WordOut
  PROVE  Progress' /\ AtPlace' /\ Held'
<1>1. /\ dma_act /\ phase = 1 /\ state_dev
      /\ UNCHANGED <<s_addr, params, phase_blt, data, taken, job>>
  BY DEF ByteOut, WordOut
<1>2. ~FromDevice /\ ctrl.dev \notin {"ram", "fill", "blt"}
  BY <1>1, WordTypes DEF FromDevice, state_mem, state_dev, dev_ram
<1>3. ASSUME Count, d_addr' = NextDest, phase' = 0, moved' = moved + 1, bsel' = 0
      PROVE  Progress' /\ AtPlace' /\ Held'
  BY <1>1, <1>2, <1>3, WordDone
<1>4. CASE ByteOut /\ bsel = 1
  BY <1>3, <1>4 DEF ByteOut
<1>5. CASE ByteOut /\ bsel = 0
  <2>1. bsel' = 1 /\ UNCHANGED <<phase, d_addr, b_ctr, n_ctr, moved>>
    BY <1>5 DEF ByteOut, counts
  <2>2. Progress'
    BY <1>1, <2>1 DEF WordInv, Progress, dma_act, params
  <2>3. AtPlace'
    BY <1>1, <2>1 DEF WordInv, AtPlace, WordsRead, SourceOf, DestOf, Line, dma_act, params
  <2>4. /\ data' = Origin(moved)' /\ ~FromDevice' /\ phase_blt' = 0
    BY <1>1, <1>2, <2>1, WordTypes
    DEF WordInv, Held, Origin, FromDevice, SourceOf, DestOf, Line, params
  <2>5. state_dev' /\ dev_byte'
    BY <1>1, <1>5, <2>1 DEF ByteOut, state_dev, state_mem, dev_ram, dev_byte, params
  <2> QED  BY <2>2, <2>3, <2>4, <2>5 DEF Held
<1>6. CASE WordOut
  <2>1. bsel = 0
    BY <1>6, WordTypes DEF WordOut, WordInv, Held, dev_byte
  <2> QED  BY <1>3, <1>6, <2>1 DEF WordOut
<1> QED  BY <1>4, <1>5, <1>6, WordTypes

LEMMA WordInit == Init => Progress /\ AtPlace /\ Held
<1> SUFFICES ASSUME Init PROVE Progress /\ AtPlace /\ Held
  OBVIOUS
<1>1. ~dma_act
  BY DmaAssumption DEF Init, dma_act
<1> QED  BY <1>1 DEF Progress, AtPlace, Held

\* A launch begins at the first word whatever was left, a strobe goes to the
\* next one, and the program and a reset only act where no transfer is left.
LEMMA WordStep == WordInv /\ [Next]_vars => Progress' /\ AtPlace' /\ Held'
<1> SUFFICES ASSUME WordInv, [Next]_vars PROVE Progress' /\ AtPlace' /\ Held'
  OBVIOUS
<1>1. ASSUME ~dma_act' PROVE Progress' /\ AtPlace' /\ Held'
  BY <1>1 DEF Progress, AtPlace, Held
<1>2. ASSUME ~dma_act, n_ctr' = n_ctr PROVE ~dma_act'
  BY <1>2 DEF dma_act
<1>3. CASE MemRead
  BY <1>3, WordRead
<1>4. CASE MemWrite
  <2>1. bsel = 0
    BY <1>4, WordTypes DEF MemWrite, WordInv, Held, state_dev
  <2> QED  BY <1>4, <2>1, WordDone DEF MemWrite
<1>5. CASE ByteIn \/ WordIn
  BY <1>5, WordGiven
<1>6. CASE ByteOut \/ WordOut
  BY <1>6, WordTaken
<1>7. CASE Interrupt
  BY <1>1, <1>2, <1>7 DEF Interrupt, counts
<1>8. ASSUME NEW a \in Addrs, NEW len \in Lens, NEW num \in Nums, Program(a, len, num)
      PROVE  ~dma_act'
  BY <1>2, <1>8 DEF Program, Quiet, counts
<1>9. ASSUME NEW c \in Controls, Launch(c)
      PROVE  Progress' /\ AtPlace' /\ Held'
  <2>1. /\ ctrl' = c /\ phase' = 0 /\ phase_blt' = 0 /\ bsel' = 0 /\ moved' = 0 /\ taken' = 0
        /\ b_ctr' = b_len /\ n_ctr' = b_num /\ job' = <<s_addr, d_addr>>
        /\ UNCHANGED <<s_addr, d_addr, s_addr_r, d_addr_r, b_len, b_num>>
    BY <1>9 DEF Launch, Load, addrs
  <2>2. c.salgn \in BOOLEAN /\ c.dalgn \in BOOLEAN
    BY DmaAssumption
  <2>3. /\ s_addr \in 0 .. AddrSpan - 1 /\ d_addr \in 0 .. AddrSpan - 1
        /\ s_addr_r \in Nat /\ d_addr_r \in Nat /\ b_len + 1 \in Nat \ {0}
    BY WordTypes DEF TypeOK
  <2>4. IsLine(Line')
    <3>1. ctrl'.asz \in BOOLEAN
      BY <2>1, DmaAssumption
    <3> QED  BY <3>1, LinesOfMemory DEF Line
  <2>5. /\ Place(0, s_addr, s_addr_r, c.salgn, Line', b_len + 1) = s_addr
        /\ Place(0, d_addr, d_addr_r, c.dalgn, Line', b_len + 1) = d_addr
    BY <2>2, <2>3, <2>4, PlaceOfFirst
  <2>6. WordsRead' = 0
    BY <2>1 DEF WordsRead
  <2>7. SourceOf(0)' = s_addr' /\ DestOf(0)' = d_addr'
    BY <2>1, <2>5 DEF SourceOf, DestOf
  <2>8. AtPlace'
    BY <2>1, <2>6, <2>7 DEF AtPlace, SourceOf, DestOf
  <2>9. Held'
    BY <2>1, <2>6 DEF Held
  <2>10. Progress'
    BY <2>1, WordTypes DEF Progress
  <2> QED  BY <2>8, <2>9, <2>10
<1>10. CASE OwnSpi
  BY <1>1, <1>2, <1>10 DEF OwnSpi, Quiet, counts
<1>11. CASE OwnIde
  BY <1>1, <1>2, <1>11 DEF OwnIde, Quiet, counts
<1>12. CASE Reset
  <2>1. ~dma_act'
    BY <1>12, WordTypes DEF Reset, dma_act
  <2> QED  BY <1>1, <2>1
<1>13. CASE UNCHANGED vars
  BY <1>13 DEF vars, addrs, params, counts, hist, WordInv, Progress, AtPlace, Held, WordsRead,
     SourceOf, DestOf, Line, Origin, FromDevice, dma_act, state_dev, state_mem, dev_ram, dev_byte
<1> QED
  BY <1>1, <1>3, <1>4, <1>5, <1>6, <1>7, <1>8, <1>9, <1>10, <1>11, <1>12, <1>13 DEF Next, Strobe

\* The invariant gives the property: between its words a transfer's address is
\* that of the next one, and a word about to be written is complete.
LEMMA WordsAreInPlace == WordInv => WordsInPlace
<1> SUFFICES ASSUME WordInv, dma_act
             PROVE  IF phase = 0 THEN s_addr = SourceOf(moved) \/ phase_blt = 1
                    ELSE d_addr = DestOf(moved) /\ data = Origin(moved)
  BY DEF WordsInPlace
<1>1. CASE phase = 0 /\ phase_blt = 0
  <2>1. WordsRead = moved
    BY <1>1, WordTypes DEF WordsRead
  <2> QED  BY <1>1, <2>1 DEF WordInv, AtPlace
<1>2. CASE phase = 0 /\ phase_blt = 1
  BY <1>2
<1>3. CASE phase = 1
  BY <1>3 DEF WordInv, AtPlace, Held
<1> QED  BY <1>1, <1>2, <1>3, WordTypes

\* Every word of every transfer comes from its place and goes to its place,
\* or is the device's next two bytes in their order: for all memories, line
\* and burst lengths and alignments, whatever the program's own accesses,
\* resets and earlier transfers have left in the registers.
THEOREM WordsKeepTheirPlace == Spec => []WordsInPlace
<1>1. Init => Balance /\ Progress /\ AtPlace /\ Held
  BY BalanceInit, WordInit
<1>2. TypeOK /\ Balance /\ [Next]_vars => Balance'
  BY BalanceStep DEF IInv
<1>3. TypeOK /\ Balance /\ Progress /\ AtPlace /\ Held /\ [Next]_vars
        => Progress' /\ AtPlace' /\ Held'
  BY WordStep DEF WordInv, IInv
<1>4. TypeOK /\ Balance /\ Progress /\ AtPlace /\ Held => WordsInPlace
  BY WordsAreInPlace DEF WordInv, IInv
<1> QED  BY <1>1, <1>2, <1>3, <1>4, TypeCorrect, PTL DEF Spec

-----------------------------------------------------------------------------
(* The arbiter                                                             *)

USE DEF Clients

\* What is reserved fits in what is left.
Fits == blk_rem # 0 /\ ~stall => vid_rem <= blk_rem

\* The book-keeping of the current block.
Account == need = given + Owed

ArbiterIInv == ArbiterTypes /\ Fits /\ Account

\* A code below total is all-video exactly when it is 0.
LEMMA FullIsZero ==
  ASSUME NEW b \in Bandwidths
  PROVE  /\ b.total \in {2, 4, 8} /\ b.code \in 0 .. 7 /\ b.code < b.total
         /\ Full(b) <=> b.code = 0
         /\ b.code # 0 => (b.code + 7) % 8 = b.code - 1
         /\ b.code = 0 => (b.code + 7) % 8 = 7
         /\ Need(b) = (IF b.code = 0 THEN b.total ELSE b.code)
<1>1. b \in [total : {2, 4, 8}, code : 0 .. 7]
  BY BandwidthAssumption
<1>2. b.total \in {2, 4, 8} /\ b.code \in 0 .. 7 /\ b.code < b.total
  BY <1>1, CodeAssumption
<1>3. Full(b) <=> b.code = 0
  <2>1. CASE b.total = 2  BY <1>2, <2>1 DEF Full
  <2>2. CASE b.total = 4  BY <1>2, <2>2 DEF Full
  <2>3. CASE b.total = 8  BY <1>2, <2>3 DEF Full
  <2> QED  BY <1>2, <2>1, <2>2, <2>3
<1>4. b.code # 0 => (b.code + 7) % 8 = b.code - 1
  BY <1>2
<1>5. b.code = 0 => (b.code + 7) % 8 = 7
  BY <1>2
<1> QED  BY <1>2, <1>3, <1>4, <1>5 DEF Need

LEMMA ArbiterInitially == ArbiterInit => ArbiterIInv
BY BoundAssumption DEF ArbiterInit, ArbiterIInv, ArbiterTypes, Fits, Account, Owed

\* The three cases of a cycle: the first one of a block, one inside a block,
\* one between blocks.
LEMMA BlockStart ==
  ASSUME ArbiterIInv, Cycle, block_start
  PROVE  /\ blk_rem' = in.bw.total - 1
         /\ in.bw.code # 0 =>
              /\ ~stall'
              /\ \/ in.cpu /\ curr_cycle' = "cpu" /\ vid_rem' = in.bw.code /\ given' = 0
                 \/ ~in.cpu /\ curr_cycle' = "vid" /\ vid_rem' = in.bw.code - 1 /\ given' = 1
         /\ in.bw.code = 0 =>
              stall' /\ curr_cycle' = "vid" /\ vid_rem' \in 0 .. 7 /\ given' = 1
         /\ need' = Need(in.bw)
<1>1. in.bw \in Bandwidths
  BY DEF ArbiterIInv, ArbiterTypes, Inputs
<1>2. curr_cycle' = IF in.cpu /\ ~Full(in.bw) THEN "cpu" ELSE "vid"
  BY DEF Cycle, NextCycle
<1>3. /\ vid_rem' = IF in.cpu THEN in.bw.code ELSE (in.bw.code + 7) % 8
      /\ blk_rem' = in.bw.total - 1
      /\ stall' = Full(in.bw)
  BY DEF Cycle, blk_nrem, vid_nrem, block_start, video_start, Full
<1>4. need' = Need(in.bw) /\ given' = IF curr_cycle' = "vid" THEN 1 ELSE 0
  BY DEF Cycle, Remember
<1>5. in.cpu \in BOOLEAN
  BY DEF ArbiterIInv, ArbiterTypes, Inputs
<1> QED  BY <1>1, <1>2, <1>3, <1>4, <1>5, FullIsZero

LEMMA InBlock ==
  ASSUME ArbiterIInv, Cycle, blk_rem # 0
  PROVE  /\ blk_rem' = blk_rem - 1
         /\ stall' = stall
         /\ need' = need
         /\ curr_cycle' = "vid" =>
              /\ given' = given + 1
              /\ vid_rem # 0 => vid_rem' = vid_rem - 1
              /\ vid_rem = 0 => vid_rem' = 0
         /\ curr_cycle' # "vid" =>
              given' = given /\ vid_rem' = vid_rem /\ ~stall /\ vid_rem # blk_rem
         /\ curr_cycle' = "vid" /\ ~stall => vid_rem # 0
         /\ in.cpu /\ curr_cycle' # "cpu" => stall \/ vid_rem = blk_rem
<1>1. ~video_start /\ ~block_start
  BY DEF video_start, block_start
<1>2. blk_rem' = blk_rem - 1 /\ stall' = stall /\ need' = need
  BY <1>1 DEF Cycle, blk_nrem, Remember
<1>3. given' = given + (IF curr_cycle' = "vid" THEN 1 ELSE 0)
  BY <1>1 DEF Cycle, Remember
<1>4. vid_rem' = IF curr_cycle' = "vid" /\ vid_rem # 0 THEN vid_rem - 1 ELSE vid_rem
  BY <1>1 DEF Cycle, vid_nrem, video_idle
<1>5. CASE video_only
  <2>1. curr_cycle' = "vid"
    BY <1>1, <1>5 DEF Cycle, NextCycle
  <2> QED  BY <1>2, <1>3, <1>4, <1>5, <2>1 DEF video_only, ArbiterIInv, ArbiterTypes
<1>6. CASE ~video_only
  <2>1. curr_cycle' = IF in.cpu THEN "cpu" ELSE IF ~video_idle THEN "vid" ELSE Spare
    BY <1>1, <1>6 DEF Cycle, NextCycle
  <2>2. Spare # "vid"
    BY DEF Spare, Device
  <2>3. curr_cycle' = "vid" => vid_rem # 0
    BY <2>1, <2>2 DEF video_idle
  <2>4. in.cpu => curr_cycle' = "cpu"
    BY <2>1
  <2> QED  BY <1>2, <1>3, <1>4, <1>6, <2>3, <2>4 DEF video_only, ArbiterIInv, ArbiterTypes
<1> QED  BY <1>5, <1>6

LEMMA BetweenBlocks ==
  ASSUME ArbiterIInv, Cycle, blk_rem = 0, ~block_start
  PROVE  /\ blk_rem' = 0
         /\ curr_cycle' # "vid"
         /\ in.cpu => curr_cycle' = "cpu"
         /\ vid_rem' = vid_rem
         /\ ~stall'
         /\ need' = need /\ given' = given
<1>1. video_start /\ ~in.go
  BY DEF video_start, block_start
<1>2. curr_cycle' = IF in.cpu THEN "cpu" ELSE Spare
  BY <1>1 DEF Cycle, NextCycle, block_start
<1>3. Spare # "vid"
  BY DEF Spare, Device
<1>4. curr_cycle' # "vid" /\ NextCycle # "vid"
  BY <1>2, <1>3 DEF Cycle
<1>5. blk_rem' = 0 /\ vid_rem' = vid_rem /\ ~stall'
  BY <1>1, <1>4 DEF Cycle, blk_nrem, vid_nrem
<1>6. need' = need /\ given' = given
  BY <1>4 DEF Cycle, Remember, ArbiterIInv, ArbiterTypes
<1> QED  BY <1>1, <1>2, <1>4, <1>5, <1>6

LEMMA ArbiterStep == ArbiterIInv /\ [ArbiterNext]_arbiter_vars => ArbiterIInv'
<1> SUFFICES ASSUME ArbiterIInv, [ArbiterNext]_arbiter_vars PROVE ArbiterIInv'
  OBVIOUS
<1>1. CASE UNCHANGED arbiter_vars
  BY <1>1 DEF arbiter_vars, state, history, ArbiterIInv, ArbiterTypes, Fits, Account, Owed
<1>2. CASE Cycle
  <2>1. waited' \in 0 .. CpuBound + 1
    BY <1>2, BoundAssumption DEF Cycle, Remember, ArbiterIInv, ArbiterTypes
  <2>2. in' \in Inputs
    BY <1>2 DEF Cycle
  <2>3. curr_cycle' \in Clients
    BY <1>2 DEF Cycle, NextCycle, Spare, Device
  <2>4. stall' \in BOOLEAN
    BY <1>2 DEF Cycle, ArbiterIInv, ArbiterTypes, Full, Inputs
  <2>5. CASE block_start
    <3>1. in.bw \in Bandwidths
      BY DEF ArbiterIInv, ArbiterTypes, Inputs
    <3> QED
      BY <1>2, <2>1, <2>2, <2>3, <2>4, <2>5, <3>1, BlockStart, FullIsZero
         DEF ArbiterIInv, ArbiterTypes, Fits, Account, Owed
  <2>6. CASE blk_rem # 0
    BY <1>2, <2>1, <2>2, <2>3, <2>4, <2>6, InBlock
       DEF ArbiterIInv, ArbiterTypes, Fits, Account, Owed
  <2>7. CASE blk_rem = 0 /\ ~block_start
    BY <1>2, <2>1, <2>2, <2>3, <2>4, <2>7, BetweenBlocks
       DEF ArbiterIInv, ArbiterTypes, Fits, Account, Owed
  <2> QED  BY <2>5, <2>6, <2>7
<1> QED  BY <1>1, <1>2 DEF ArbiterNext

THEOREM ArbiterInvariance == ArbiterSpec => []ArbiterIInv
<1>1. ArbiterInit => ArbiterIInv  BY ArbiterInitially
<1>2. ArbiterIInv /\ [ArbiterNext]_arbiter_vars => ArbiterIInv'  BY ArbiterStep
<1> QED  BY <1>1, <1>2, PTL DEF ArbiterSpec

\* The registers keep their widths.
THEOREM ArbiterTypeCorrect == ArbiterSpec => []ArbiterTypes
<1>1. ArbiterIInv => ArbiterTypes  BY DEF ArbiterIInv
<1> QED  BY <1>1, ArbiterInvariance, PTL

\* For every choice of bandwidths, whatever the clients do, a block that has
\* ended has given the video fetcher exactly what it needs.
THEOREM VideoIsServed == ArbiterSpec => []ArbiterInv
<1>1. ArbiterIInv => ArbiterInv
  BY DEF ArbiterIInv, ArbiterInv, ArbiterTypes, Account, Owed, VideoServed
<1> QED  BY <1>1, ArbiterInvariance, PTL

-----------------------------------------------------------------------------
(* The Z80's wait.  While its request waits in a block, all that is left of *)
(* the block is reserved for the video.                                    *)

WaitInv ==
  /\ waited <= CpuBound
  /\ blk_rem # 0 /\ ~stall => vid_rem <= CpuBound
  /\ blk_rem # 0 /\ ~stall /\ waited # 0 =>
       vid_rem = blk_rem /\ waited + vid_rem <= CpuBound

LEMMA WaitStep ==
  ASSUME ArbiterIInv, Cycle
  PROVE  /\ waited' = (IF ~in.cpu \/ curr_cycle' = "cpu" THEN 0
                       ELSE IF AllVideo \/ waited > CpuBound THEN waited ELSE waited + 1)
         /\ AllVideo <=> stall'
<1>1. waited' = (IF ~in.cpu \/ curr_cycle' = "cpu" THEN 0
                 ELSE IF AllVideo \/ waited > CpuBound THEN waited ELSE waited + 1)
  BY DEF Cycle, Remember
<1>2. stall' = IF video_start THEN in.go /\ Full(in.bw) ELSE stall
  BY DEF Cycle
<1>3. stall \in BOOLEAN /\ in.go \in BOOLEAN
  BY DEF ArbiterIInv, ArbiterTypes, Inputs
<1>4. AllVideo <=> stall'
  <2>1. CASE video_start  BY <1>2, <2>1 DEF AllVideo
  <2>2. CASE ~video_start  BY <1>2, <2>2 DEF AllVideo
  <2> QED  BY <2>1, <2>2
<1> QED  BY <1>1, <1>4

\* If no block needs more than CpuBound cycles, the Z80 never waits longer than
\* CpuBound cycles, all-video blocks apart.
THEOREM CpuWaitIsBounded ==
  ASSUME \A b \in Bandwidths : b.code <= CpuBound
  PROVE  ArbiterSpec => []CpuWaitBounded
<1>1. ArbiterInit => WaitInv
  BY BoundAssumption DEF ArbiterInit, WaitInv
<1>2. ArbiterIInv /\ WaitInv /\ [ArbiterNext]_arbiter_vars => WaitInv'
  <2> SUFFICES ASSUME ArbiterIInv, WaitInv, [ArbiterNext]_arbiter_vars PROVE WaitInv'
    OBVIOUS
  <2>1. CASE UNCHANGED arbiter_vars
    BY <2>1 DEF arbiter_vars, state, history, WaitInv
  <2>2. CASE Cycle
    <3>1. in.bw \in Bandwidths /\ in.bw.code <= CpuBound
      BY DEF ArbiterIInv, ArbiterTypes, Inputs
    <3>2. /\ CpuBound \in Nat /\ waited \in Nat
          /\ waited' = (IF ~in.cpu \/ curr_cycle' = "cpu" THEN 0
                        ELSE IF stall' THEN waited ELSE waited + 1)
      BY <2>2, WaitStep, BoundAssumption DEF ArbiterIInv, ArbiterTypes, WaitInv
    <3>3. CASE block_start
      <4>1. CASE in.bw.code # 0
        <5>1. waited' = 0 /\ ~stall' /\ vid_rem' <= CpuBound
          BY <2>2, <3>1, <3>2, <3>3, <4>1, BlockStart, FullIsZero
        <5> QED  BY <3>2, <5>1 DEF WaitInv
      <4>2. CASE in.bw.code = 0
        <5>1. stall' /\ waited' \in {0, waited}
          BY <2>2, <3>1, <3>2, <3>3, <4>2, BlockStart
        <5> QED  BY <3>2, <5>1 DEF WaitInv
      <4> QED  BY <4>1, <4>2
    <3>4. CASE blk_rem # 0
      BY <2>2, <3>2, <3>4, InBlock DEF WaitInv, ArbiterIInv, ArbiterTypes, Fits
    <3>5. CASE blk_rem = 0 /\ ~block_start
      <4>1. waited' = 0 /\ blk_rem' = 0
        BY <2>2, <3>2, <3>5, BetweenBlocks
      <4> QED  BY <3>2, <4>1 DEF WaitInv
    <3> QED  BY <3>3, <3>4, <3>5
  <2> QED  BY <2>1, <2>2 DEF ArbiterNext
<1>3. WaitInv => CpuWaitBounded
  BY DEF WaitInv, CpuWaitBounded
<1> QED  BY <1>1, <1>2, <1>3, ArbiterInvariance, PTL DEF ArbiterSpec

-----------------------------------------------------------------------------
(* What one cycle may do.                                                  *)

\* cpu_next and cpu_req together are the next cycle of the Z80.
THEOREM CpuNextIsKept == ArbiterSpec => CpuNextKept
<1>1. ArbiterTypes /\ [ArbiterNext]_arbiter_vars =>
        [curr_cycle' = "cpu" <=> in.cpu /\ cpu_next]_arbiter_vars
  <2> SUFFICES ASSUME ArbiterTypes, Cycle PROVE curr_cycle' = "cpu" <=> in.cpu /\ cpu_next
    BY DEF ArbiterNext
  <2>1. Spare # "cpu"
    BY DEF Spare, Device
  <2>2. in.cpu \in BOOLEAN /\ in.go \in BOOLEAN
    BY DEF ArbiterTypes, Inputs
  <2> QED
    BY <2>1, <2>2 DEF Cycle, NextCycle, cpu_next, block_start, video_start, Full
<1> QED  BY <1>1, ArbiterTypeCorrect, PTL DEF ArbiterSpec, CpuNextKept

\* No device has a cycle it did not ask for, or before its betters.
THEOREM DevicesAreInOrder == ArbiterSpec => DevicesInOrder
<1>1. ArbiterTypes /\ [ArbiterNext]_arbiter_vars =>
        [/\ curr_cycle' = "tm"  => in.tm
         /\ curr_cycle' = "ts"  => in.ts /\ ~in.tm
         /\ curr_cycle' = "dma" => in.dma /\ ~in.ts /\ ~in.tm
         /\ curr_cycle' = "free" => ~in.cpu /\ ~dev_req]_arbiter_vars
  BY DEF ArbiterNext, Cycle, NextCycle, Spare, Device, dev_req, ArbiterTypes, Inputs
<1> QED  BY <1>1, ArbiterTypeCorrect, PTL DEF ArbiterSpec, DevicesInOrder

-----------------------------------------------------------------------------
(* ArbiterSharesVideo.                                                             *)

LEMMA ShareStep ==
  ArbiterIInv /\ ArbiterIInv' /\ [ArbiterNext]_arbiter_vars => [Share!BNext]_(Share!bvars)
<1> SUFFICES ASSUME ArbiterIInv, ArbiterIInv', Cycle PROVE Share!BNext
  BY DEF ArbiterNext, arbiter_vars, state, Share!bvars, Owed
<1> USE DEF Share!BNext, Share!BeginBlock, Share!Continue, Share!Outside, Share!Give
<1>0. in.cpu \in BOOLEAN
  BY DEF ArbiterIInv, ArbiterTypes, Inputs
<1>1. CASE block_start
  <2>1. in.bw \in Bandwidths /\ blk_rem = 0
    BY <1>1 DEF ArbiterIInv, ArbiterTypes, Inputs, block_start, video_start
  <2> DEFINE s == <<in.bw.total, Need(in.bw)>>
  <2>2. s \in {<<b.total, Need(b)>> : b \in Bandwidths}
    BY <2>1
  <2>3. Share!Give(s[1], s[2])
    <3>1. CASE in.bw.code = 0
      BY <1>0, <1>1, <2>1, <3>1, BlockStart, FullIsZero DEF Owed, ArbiterIInv, ArbiterTypes
    <3>2. CASE in.bw.code # 0
      BY <1>0, <1>1, <2>1, <3>2, BlockStart, FullIsZero DEF Owed, ArbiterIInv, ArbiterTypes
    <3> QED  BY <3>1, <3>2
  <2> QED  BY <2>1, <2>2, <2>3
<1>2. CASE blk_rem # 0
  <2>1. blk_rem > 0
    BY <1>2 DEF ArbiterIInv, ArbiterTypes
  <2>2. curr_cycle' \notin {"cpu", "vid"} => ~in.cpu /\ vid_rem = 0
    BY <1>2 DEF Cycle, NextCycle, block_start, video_start, video_idle
  <2>3. curr_cycle' = "vid" /\ in.cpu => stall \/ vid_rem = blk_rem
    BY <1>2, InBlock
  <2>4. curr_cycle' = "cpu" => in.cpu
    BY <1>2 DEF Cycle, NextCycle, Spare, Device, block_start, video_start
  <2>5. Share!Give(blk_rem, Owed)
    BY <1>0, <1>2, <2>1, <2>2, <2>3, <2>4, InBlock DEF Owed, ArbiterIInv, ArbiterTypes, Fits
  <2> QED  BY <2>1, <2>5
<1>3. CASE blk_rem = 0 /\ ~block_start
  BY <1>0, <1>3, BetweenBlocks DEF Owed
<1> QED  BY <1>1, <1>2, <1>3

\* The counters implement the shares, for every set of bandwidths.
THEOREM ArbiterSharesVideo == ArbiterSpec => ImplementsVideoShare
<1>1. ArbiterInit => Share!BInit
  BY DEF ArbiterInit, Share!BInit, Owed
<1>2. ArbiterIInv /\ ArbiterIInv' /\ [ArbiterNext]_arbiter_vars => [Share!BNext]_(Share!bvars)
  BY ShareStep
<1> QED  BY <1>1, <1>2, ArbiterInvariance, PTL DEF ArbiterSpec, ImplementsVideoShare, Share!BSpec

=============================================================================
