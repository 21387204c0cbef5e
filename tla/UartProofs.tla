----------------------------- MODULE UartProofs -----------------------------
(***************************************************************************)
(* Proofs about UartRx and UartTx, for every size of the rings that has    *)
(* two halves.  A program may read as many bytes as IFR has said; what the *)
(* program writes is sent; and each ring with its interrupt is a queue,    *)
(* though rs_rx_tl is stored in two halves and a byte is put into the      *)
(* transmitter's ring before rs_tx_hd counts it.  The remainders of the    *)
(* indices are turned into sums once, in the first part; the second part   *)
(* says what the two ends of a ring do to the sequence of waiting bytes.   *)
(* UartTx is taken as an instance with variables of its own: the two rings *)
(* share their lemmas and nothing else.  So is, at the end, ZifiInt, the   *)
(* interrupts of a port.                                                   *)
(***************************************************************************)
EXTENDS UartRx, SequenceTheorems, TLAPS

-----------------------------------------------------------------------------
(* Arithmetic of the ring                                                  *)

LEMMA Wrap ==
  ASSUME NEW n \in Nat \ {0}, NEW x \in 0 .. 2 * n - 1
  PROVE  x % n = (IF x < n THEN x ELSE x - n)
  <1>1. CASE x < n
    BY <1>1, SMTT(30)
  <1>2. CASE x >= n
    <2>1. x - n \in 0 .. n - 1 /\ x = n + (x - n)
      BY <1>2
    <2> QED
      BY <1>2, <2>1, SMTT(30)
  <1> QED
    BY <1>1, <1>2

LEMMA Divide ==
  ASSUME NEW n \in Nat \ {0}, NEW x \in 0 .. 2 * n - 1
  PROVE  x \div n = (IF x < n THEN 0 ELSE 1)
  BY SMTT(30)

Prev(i) == IF i = 0 THEN Size - 1 ELSE i - 1

LEMMA SizeFits == Size = Half + Half /\ Half \in Nat \ {0} /\ Size \in Nat \ {0} /\ Size >= 2
  BY RxAssumption DEF Size

LEMMA Next1Is ==
  \A i \in Indices : Next1(i) \in Indices /\ Next1(i) = (IF i = Size - 1 THEN 0 ELSE i + 1)
  <1> SUFFICES ASSUME NEW i \in Indices PROVE Next1(i) = (IF i = Size - 1 THEN 0 ELSE i + 1)
    BY SizeFits DEF Indices
  <1>1. i + 1 \in 0 .. 2 * Size - 1
    BY SizeFits DEF Indices
  <1> QED
    BY <1>1, Wrap, SizeFits DEF Next1, Indices

LEMMA UsedIs == \A h, t \in Indices : Used(h, t) = (IF h >= t THEN h - t ELSE h + Size - t)
  <1> SUFFICES ASSUME NEW h \in Indices, NEW t \in Indices
               PROVE  Used(h, t) = (IF h >= t THEN h - t ELSE h + Size - t)
    OBVIOUS
  <1> DEFINE x == h + Size - t
  <1>1. x \in 0 .. 2 * Size - 1
    BY SizeFits DEF Indices
  <1>2. Used(h, t) = x % Size
    BY DEF Used
  <1> HIDE DEF x
  <1>3. Used(h, t) = (IF x < Size THEN x ELSE x - Size)
    BY <1>1, <1>2, Wrap, SizeFits
  <1> QED
    BY <1>3, SizeFits DEF Indices, x

LEMMA PrevIs == \A t \in Indices : (t + Size - 1) % Size = Prev(t)
  <1> SUFFICES ASSUME NEW t \in Indices PROVE (t + Size - 1) % Size = Prev(t)
    OBVIOUS
  <1> DEFINE x == t + Size - 1
  <1>1. x \in 0 .. 2 * Size - 1
    BY SizeFits DEF Indices
  <1> HIDE DEF x
  <1>2. x % Size = (IF x < Size THEN x ELSE x - Size)
    BY <1>1, Wrap, SizeFits
  <1>3. x % Size = Prev(t)
    BY <1>2, SizeFits DEF Prev, Indices, x
  <1> QED
    BY <1>3 DEF x

LEMMA UsedBounds ==
  \A h, t \in Indices : Used(h, t) \in 0 .. Size - 1 /\ (Used(h, t) = 0 <=> h = t)
  <1> SUFFICES ASSUME NEW h \in Indices, NEW t \in Indices
               PROVE  Used(h, t) \in 0 .. Size - 1 /\ (Used(h, t) = 0 <=> h = t)
    OBVIOUS
  <1>1. Used(h, t) = (IF h >= t THEN h - t ELSE h + Size - t)
    BY UsedIs
  <1> QED
    BY <1>1, SizeFits DEF Indices

LEMMA UsedGrows ==
  \A h, t \in Indices : Used(h, t) # Size - 1 => Used(Next1(h), t) = Used(h, t) + 1
  <1> SUFFICES ASSUME NEW h \in Indices, NEW t \in Indices, Used(h, t) # Size - 1
               PROVE  Used(Next1(h), t) = Used(h, t) + 1
    OBVIOUS
  <1>1. Next1(h) \in Indices /\ Next1(h) = (IF h = Size - 1 THEN 0 ELSE h + 1)
    BY Next1Is
  <1>2. Used(h, t) = (IF h >= t THEN h - t ELSE h + Size - t)
    BY UsedIs
  <1>3. Used(Next1(h), t) = (IF Next1(h) >= t THEN Next1(h) - t ELSE Next1(h) + Size - t)
    BY <1>1, UsedIs
  <1> QED
    BY <1>1, <1>2, <1>3, SizeFits DEF Indices

LEMMA UsedShrinks ==
  \A h, t \in Indices : h # t => Used(h, Next1(t)) = Used(h, t) - 1
  <1> SUFFICES ASSUME NEW h \in Indices, NEW t \in Indices, h # t
               PROVE  Used(h, Next1(t)) = Used(h, t) - 1
    OBVIOUS
  <1>1. Next1(t) \in Indices /\ Next1(t) = (IF t = Size - 1 THEN 0 ELSE t + 1)
    BY Next1Is
  <1>2. Used(h, t) = (IF h >= t THEN h - t ELSE h + Size - t)
    BY UsedIs
  <1>3. Used(h, Next1(t)) = (IF h >= Next1(t) THEN h - Next1(t) ELSE h + Size - Next1(t))
    BY <1>1, UsedIs
  <1> QED
    BY <1>1, <1>2, <1>3, SizeFits DEF Indices

LEMMA UsedOfNext == \A t \in Indices : Used(t, Next1(t)) = Size - 1
  <1> SUFFICES ASSUME NEW t \in Indices PROVE Used(t, Next1(t)) = Size - 1
    OBVIOUS
  <1>1. Next1(t) \in Indices /\ Next1(t) = (IF t = Size - 1 THEN 0 ELSE t + 1)
    BY Next1Is
  <1>2. Used(t, Next1(t)) = (IF t >= Next1(t) THEN t - Next1(t) ELSE t + Size - Next1(t))
    BY <1>1, UsedIs
  <1> QED
    BY <1>1, <1>2, SizeFits DEF Indices

LEMMA PrevUsed == \A h, t \in Indices : h = Prev(t) <=> Used(h, t) = Size - 1
  <1> SUFFICES ASSUME NEW h \in Indices, NEW t \in Indices
               PROVE  h = Prev(t) <=> Used(h, t) = Size - 1
    OBVIOUS
  <1>1. Used(h, t) = (IF h >= t THEN h - t ELSE h + Size - t)
    BY UsedIs
  <1> QED
    BY <1>1, SizeFits DEF Indices, Prev

LEMMA FullIs == ASSUME tl \in Indices PROVE Full <=> hd = Prev(tl)
  BY PrevIs DEF Full

LEMMA FullUsed == ASSUME tl \in Indices, hd \in Indices PROVE Full <=> Used(hd, tl) = Size - 1
  BY FullIs, PrevUsed

\* With one half of rs_rx_tl stored it is the old value, the new one, or one of
\* these half a ring away.
LEMMA TornTail ==
  ASSUME NEW t \in Indices, NEW n, n = Next1(t),
         NEW x \in {(n \div Half) * Half + (t % Half), (t \div Half) * Half + (n % Half)}
  PROVE  x \in Indices /\ Used(Prev(x), n) >= Half - 2
  <1> DEFINE low(i) == IF i < Half THEN i ELSE i - Half
             high(i) == IF i < Half THEN 0 ELSE Half
  <1>1. n \in Indices /\ n = (IF t = Size - 1 THEN 0 ELSE t + 1)
    BY Next1Is
  <1>2. ASSUME NEW i \in Indices PROVE i % Half = low(i) /\ (i \div Half) * Half = high(i)
    <2>1. i \in 0 .. 2 * Half - 1
      BY SizeFits DEF Indices
    <2> QED
      BY <2>1, Wrap, Divide, SizeFits
  <1>3. x = high(n) + low(t) \/ x = high(t) + low(n)
    BY <1>1, <1>2
  <1> HIDE DEF low, high
  <1>4. x \in Indices /\ x \in {t, n} \cup {t - Half, t + Half, n - Half, n + Half}
    BY <1>1, <1>3, SizeFits DEF low, high, Indices
  <1>5. Prev(x) \in Indices
    BY <1>4, SizeFits DEF Indices, Prev
  <1>6. Used(Prev(x), n) = (IF Prev(x) >= n THEN Prev(x) - n ELSE Prev(x) + Size - n)
    BY <1>1, <1>5, UsedIs
  <1> QED
    BY <1>1, <1>4, <1>6, SizeFits, SMTT(30) DEF Indices, Prev

-----------------------------------------------------------------------------
(* The ring as a sequence                                                  *)

Contents(f, t, u) == [i \in 1 .. u |-> f[(t + i - 1) % Size]]

LEMMA SlotIs ==
  \A t \in Indices, i \in 1 .. Size :
    /\ (t + i - 1) % Size \in Indices
    /\ (t + i - 1) % Size = (IF t + i - 1 < Size THEN t + i - 1 ELSE (t + i - 1) - Size)
  <1> SUFFICES ASSUME NEW t \in Indices, NEW i \in 1 .. Size
               PROVE  /\ (t + i - 1) % Size \in Indices
                      /\ (t + i - 1) % Size
                           = (IF t + i - 1 < Size THEN t + i - 1 ELSE (t + i - 1) - Size)
    OBVIOUS
  <1> DEFINE x == t + i - 1
  <1>1. x \in 0 .. 2 * Size - 1 /\ x < Size + Size
    BY SizeFits DEF Indices
  <1> HIDE DEF x
  <1>2. x % Size = (IF x < Size THEN x ELSE x - Size)
    BY <1>1, Wrap, SizeFits
  <1>3. x % Size \in Indices
    BY <1>1, <1>2, SizeFits DEF Indices
  <1> QED
    BY <1>2, <1>3 DEF x

LEMMA SlotsDiffer ==
  \A t \in Indices, i, j \in 1 .. Size :
    i # j => (t + i - 1) % Size # (t + j - 1) % Size
  <1> SUFFICES ASSUME NEW t \in Indices, NEW i \in 1 .. Size, NEW j \in 1 .. Size, i # j
               PROVE  (t + i - 1) % Size # (t + j - 1) % Size
    OBVIOUS
  <1> DEFINE p == (t + i - 1) % Size
             q == (t + j - 1) % Size
  <1>1. p = (IF t + i - 1 < Size THEN t + i - 1 ELSE (t + i - 1) - Size)
    BY SlotIs
  <1>2. q = (IF t + j - 1 < Size THEN t + j - 1 ELSE (t + j - 1) - Size)
    BY SlotIs
  <1> HIDE DEF p, q
  <1>3. p # q
    BY <1>1, <1>2, SizeFits DEF Indices
  <1> QED
    BY <1>3 DEF p, q

\* The head is the place after the last waiting byte.
LEMMA HeadIs ==
  \A h, t \in Indices : h = (t + (Used(h, t) + 1) - 1) % Size
  <1> SUFFICES ASSUME NEW h \in Indices, NEW t \in Indices
               PROVE  h = (t + (Used(h, t) + 1) - 1) % Size
    OBVIOUS
  <1> DEFINE u == Used(h, t)
             q == (t + (u + 1) - 1) % Size
  <1>1. u \in 0 .. Size - 1 /\ u + 1 \in 1 .. Size
    BY UsedBounds, SizeFits
  <1>2. u = (IF h >= t THEN h - t ELSE h + Size - t)
    BY UsedIs
  <1>3. q = (IF t + (u + 1) - 1 < Size THEN t + (u + 1) - 1 ELSE (t + (u + 1) - 1) - Size)
    BY <1>1, SlotIs
  <1> HIDE DEF q, u
  <1>4. h = q
    BY <1>1, <1>2, <1>3, SizeFits DEF Indices
  <1> QED
    BY <1>4 DEF q, u

LEMMA ContentsType ==
  ASSUME NEW f \in [Indices -> Bytes], NEW t \in Indices, NEW u \in 0 .. Size
  PROVE  Contents(f, t, u) \in Seq(Bytes) /\ Len(Contents(f, t, u)) = u
  <1>1. ASSUME NEW i \in 1 .. u PROVE f[(t + i - 1) % Size] \in Bytes
    <2>1. i \in 1 .. Size
      BY SizeFits
    <2> QED
      BY <2>1, SlotIs
  <1>2. u \in Nat
    BY SizeFits
  <1> QED
    BY <1>1, <1>2 DEF Contents

\* Writing the place after the last one and counting it appends.
LEMMA ContentsPut ==
  ASSUME NEW f \in [Indices -> Bytes], NEW t \in Indices, NEW u \in 0 .. Size - 1,
         NEW b \in Bytes, NEW h \in Indices, h = (t + (u + 1) - 1) % Size
  PROVE  Contents([f EXCEPT ![h] = b], t, u + 1) = Append(Contents(f, t, u), b)
  <1> DEFINE g == [f EXCEPT ![h] = b]
             old == Contents(f, t, u)
             new == Contents(g, t, u + 1)
  <1>1. g \in [Indices -> Bytes] /\ u + 1 \in 0 .. Size /\ u \in 0 .. Size
    BY SizeFits
  <1>2. old \in Seq(Bytes) /\ Len(old) = u /\ new \in Seq(Bytes) /\ Len(new) = u + 1
    BY <1>1, ContentsType
  <1>3. Append(old, b) \in Seq(Bytes) /\ Len(Append(old, b)) = u + 1
    BY <1>2, AppendProperties
  <1>4. ASSUME NEW i \in 1 .. u + 1 PROVE new[i] = Append(old, b)[i]
    <2>0. new[i] = g[(t + i - 1) % Size]
      BY DEF Contents
    <2>1. CASE i = u + 1
      BY <2>0, <2>1, <1>2, AppendProperties
    <2>2. CASE i # u + 1
      <3>1. i \in 1 .. u /\ i \in 1 .. Size /\ u + 1 \in 1 .. Size
        BY <2>2, <1>1, SizeFits
      <3>2. (t + i - 1) % Size # h /\ (t + i - 1) % Size \in Indices
        BY <2>2, <3>1, SlotIs, SlotsDiffer
      <3>3. new[i] = old[i]
        BY <2>0, <3>1, <3>2 DEF Contents
      <3> QED
        BY <3>1, <3>3, <1>2, AppendProperties
    <2> QED
      BY <2>1, <2>2
  <1> HIDE DEF old, new
  <1> QED
    BY <1>2, <1>3, <1>4, SeqEqual DEF old, new

\* Writing it without counting it changes nothing.
LEMMA ContentsBeyond ==
  ASSUME NEW f \in [Indices -> Bytes], NEW t \in Indices, NEW u \in 0 .. Size - 1,
         NEW b \in Bytes, NEW h \in Indices, h = (t + (u + 1) - 1) % Size
  PROVE  Contents([f EXCEPT ![h] = b], t, u) = Contents(f, t, u)
  <1>1. ASSUME NEW i \in 1 .. u
        PROVE  [f EXCEPT ![h] = b][(t + i - 1) % Size] = f[(t + i - 1) % Size]
    <2>1. i \in 1 .. Size /\ u + 1 \in 1 .. Size /\ i # u + 1
      BY SizeFits
    <2>2. (t + i - 1) % Size # h /\ (t + i - 1) % Size \in Indices
      BY <2>1, SlotIs, SlotsDiffer
    <2> QED
      BY <2>2
  <1> QED
    BY <1>1 DEF Contents

\* Taking the first one away is taking the tail.
LEMMA ContentsGet ==
  ASSUME NEW f \in [Indices -> Bytes], NEW t \in Indices, NEW u \in 1 .. Size
  PROVE  /\ Contents(f, t, u) # <<>>
         /\ Head(Contents(f, t, u)) = f[t]
         /\ Contents(f, Next1(t), u - 1) = Tail(Contents(f, t, u))
  <1> DEFINE old == Contents(f, t, u)
             new == Contents(f, Next1(t), u - 1)
  <1>1. u - 1 \in 0 .. Size /\ u \in 0 .. Size /\ Next1(t) \in Indices
    BY SizeFits, Next1Is
  <1>2. old \in Seq(Bytes) /\ Len(old) = u /\ new \in Seq(Bytes) /\ Len(new) = u - 1
    BY <1>1, ContentsType
  <1>3. old # <<>>
    BY <1>2, EmptySeq
  <1>4. Tail(old) \in Seq(Bytes) /\ Len(Tail(old)) = u - 1
    BY <1>2, <1>3, HeadTailProperties
  <1>5. Head(old) = f[t]
    <2>1. old[1] = f[(t + 1 - 1) % Size]
      BY DEF Contents
    <2>2. (t + 1 - 1) % Size = t
      BY SlotIs, SizeFits DEF Indices
    <2> QED
      BY <2>1, <2>2, <1>2, <1>3
  <1>6. ASSUME NEW i \in 1 .. u - 1 PROVE new[i] = Tail(old)[i]
    <2>1. new[i] = f[(Next1(t) + i - 1) % Size] /\ old[i + 1] = f[(t + (i + 1) - 1) % Size]
      BY DEF Contents
    <2>2. (Next1(t) + i - 1) % Size = (t + (i + 1) - 1) % Size
      <3> DEFINE p == (Next1(t) + i - 1) % Size
                 q == (t + (i + 1) - 1) % Size
                 n == Next1(t)
      <3>0. i \in 1 .. Size /\ i + 1 \in 1 .. Size /\ n = (IF t = Size - 1 THEN 0 ELSE t + 1)
        BY SizeFits, Next1Is
      <3>1. p = (IF n + i - 1 < Size THEN n + i - 1 ELSE (n + i - 1) - Size)
        BY <3>0, <1>1, SlotIs
      <3>2. q = (IF t + (i + 1) - 1 < Size THEN t + (i + 1) - 1 ELSE (t + (i + 1) - 1) - Size)
        BY <3>0, SlotIs
      <3> HIDE DEF p, q, n
      <3>3. p = q
        BY <3>0, <3>1, <3>2, SizeFits DEF Indices
      <3> QED
        BY <3>3 DEF p, q
    <2>3. Tail(old)[i] = old[i + 1]
      BY <1>2, <1>3, <1>4, HeadTailProperties
    <2> QED
      BY <2>1, <2>2, <2>3
  <1> HIDE DEF old, new
  <1>7. new = Tail(old)
    BY <1>2, <1>4, <1>6, SeqEqual
  <1> QED
    BY <1>3, <1>5, <1>7 DEF old, new

-----------------------------------------------------------------------------
(* The inductive invariant                                                 *)

\* What the access takes as the head is not beyond the head.
CopyKept == pc = "test" => Used(tmp, tl) <= Used(hd, tl)

\* While rs_rx_tl is stored there is room for the byte that the interrupt may
\* bring, and the interrupt's test is wrong by half a ring at most.
StoreKept ==
  /\ pc = "store" => tlNew = Next1(tl)
  /\ pc \in {"store", "torn"} => Used(hd, tlNew) <= Size - 2
  /\ pc \in {"torn", "tornOnce"} => Used(Prev(tl), tlNew) >= Half - 2

IInv == TypeOK /\ IfrKept /\ CopyKept /\ StoreKept

USE DEF ring, lsr, local, hist, vars

LEMMA Zero == 0 \in Indices /\ 0 \in 0 .. IfrLim /\ Used(0, 0) = 0
  BY SizeFits, RxAssumption, UsedIs DEF Indices

LEMMA InvInit == Init => IInv
  <1> SUFFICES ASSUME Init PROVE IInv
    OBVIOUS
  <1>1. TypeOK
    BY Zero DEF Init, TypeOK, IndexTypes, DataTypes, FlagTypes, PcTypes
  <1>2. IfrKept /\ CopyKept /\ StoreKept
    BY Zero DEF Init, IfrKept, CopyKept, StoreKept, Tail1
  <1> QED
    BY <1>1, <1>2 DEF IInv

LEMMA IndexTypesStep == IInv /\ [Next]_vars => IndexTypes'
  <1> SUFFICES ASSUME IInv, [Next]_vars PROVE IndexTypes'
    OBVIOUS
  <1>0. IndexTypes
    BY DEF IInv, TypeOK
  <1> USE DEF IndexTypes
  <1>1. CASE \E b \in Bytes : Rx(b)
    BY <1>0, <1>1, Next1Is DEF Rx
  <1>2. CASE StoreFirst
    <2>1. tlNew = Next1(tl)
      BY <1>2 DEF IInv, StoreKept, StoreFirst
    <2>2. tl' \in Indices
      BY <1>0, <1>2, <2>1, TornTail DEF StoreFirst
    <2> QED
      BY <1>0, <1>2, <2>2 DEF StoreFirst
  <1>3. CASE Take
    BY <1>0, <1>3, Next1Is DEF Take
  <1>4. CASE StoreRest \/ TakeNothing
    BY <1>0, <1>4, Zero DEF StoreRest, TakeNothing, ReadDone, Return
  <1>5. CASE FlagRead \/ FlagWrite
    BY <1>0, <1>5, Zero DEF FlagRead, FlagWrite, Return
  <1>6. CASE \/ \E k \in BOOLEAN : BeginRead(k)
             \/ ReadIfr \/ ClrFifo \/ FcrReset \/ UNCHANGED vars
    BY <1>0, <1>6, Zero DEF BeginRead, ReadIfr, ClrFifo, FcrReset
  <1> QED
    BY <1>1, <1>2, <1>3, <1>4, <1>5, <1>6 DEF Next, Access

LEMMA DataTypesStep == TypeOK /\ [Next]_vars => DataTypes'
  <1> SUFFICES ASSUME IndexTypes, DataTypes, [Next]_vars PROVE DataTypes'
    BY DEF TypeOK
  <1> USE DEF DataTypes
  <1>1. CASE \E b \in Bytes : Rx(b)
    BY <1>1 DEF Rx
  <1>2. CASE Take
    <2>1. owed' \in 0 .. IfrLim
      BY <1>2, RxAssumption DEF Take
    <2>2. data' \in Bytes
      BY <1>2 DEF Take, IndexTypes
    <2> QED
      BY <1>2, <2>1, <2>2 DEF Take, IndexTypes
  <1>3. CASE ReadIfr
    <2>1. Used(hd, tl) \in Nat
      BY UsedBounds, SizeFits DEF IndexTypes
    <2>2. owed' \in 0 .. IfrLim
      BY <1>3, <2>1, RxAssumption DEF ReadIfr, AtMost
    <2> QED
      BY <1>3, <2>2 DEF ReadIfr
  <1>4. CASE TakeNothing \/ ClrFifo \/ FcrReset
    BY <1>4, Zero DEF TakeNothing, ClrFifo, FcrReset
  <1>5. CASE UNCHANGED <<buf, data, owed, lost>>
    BY <1>5
  <1> QED
    BY <1>1, <1>2, <1>3, <1>4, <1>5
    DEF Next, Access, BeginRead, StoreFirst, StoreRest, FlagRead, FlagWrite

LEMMA FlagTypesStep == TypeOK /\ [Next]_vars => FlagTypes'
  <1> SUFFICES ASSUME FlagTypes, [Next]_vars PROVE FlagTypes'
    BY DEF TypeOK
  <1> USE DEF FlagTypes
  <1>1. /\ copy[2] \in BOOLEAN /\ lsr \in BOOLEAN \X BOOLEAN
        /\ <<FALSE, FALSE>> \in BOOLEAN \X BOOLEAN
    OBVIOUS
  <1> QED
    BY <1>1, Zenon
    DEF Next, Access, Rx, BeginRead, Take, TakeNothing, StoreFirst, StoreRest, FlagRead, FlagWrite,
        ReadDone, Return, ReadIfr, ClrFifo, FcrReset

LEMMA PcTypesStep == TypeOK /\ [Next]_vars => PcTypes'
  BY DEF TypeOK, PcTypes, Next, Access, Rx, Store, BeginRead, Take, TakeNothing, StoreFirst,
         StoreRest, FlagRead, FlagWrite, ReadDone, Return, ReadIfr, ClrFifo, FcrReset

LEMMA CopyKeptStep == IInv /\ [Next]_vars => CopyKept'
  <1> SUFFICES ASSUME IInv, [Next]_vars PROVE CopyKept'
    OBVIOUS
  <1>0. IndexTypes /\ CopyKept
    BY DEF IInv, TypeOK
  <1> USE DEF IndexTypes, CopyKept
  <1>1. ASSUME NEW b \in Bytes, Rx(b) PROVE CopyKept'
    <2>1. CASE Full
      BY <1>0, <1>1, <2>1 DEF Rx, Store
    <2>2. CASE ~Full /\ pc = "test"
      <3>1. Used(Next1(hd), tl) = Used(hd, tl) + 1
        BY <1>0, <2>2, FullUsed, UsedGrows
      <3>2. Used(tmp, tl) <= Used(hd, tl) /\ Used(tmp, tl) \in Int /\ Used(hd, tl) \in Int
        BY <1>0, <2>2, UsedBounds
      <3> QED
        BY <1>1, <2>2, <3>1, <3>2 DEF Rx
    <2> QED
      BY <1>1, <2>1, <2>2 DEF Rx, Store
  <1>2. CASE \E k \in BOOLEAN : BeginRead(k)
    BY <1>0, <1>2, UsedBounds, SizeFits DEF BeginRead
  <1>3. CASE Access
    BY <1>0, <1>3
    DEF Access, Take, TakeNothing, StoreFirst, StoreRest, FlagRead, FlagWrite, ReadDone, Return
  <1>4. CASE ReadIfr \/ ClrFifo \/ FcrReset \/ UNCHANGED vars
    BY <1>0, <1>4 DEF ReadIfr, ClrFifo, FcrReset
  <1> QED
    BY <1>1, <1>2, <1>3, <1>4 DEF Next

Length == Used(hd, Tail1)

LEMMA TailFits == IInv => Tail1 \in Indices /\ Length \in 0 .. Size - 1
  BY UsedBounds DEF IInv, TypeOK, IndexTypes, Tail1, Length

\* The test for a full ring errs on one side only: a byte that it lets through
\* has a place.
LEMMA RoomForByte ==
  ASSUME IInv, pc # "tornOnce", ~Full
  PROVE  Length # Size - 1
  <1>0. IndexTypes /\ StoreKept
    BY DEF IInv, TypeOK
  <1>1. CASE pc \in {"store", "torn"}
    <2>1. Used(hd, tlNew) <= Size - 2 /\ Used(hd, tlNew) \in Int
      BY <1>0, <1>1, UsedBounds DEF StoreKept, IndexTypes
    <2> QED
      BY <1>1, <2>1, SizeFits DEF Length, Tail1
  <1>2. CASE pc \notin {"store", "torn"}
    BY <1>0, <1>2, FullUsed DEF Length, Tail1, IndexTypes
  <1> QED
    BY <1>1, <1>2

\* A byte it drops finds at least Half - 2 others waiting.
LEMMA FullEnough ==
  ASSUME IInv, pc # "tornOnce", Full
  PROVE  Length >= Half - 2
  <1>0. IndexTypes /\ StoreKept
    BY DEF IInv, TypeOK
  <1> USE DEF IndexTypes
  <1>1. CASE pc = "store"
    <2>1. Used(hd, tl) = Size - 1
      BY <1>0, FullUsed
    <2>2. hd # tl
      BY <1>0, <2>1, UsedBounds, SizeFits
    <2>3. Length = Used(hd, tl) - 1
      BY <1>0, <1>1, <2>2, UsedShrinks DEF StoreKept, Length, Tail1
    <2> QED
      BY <2>1, <2>3, SizeFits
  <1>2. CASE pc = "torn"
    BY <1>0, <1>2, FullIs DEF StoreKept, Length, Tail1
  <1>3. CASE pc \notin {"store", "torn"}
    <2>1. Length = Size - 1
      BY <1>0, <1>3, FullUsed DEF Length, Tail1
    <2> QED
      BY <2>1, SizeFits
  <1> QED
    BY <1>1, <1>2, <1>3

LEMMA StoreKeptStep == IInv /\ [Next]_vars => StoreKept'
  <1> SUFFICES ASSUME IInv, [Next]_vars PROVE StoreKept'
    OBVIOUS
  <1>0. IndexTypes /\ CopyKept /\ StoreKept
    BY DEF IInv, TypeOK
  <1> USE DEF IndexTypes, StoreKept
  <1>1. ASSUME NEW b \in Bytes, Rx(b) PROVE StoreKept'
    <2>1. CASE Full \/ pc # "store"
      BY <1>0, <1>1, <2>1 DEF Rx, Store
    <2>2. CASE ~Full /\ pc = "store"
      <3>1. Used(hd, tl) # Size - 1 /\ Used(hd, tl) \in 0 .. Size - 1
        BY <1>0, <2>2, FullUsed, UsedBounds
      <3>2. hd # tl
        <4>1. Used(hd, Next1(tl)) <= Size - 2
          BY <1>0, <2>2
        <4> QED
          BY <1>0, <4>1, UsedOfNext, SizeFits
      <3>3. Used(hd, tlNew) = Used(hd, tl) - 1
        BY <1>0, <2>2, <3>2, UsedShrinks
      <3>4. Used(Next1(hd), tlNew) = Used(hd, tlNew) + 1
        BY <1>0, <3>1, <3>3, UsedGrows, SizeFits
      <3>5. Used(Next1(hd), tlNew) <= Size - 2
        BY <3>1, <3>3, <3>4, SizeFits
      <3> QED
        BY <1>0, <1>1, <2>2, <3>5 DEF Rx, Store
    <2> QED
      BY <2>1, <2>2
  <1>2. CASE Take
    <2>1. hd # tl
      BY <1>0, <1>2, UsedBounds, SizeFits DEF Take, CopyKept
    <2>2. Used(hd, Next1(tl)) = Used(hd, tl) - 1 /\ Used(hd, tl) \in 0 .. Size - 1
      BY <1>0, <2>1, UsedShrinks, UsedBounds
    <2>3. Used(hd, Next1(tl)) <= Size - 2
      BY <2>2, SizeFits
    <2> QED
      BY <1>2, <2>3 DEF Take
  <1>3. CASE StoreFirst
    <2>1. Used(Prev(tl'), tlNew) >= Half - 2
      BY <1>0, <1>3, TornTail DEF StoreFirst
    <2> QED
      BY <1>0, <1>3, <2>1 DEF StoreFirst
  <1>4. CASE TakeNothing \/ StoreRest \/ FlagRead \/ FlagWrite
    BY <1>4 DEF TakeNothing, StoreRest, FlagRead, FlagWrite, ReadDone, Return
  <1>5. CASE \/ \E k \in BOOLEAN : BeginRead(k)
             \/ ReadIfr \/ ClrFifo \/ FcrReset \/ UNCHANGED vars
    BY <1>0, <1>5 DEF BeginRead, ReadIfr, ClrFifo, FcrReset
  <1> QED
    BY <1>1, <1>2, <1>3, <1>4, <1>5 DEF Next, Access

LEMMA IfrKeptStep == IInv /\ [Next]_vars => IfrKept'
  <1> SUFFICES ASSUME IInv, [Next]_vars PROVE IfrKept'
    OBVIOUS
  <1>0. IndexTypes /\ CopyKept /\ StoreKept /\ IfrKept /\ owed \in Nat
    BY DEF IInv, TypeOK, DataTypes
  <1>a. Tail1 \in Indices /\ Length \in 0 .. Size - 1
    BY TailFits
  <1> USE DEF IndexTypes, IfrKept
  <1>1. ASSUME NEW b \in Bytes, Rx(b) PROVE IfrKept'
    <2>1. Tail1' = Tail1 /\ owed' = owed /\ (pc' = "test" => pc = "test") /\ tl' = tl /\ tmp' = tmp
      BY <1>1 DEF Rx, Store, Tail1
    <2>2. CASE Full
      <3>1. Used(hd, Tail1)' = Used(hd, Tail1)
        BY <1>1, <2>1, <2>2 DEF Rx
      <3> QED
        BY <1>0, <2>1, <3>1
    <2>3. CASE ~Full
      <3>1. Used(hd, Tail1)' = Length + 1
        BY <1>0, <1>1, <1>a, <2>1, <2>3, RoomForByte, UsedGrows DEF Rx, Length
      <3> QED
        BY <1>0, <1>a, <2>1, <3>1 DEF Length
    <2> QED
      BY <2>2, <2>3
  <1>2. CASE \E k \in BOOLEAN : BeginRead(k)
    BY <1>0, <1>2, UsedBounds DEF BeginRead, Tail1
  <1>3. CASE Take
    <2>1. hd # tl
      BY <1>0, <1>3, UsedBounds, SizeFits DEF Take, CopyKept
    <2>2. Used(hd, Tail1)' = Used(hd, tl) - 1 /\ Used(hd, tl) \in 1 .. Size - 1
      BY <1>0, <1>3, <2>1, UsedShrinks, UsedBounds, SizeFits DEF Take, Tail1
    <2>3. owed <= Used(hd, tl)
      BY <1>0, <1>3 DEF Take, Tail1
    <2> QED
      BY <1>0, <1>3, <2>2, <2>3 DEF Take
  <1>4. CASE TakeNothing \/ StoreFirst \/ StoreRest \/ FlagRead \/ FlagWrite
    BY <1>0, <1>4
    DEF TakeNothing, StoreFirst, StoreRest, FlagRead, FlagWrite, ReadDone, Return, Tail1
  <1>5. CASE ReadIfr
    <2>1. owed' <= Used(hd, tl)
      BY <1>0, <1>5, UsedBounds, RxAssumption, SizeFits DEF ReadIfr, AtMost
    <2> QED
      BY <1>5, <2>1 DEF ReadIfr, Tail1
  <1>6. CASE ClrFifo \/ FcrReset
    BY <1>6, Zero DEF ClrFifo, FcrReset, Tail1
  <1>7. CASE UNCHANGED vars
    BY <1>0, <1>7 DEF Tail1
  <1> QED
    BY <1>1, <1>2, <1>3, <1>4, <1>5, <1>6, <1>7 DEF Next, Access

LEMMA Inductive == Spec => []IInv
  <1>1. IInv /\ [Next]_vars => IInv'
    BY IndexTypesStep, DataTypesStep, FlagTypesStep, PcTypesStep, CopyKeptStep, StoreKeptStep,
       IfrKeptStep DEF IInv, TypeOK
  <1> QED
    BY <1>1, InvInit, PTL DEF Spec

\* The types, and that each byte an IFR value promises is there when the program
\* reads it, whatever the interrupt does meanwhile.
THEOREM IfrIsKept == Spec => []Inv
  <1>1. IInv => Inv
    BY DEF IInv, Inv
  <1> QED
    BY <1>1, Inductive, PTL

-----------------------------------------------------------------------------
(* The refinement of ByteFifo                                              *)

queueBar == Contents(buf, Tail1, Length)
outBar   == IF pc = "test" /\ tl = tmp THEN NoByte ELSE data

LEMMA QueueType == IInv => queueBar \in Seq(Bytes) /\ Len(queueBar) = Length
  BY TailFits, ContentsType, SizeFits DEF queueBar, IInv, TypeOK, DataTypes

LEMMA Same ==
  ASSUME UNCHANGED <<buf, hd, Tail1>>
  PROVE  queueBar' = queueBar
  BY DEF queueBar, Length

LEMMA EmptyQueue == ASSUME NEW f, NEW t PROVE Contents(f, t, 0) = <<>>
  BY DEF Contents

LEMMA RefinementStep ==
  ASSUME IInv, [Next]_vars
  PROVE  [Queue!FNext]_(Queue!fvars)
  <1> SUFFICES ASSUME Next
               PROVE  Queue!FNext \/ UNCHANGED <<queueBar, outBar, lost>>
    BY DEF Queue!fvars, queueBar, outBar, Length, Contents, Tail1
  <1>0. IndexTypes /\ DataTypes /\ CopyKept /\ StoreKept /\ IfrKept
    BY DEF IInv, TypeOK
  <1>a. /\ Tail1 \in Indices /\ Length \in 0 .. Size - 1
        /\ queueBar \in Seq(Bytes) /\ Len(queueBar) = Length
    BY TailFits, QueueType
  <1> USE DEF IndexTypes, DataTypes
  <1>1. ASSUME NEW b \in Bytes, Rx(b) PROVE Queue!FNext
    <2>1. UNCHANGED <<Tail1, outBar>>
      BY <1>1 DEF Rx, Store, Tail1, outBar
    <2>2. CASE Full
      <3>1. queueBar' = queueBar
        BY <1>1, <2>1, <2>2, Same DEF Rx
      <3>2. Len(queueBar) >= Half - 2
        BY <1>1, <1>a, <2>2, FullEnough DEF Rx
      <3>3. Queue!Drop
        BY <1>1, <2>1, <2>2, <3>1, <3>2 DEF Queue!Drop, Rx, queueBar, outBar, Contents, Length
      <3> QED
        BY <3>3 DEF Queue!FNext
    <2>3. CASE ~Full
      <3>1. Length # Size - 1 /\ Length \in 0 .. Size - 1 /\ Length + 1 \in 1 .. Size
        BY <1>1, <1>a, <2>3, RoomForByte, SizeFits DEF Rx
      <3>2. Length' = Length + 1
        BY <1>0, <1>1, <1>a, <2>1, <2>3, <3>1, UsedGrows DEF Rx, Length
      <3>3. hd = (Tail1 + (Length + 1) - 1) % Size
        BY <1>0, <1>a, HeadIs DEF Length
      <3>4. queueBar' = Append(queueBar, b)
        <4>1. Contents([buf EXCEPT ![hd] = b], Tail1, Length + 1) = Append(queueBar, b)
          <5>1. /\ buf \in [Indices -> Bytes] /\ Tail1 \in Indices /\ hd \in Indices
                /\ Length \in 0 .. Size - 1
            BY <1>0, <1>a
          <5> QED
            BY <5>1, <3>3, ContentsPut DEF queueBar
        <4>2. queueBar' = Contents(buf', Tail1', Length')
          BY DEF queueBar
        <4>3. buf' = [buf EXCEPT ![hd] = b]
          BY <1>1, <2>3 DEF Rx
        <4> QED
          BY <2>1, <3>2, <4>1, <4>2, <4>3
      <3>5. Len(queueBar) < Size - 1
        BY <1>a, <3>1, SizeFits
      <3>6. Queue!Put(b)
        BY <1>1, <2>1, <2>3, <3>4, <3>5 DEF Queue!Put, Rx, queueBar, outBar, Contents, Length
      <3> QED
        BY <3>6 DEF Queue!FNext
    <2> QED
      BY <2>2, <2>3
  <1>2. ASSUME NEW k \in BOOLEAN, BeginRead(k)
        PROVE  Queue!FNext \/ UNCHANGED <<queueBar, outBar, lost>>
    <2>1. UNCHANGED Tail1 /\ Tail1 = tl /\ UNCHANGED <<buf, hd, tl, lost, data>>
      BY <1>2 DEF BeginRead, Tail1
    <2>2. queueBar' = queueBar
      BY <2>1, Same
    <2>3. CASE tl = hd
      <3>1. outBar' = NoByte
        BY <1>2, <2>3 DEF BeginRead, outBar
      <3>2. queueBar = <<>>
        BY <1>0, <2>1, <2>3, UsedBounds, EmptyQueue DEF queueBar, Length
      <3>3. Queue!GetNothing
        BY <2>1, <2>2, <3>1, <3>2 DEF Queue!GetNothing, queueBar, outBar, Contents, Length
      <3> QED
        BY <3>3 DEF Queue!FNext
    <2>4. CASE tl # hd
      BY <1>2, <2>1, <2>2, <2>4 DEF BeginRead, outBar
    <2> QED
      BY <2>3, <2>4
  <1>3. CASE Take
    <2>1. hd # tl /\ Tail1 = tl /\ Tail1' = Next1(tl)
      BY <1>0, <1>3, UsedBounds, SizeFits DEF Take, CopyKept, Tail1
    <2>2. Length \in 1 .. Size /\ Length' = Length - 1
      BY <1>0, <1>3, <1>a, <2>1, UsedShrinks, UsedBounds, SizeFits DEF Take, Length
    <2>3. queueBar # <<>> /\ Head(queueBar) = buf[tl] /\ queueBar' = Tail(queueBar)
      BY <1>0, <1>3, <2>1, <2>2, ContentsGet DEF Take, queueBar
    <2>4. outBar' = buf[tl] /\ lost' = lost
      BY <1>3 DEF Take, outBar
    <2>5. Queue!Get
      BY <2>3, <2>4 DEF Queue!Get, queueBar, outBar, Contents, Length
    <2> QED
      BY <2>5 DEF Queue!FNext
  <1>4. CASE TakeNothing \/ StoreFirst \/ StoreRest \/ FlagRead \/ FlagWrite \/ ReadIfr
    <2>1. UNCHANGED <<buf, hd, Tail1, outBar, lost>>
      BY <1>0, <1>4
      DEF TakeNothing, StoreFirst, StoreRest, FlagRead, FlagWrite, ReadIfr, ReadDone, Return,
          Tail1, outBar
    <2> QED
      BY <2>1, Same
  <1>5. CASE ClrFifo \/ FcrReset
    <2>1. Length' = 0 /\ UNCHANGED <<outBar, lost>>
      BY <1>5, Zero DEF ClrFifo, FcrReset, Length, Tail1, outBar
    <2>2. queueBar' = <<>>
      BY <2>1, EmptyQueue DEF queueBar
    <2>3. Queue!Reset
      BY <2>1, <2>2 DEF Queue!Reset, queueBar, outBar, Contents, Length
    <2> QED
      BY <2>3 DEF Queue!FNext
  <1> QED
    BY <1>1, <1>2, <1>3, <1>4, <1>5 DEF Next, Access

LEMMA RefinementInit == Init => Queue!FInit
  <1> SUFFICES ASSUME Init PROVE Queue!FInit
    OBVIOUS
  <1>1. Length = 0
    BY Zero DEF Init, Length, Tail1
  <1>2. queueBar = <<>>
    BY <1>1, EmptyQueue DEF queueBar
  <1> QED
    BY <1>2 DEF Queue!FInit, Init, queueBar, Contents, Length

\* The ring with its interrupt is a queue: no byte is lost, doubled or moved but
\* those refused, and they find at least Half - 2 others waiting.
THEOREM Refinement == Spec => ImplementsQueue
  <1>1. IInv /\ [Next]_vars => [Queue!FNext]_(Queue!fvars)
    BY RefinementStep
  <1> QED
    BY <1>1, RefinementInit, Inductive, PTL DEF Spec, ImplementsQueue, Queue!FSpec

-----------------------------------------------------------------------------
(* The transmitter: the interrupt takes bytes out and the main loop puts   *)
(* them in, so the ring's two ends change places.                          *)

VARIABLES
  txBuf, txHd, txTl, udrie, udr, thre, txPc, lsrCopy, window, sent, refused

Tx == INSTANCE UartTx WITH
  buf <- txBuf, hd <- txHd, tl <- txTl, pc <- txPc, data <- sent, lost <- refused

LEMMA SameRing ==
  /\ Tx!Indices = Indices
  /\ \A i : Tx!Next1(i) = Next1(i)
  /\ Tx!Used = Used(txHd, txTl)
  BY DEF Tx!Indices, Indices, Tx!Next1, Next1, Tx!Used, Used

LEMMA TxFullUsed ==
  ASSUME txTl \in Indices, txHd \in Indices
  PROVE  Tx!Full <=> Used(txHd, txTl) = Size - 1
  BY PrevIs, PrevUsed DEF Tx!Full

\* The byte that is being put in has a place: the interrupt only makes room.
TxRoom == txPc = "head" => ~Tx!Full

TxInv == Tx!Inv /\ TxRoom

TxBooleans == udrie \in BOOLEAN /\ thre \in BOOLEAN /\ lsrCopy \in BOOLEAN

LEMMA TxInit == Tx!Init => TxInv
  <1> SUFFICES ASSUME Tx!Init PROVE TxInv
    OBVIOUS
  <1>1. TxBooleans
    BY Zenon DEF Tx!Init, TxBooleans
  <1>2. Tx!TypeOK
    BY <1>1, Zero, SameRing DEF Tx!Init, Tx!TypeOK, TxBooleans
  <1> QED
    BY <1>2 DEF Tx!Init, TxInv, Tx!Inv, Tx!KickNotLost, TxRoom

LEMMA TxBooleansStep == TxBooleans /\ [Tx!Next]_(Tx!vars) => TxBooleans'
  BY Zenon
  DEF TxBooleans, Tx!Next, Tx!vars, Tx!ring, Tx!Shifted, Tx!Udre, Tx!UdreSend, Tx!UdreEmpty,
      Tx!Refuse, Tx!Put, Tx!MainStep, Tx!Advance, Tx!Enable, Tx!FullTest, Tx!FullWrite, Tx!Loop,
      Tx!ReadFlag, Tx!ReadFlagWrite, Tx!ClrFifo, Tx!FcrReset

LEMMA TxTypes == TxInv /\ [Tx!Next]_(Tx!vars) => Tx!TypeOK'
  <1> SUFFICES ASSUME Tx!TypeOK, [Tx!Next]_(Tx!vars) PROVE Tx!TypeOK'
    BY DEF TxInv, Tx!Inv
  <1>0. TxBooleans'
    BY TxBooleansStep DEF TxBooleans, Tx!TypeOK
  <1> USE <1>0, SameRing DEF Tx!TypeOK, TxBooleans
  <1>1. CASE Tx!Shifted
    BY <1>1 DEF Tx!Shifted, Tx!ring
  <1>2. CASE Tx!UdreSend
    BY <1>2, Next1Is DEF Tx!UdreSend, Tx!CanInterrupt, Tx!Window
  <1>3. CASE Tx!UdreEmpty
    BY <1>3 DEF Tx!UdreEmpty, Tx!CanInterrupt, Tx!Window, Tx!ring
  <1>4. CASE Tx!Refuse
    BY <1>4 DEF Tx!Refuse, Tx!ring
  <1>5. ASSUME NEW b \in Bytes, Tx!Put(b) PROVE Tx!TypeOK'
    BY <1>5 DEF Tx!Put
  <1>6. CASE Tx!Advance
    BY <1>6, Next1Is DEF Tx!Advance
  <1>7. CASE Tx!Enable \/ Tx!FullTest \/ Tx!FullWrite
    BY <1>7 DEF Tx!Enable, Tx!FullTest, Tx!FullWrite, Tx!Loop, Tx!ring
  <1>8. CASE Tx!ReadFlag
    BY <1>8 DEF Tx!ReadFlag, Tx!ring
  <1>9. CASE Tx!ReadFlagWrite
    BY <1>9 DEF Tx!ReadFlagWrite, Tx!Loop, Tx!ring
  <1>10. CASE Tx!ClrFifo \/ Tx!FcrReset
    BY <1>10, Zero DEF Tx!ClrFifo, Tx!FcrReset
  <1>11. CASE UNCHANGED Tx!vars
    BY <1>11 DEF Tx!vars, Tx!ring
  <1> QED
    BY <1>1, <1>2, <1>3, <1>4, <1>5, <1>6, <1>7, <1>8, <1>9, <1>10, <1>11
    DEF Tx!Next, Tx!Udre, Tx!MainStep

\* UDRIE is cleared only on finding the ring empty, and after a byte has been put
\* in it is set again, whatever came between.
LEMMA TxKick == TxInv /\ [Tx!Next]_(Tx!vars) => Tx!KickNotLost'
  BY DEF TxInv, Tx!Inv, Tx!KickNotLost, Tx!Next, Tx!vars, Tx!ring, Tx!Shifted, Tx!Udre,
         Tx!UdreSend, Tx!UdreEmpty, Tx!CanInterrupt, Tx!Refuse, Tx!Put, Tx!MainStep, Tx!Advance,
         Tx!Enable, Tx!FullTest, Tx!FullWrite, Tx!Loop, Tx!ReadFlag, Tx!ReadFlagWrite,
         Tx!ClrFifo, Tx!FcrReset

LEMMA TxRoomStep == TxInv /\ [Tx!Next]_(Tx!vars) => TxRoom'
  <1> SUFFICES ASSUME TxInv, [Tx!Next]_(Tx!vars) PROVE TxRoom'
    OBVIOUS
  <1>0. txHd \in Indices /\ txTl \in Indices
    BY SameRing DEF TxInv, Tx!Inv, Tx!TypeOK
  <1>1. CASE Tx!UdreSend
    <2>1. Used(txHd, Next1(txTl)) = Used(txHd, txTl) - 1 /\ Used(txHd, txTl) \in 0 .. Size - 1
      BY <1>0, <1>1, UsedShrinks, UsedBounds DEF Tx!UdreSend
    <2>2. Used(txHd, Next1(txTl)) # Size - 1 /\ Next1(txTl) \in Indices
      BY <1>0, <2>1, SizeFits, Next1Is
    <2>3. txTl' = Next1(txTl) /\ txHd' = txHd
      BY <1>1, SameRing DEF Tx!UdreSend
    <2>4. ~Tx!Full'
      BY <1>0, <2>2, <2>3, PrevIs, PrevUsed DEF Tx!Full
    <2> QED
      BY <2>4 DEF TxRoom
  <1>2. CASE ~Tx!UdreSend
    BY <1>2
    DEF TxInv, TxRoom, Tx!Full, Tx!Next, Tx!vars, Tx!ring, Tx!Shifted, Tx!Udre, Tx!UdreEmpty,
        Tx!Refuse, Tx!Put, Tx!MainStep, Tx!Advance, Tx!Enable, Tx!FullTest, Tx!FullWrite, Tx!Loop,
        Tx!ReadFlag, Tx!ReadFlagWrite, Tx!ClrFifo, Tx!FcrReset
  <1> QED
    BY <1>1, <1>2

LEMMA TxInductive == Tx!Spec => []TxInv
  <1>1. TxInv /\ [Tx!Next]_(Tx!vars) => TxInv'
    BY TxTypes, TxKick, TxRoomStep DEF TxInv, Tx!Inv
  <1> QED
    BY <1>1, TxInit, PTL DEF Tx!Spec

\* The types, and that while bytes wait in the ring the interrupt that sends them
\* is enabled or about to be.
THEOREM KickIsNotLost == Tx!Spec => []Tx!Inv
  <1>1. TxInv => Tx!Inv
    BY DEF TxInv
  <1> QED
    BY <1>1, TxInductive, PTL

txQueue == Contents(txBuf, txTl, Used(txHd, txTl))

LEMMA TxQueueIs == [i \in 1 .. Tx!Used |-> txBuf[(txTl + i - 1) % Size]] = txQueue
  BY SameRing DEF txQueue, Contents

LEMMA TxQueueNext == [i \in 1 .. Tx!Used' |-> txBuf'[(txTl' + i - 1) % Size]] = txQueue'
  BY DEF Tx!Used, Used, txQueue, Contents

LEMMA TxRefinementStep ==
  ASSUME TxInv, [Tx!Next]_(Tx!vars)
  PROVE  [Tx!Queue!FNext]_(Tx!Queue!fvars)
  <1> SUFFICES ASSUME Tx!Next
               PROVE  Tx!Queue!FNext \/ UNCHANGED <<txQueue, sent, refused>>
    <2>1. CASE UNCHANGED Tx!vars
      BY <2>1, TxQueueIs, TxQueueNext DEF Tx!Queue!fvars, Tx!vars, Tx!ring, txQueue
    <2> QED
      BY <2>1, TxQueueIs, TxQueueNext DEF Tx!Queue!fvars
  <1> DEFINE u == Used(txHd, txTl)
  <1>0. /\ txHd \in Indices /\ txTl \in Indices /\ txBuf \in [Indices -> Bytes]
        /\ refused \in {0, 1}
    BY SameRing DEF TxInv, Tx!Inv, Tx!TypeOK
  <1>a. /\ u \in 0 .. Size - 1 /\ u \in 0 .. Size
        /\ txQueue \in Seq(Bytes) /\ Len(txQueue) = u
    BY <1>0, UsedBounds, ContentsType, SizeFits DEF txQueue
  <1> HIDE DEF u
  <1>1. CASE Tx!UdreSend
    <2>1. txHd # txTl /\ txTl' = Next1(txTl) /\ UNCHANGED <<txHd, txBuf, refused>>
      BY <1>1, SameRing DEF Tx!UdreSend
    <2>2. u \in 1 .. Size /\ Used(txHd, Next1(txTl)) = u - 1
      BY <1>0, <1>a, <2>1, UsedBounds, UsedShrinks, SizeFits DEF u
    <2>3. txQueue # <<>> /\ Head(txQueue) = txBuf[txTl] /\ txQueue' = Tail(txQueue)
      BY <1>0, <2>1, <2>2, ContentsGet DEF txQueue, u
    <2>4. Tx!Queue!Get
      BY <1>1, <2>1, <2>3, TxQueueIs, TxQueueNext DEF Tx!Queue!Get, Tx!UdreSend
    <2> QED
      BY <2>4 DEF Tx!Queue!FNext
  <1>2. CASE Tx!Refuse
    <2>1. txQueue' = txQueue
      BY <1>2 DEF Tx!Refuse, Tx!ring, txQueue, Used, Contents
    <2>2. Len(txQueue) >= Size - 1
      BY <1>0, <1>2, <1>a, TxFullUsed, SizeFits DEF Tx!Refuse, u
    <2>3. Tx!Queue!Drop
      BY <1>2, <2>1, <2>2, TxQueueIs, TxQueueNext DEF Tx!Queue!Drop, Tx!Refuse
    <2> QED
      BY <2>3 DEF Tx!Queue!FNext
  <1>3. ASSUME NEW b \in Bytes, Tx!Put(b)
        PROVE  UNCHANGED <<txQueue, sent, refused>>
    <2>1. txBuf' = [txBuf EXCEPT ![txHd] = b] /\ UNCHANGED <<txHd, txTl, sent, refused>>
      BY <1>3 DEF Tx!Put
    <2>2. Contents([txBuf EXCEPT ![txHd] = b], txTl, u) = Contents(txBuf, txTl, u)
      BY <1>0, <1>a, HeadIs, ContentsBeyond DEF u
    <2> QED
      BY <2>1, <2>2 DEF txQueue, u
  <1>4. CASE Tx!Advance
    <2>1. UNCHANGED <<txBuf, txTl, sent, refused>> /\ txHd' = Next1(txHd) /\ u # Size - 1
      BY <1>0, <1>4, SameRing, TxFullUsed DEF Tx!Advance, TxInv, TxRoom, u
    <2>2. Used(Next1(txHd), txTl) = u + 1
      BY <1>0, <2>1, UsedGrows DEF u
    <2>3. PICK b \in Bytes : b = txBuf[txHd]
      BY <1>0
    <2>4. [txBuf EXCEPT ![txHd] = b] = txBuf
      BY <1>0, <2>3
    <2>5. txHd = (txTl + (u + 1) - 1) % Size
      BY <1>0, HeadIs DEF u
    <2>6. Contents([txBuf EXCEPT ![txHd] = b], txTl, u + 1) = Append(Contents(txBuf, txTl, u), b)
      <3>1. /\ txBuf \in [Indices -> Bytes] /\ txTl \in Indices /\ txHd \in Indices
            /\ u \in 0 .. Size - 1
        BY <1>0, <1>a
      <3> QED
        BY <3>1, <2>5, ContentsPut
    <2>7. txQueue' = Append(txQueue, b)
      BY <2>1, <2>2, <2>4, <2>6 DEF txQueue, u
    <2>8. Len(txQueue) < Size - 1
      BY <1>a, <2>1, SizeFits
    <2>9. Tx!Queue!Put(b)
      BY <2>1, <2>7, <2>8, TxQueueIs, TxQueueNext DEF Tx!Queue!Put
    <2> QED
      BY <2>9 DEF Tx!Queue!FNext
  <1>5. CASE \/ Tx!Shifted \/ Tx!UdreEmpty \/ Tx!Enable \/ Tx!FullTest \/ Tx!FullWrite
             \/ Tx!ReadFlag \/ Tx!ReadFlagWrite
    BY <1>5
    DEF Tx!Shifted, Tx!UdreEmpty, Tx!Enable, Tx!FullTest, Tx!FullWrite, Tx!ReadFlag,
        Tx!ReadFlagWrite, Tx!ring, txQueue, Used, Contents
  <1>6. CASE Tx!ClrFifo \/ Tx!FcrReset
    <2>1. txQueue' = <<>> /\ UNCHANGED <<sent, refused>>
      BY <1>6, Zero, EmptyQueue DEF Tx!ClrFifo, Tx!FcrReset, txQueue
    <2>2. Tx!Queue!Reset
      BY <2>1, TxQueueNext DEF Tx!Queue!Reset
    <2> QED
      BY <2>2 DEF Tx!Queue!FNext
  <1> QED
    BY <1>1, <1>2, <1>3, <1>4, <1>5, <1>6 DEF Tx!Next, Tx!Udre, Tx!MainStep

LEMMA TxRefinementInit == Tx!Init => Tx!Queue!FInit
  <1> SUFFICES ASSUME Tx!Init PROVE Tx!Queue!FInit
    OBVIOUS
  <1>1. txQueue = <<>>
    BY Zero, EmptyQueue DEF Tx!Init, txQueue
  <1> QED
    BY <1>1, TxQueueIs DEF Tx!Queue!FInit, Tx!Init

\* The transmitter's ring is a queue too, and refuses a byte only when it is full:
\* the interrupt between two steps of rs232_zx_write() takes no byte twice and
\* none that is not there yet.
THEOREM TxRefinement == Tx!Spec => Tx!ImplementsQueue
  <1>1. TxInv /\ [Tx!Next]_(Tx!vars) => [Tx!Queue!FNext]_(Tx!Queue!fvars)
    BY TxRefinementStep
  <1> QED
    BY <1>1, TxRefinementInit, TxInductive, PTL DEF Tx!Spec, Tx!ImplementsQueue, Tx!Queue!FSpec

-----------------------------------------------------------------------------
(* The interrupts of a ZiFi port                                           *)

CONSTANTS Capacity, TmoMax, Ibtr, Itor

VARIABLES waiting, tmo, mask, src, taskPc, intWtp, handler, asked

Zifi == INSTANCE ZifiInt WITH used <- waiting, pc <- taskPc

\* The timeout is still enabled when it is noted, though its two tests are apart.
ZifiInv ==
  /\ Zifi!TypeOK
  /\ mask \subseteq asked
  /\ taskPc = "bytes" => "ITO" \in mask

LEMMA ZifiStep ==
  ASSUME Zifi!IntAssumption, ZifiInv, [Zifi!Next]_(Zifi!vars)
  PROVE  ZifiInv' /\ src' \ src \subseteq asked
  <1> USE DEF ZifiInv, Zifi!TypeOK, Zifi!buffer, Zifi!z80, Zifi!Events
  <1>1. CASE Zifi!Rx \/ Zifi!Millisecond \/ Zifi!ReadByte
    <2>1. waiting' \in 0 .. Capacity /\ tmo' \in 0 .. TmoMax
      BY <1>1 DEF Zifi!Rx, Zifi!Millisecond, Zifi!ReadByte, Zifi!IntAssumption
    <2> QED
      BY <1>1, <2>1 DEF Zifi!Rx, Zifi!Millisecond, Zifi!ReadByte
  <1>2. CASE Zifi!Threshold
    BY <1>2 DEF Zifi!Threshold, Zifi!Report
  <1>3. CASE Zifi!TimeoutTest
    BY <1>3 DEF Zifi!TimeoutTest
  <1>4. CASE Zifi!TimeoutBytes
    BY <1>4 DEF Zifi!TimeoutBytes, Zifi!Report
  <1>5. CASE Zifi!Send
    BY <1>5 DEF Zifi!Send
  <1>6. ASSUME NEW e \in Zifi!Events, Zifi!WriteImr(e) PROVE ZifiInv' /\ src' \ src \subseteq asked
    BY <1>6 DEF Zifi!WriteImr
  <1>7. CASE Zifi!Acknowledge
    <2>1. intWtp' \in BOOLEAN /\ handler' \in BOOLEAN
      BY <1>7, Zenon DEF Zifi!Acknowledge
    <2> QED
      BY <1>7, <2>1 DEF Zifi!Acknowledge
  <1>8. CASE Zifi!ReadIsr
    <2>1. handler' \in BOOLEAN
      BY <1>8, Zenon DEF Zifi!ReadIsr
    <2> QED
      BY <1>8, <2>1 DEF Zifi!ReadIsr
  <1>9. CASE UNCHANGED Zifi!vars
    BY <1>9 DEF Zifi!vars
  <1> QED
    BY <1>1, <1>2, <1>3, <1>4, <1>5, <1>6, <1>7, <1>8, <1>9 DEF Zifi!Next, Zifi!Task

\* The types, and that an event is noted in ISR only if the program has enabled it
\* since it was noted last.
THEOREM ZifiOncePerEnable ==
  ASSUME Zifi!IntAssumption
  PROVE  Zifi!Spec => []Zifi!TypeOK /\ Zifi!OncePerEnable
  <1>1. Zifi!Init => ZifiInv
    <2>1. intWtp = FALSE /\ handler = FALSE => intWtp \in BOOLEAN /\ handler \in BOOLEAN
      BY Zenon
    <2> QED
      BY <2>1 DEF Zifi!Init, ZifiInv, Zifi!TypeOK, Zifi!IntAssumption
  <1>2. ZifiInv /\ [Zifi!Next]_(Zifi!vars) => ZifiInv'
    BY ZifiStep
  <1>3. ZifiInv /\ [Zifi!Next]_(Zifi!vars) => [src' \ src \subseteq asked]_(Zifi!vars)
    BY ZifiStep
  <1>4. ZifiInv => Zifi!TypeOK
    BY DEF ZifiInv
  <1> QED
    BY <1>1, <1>2, <1>3, <1>4, PTL DEF Zifi!Spec, Zifi!OncePerEnable

=============================================================================
