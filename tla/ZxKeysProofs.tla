---------------------------- MODULE ZxKeysProofs ----------------------------
(***************************************************************************)
(* What the run of ZxKeys shows for four keys, for every key map, pause    *)
(* and number of timeouts and resets.                                      *)
(***************************************************************************)
EXTENDS ZxKeys, SequenceTheorems, FiniteSetTheorems, TLAPS

-----------------------------------------------------------------------------
(* The inductive invariant                                                 *)

\* Without a clearing no CLRKYS is on its way.
NoClear == ~cleared => \A i \in 1 .. Len(fifo) : fifo[i] # Clear

\* zx_task() looks into the FIFO between two transfers only, and what it has
\* taken has started the pause.
Draining ==
  /\ pc = "drain" => taskState = 0
  /\ wasData => pc = "drain" /\ shiftPause > 0

\* The two column counters run together.
InStep == kbdCnt = IF taskState = 0 THEN 0 ELSE 6 - taskState

\* The bitmap shows the last event, as long as no timeout clears it.
PrevShown == errors = 0 => (prev.key \in map <=> prev.down)

\* The Z80 sees of the key what the bitmap has; after a timeout, at least that.
Shown(k) ==
  /\ k \in map => k \in cols
  /\ errors = 0 /\ k \in cols => k \in map

\* All keys are shown when nothing was taken since the last transfer; during
\* one, those of the columns that have been sent.
ColumnsShown ==
  \A k \in 0 .. KEY_V :
    /\ taskState = 0 /\ ~wasData => Shown(k)
    /\ taskState > 0 /\ (k \div 8) + kbdCnt > 4 => Shown(k)

IInv == TypeOK /\ CountersHeld /\ NoClear /\ OnceUntilCleared /\ Draining /\ InStep
        /\ PrevShown /\ ColumnsShown

-----------------------------------------------------------------------------
(* Keys, events and the FIFO                                               *)

LEMMA KeysAre ==
  /\ Keys \subseteq 0 .. KEY_V
  /\ \A p \in Phys : Range(Codes[p]) \subseteq Keys \cup {CLRKYS}
  /\ \A p \in Phys : Codes[p][1] \in Range(Codes[p])
  /\ \A p \in Phys : Len(Codes[p]) = 2 => Codes[p][2] \in Range(Codes[p])
  /\ \A p \in Phys : \A k \in Range(Codes[p]) :
       k = Codes[p][1] \/ (Len(Codes[p]) = 2 /\ k = Codes[p][2])
  <1>1. ASSUME NEW p \in Phys
        PROVE  /\ \A k \in Range(Codes[p]) : k \in 0 .. KEY_V \/ k = CLRKYS
               /\ Codes[p][1] \in Range(Codes[p])
               /\ Len(Codes[p]) = 2 => Codes[p][2] \in Range(Codes[p])
               /\ \A k \in Range(Codes[p]) :
                    k = Codes[p][1] \/ (Len(Codes[p]) = 2 /\ k = Codes[p][2])
    <2>1. Codes[p] \in Seq((0 .. KEY_V) \cup {CLRKYS}) /\ Len(Codes[p]) \in {1, 2}
      BY KeysAssumption
    <2> QED
      BY <2>1 DEF Range
  <1> QED
    BY <1>1 DEF Keys

LEMMA KeyNumbers == KEY_V = 39 /\ CLRKYS = 122 /\ CLRKYS \notin Keys /\ KEY_V + 1 \notin Keys
  BY KeysAre DEF KEY_V, CLRKYS

LEMMA EventsAre ==
  /\ Clear \in Events /\ Clear.key = CLRKYS
  /\ \A k \in Keys : Down(k) \in Events /\ Up(k) \in Events /\ Down(k) # Clear /\ Up(k) # Clear
  /\ \A e \in Events : e.down \in BOOLEAN /\ (e.key \in Keys \/ e = Clear)
  /\ \A e \in Events : e = Down(e.key) \/ e = Up(e.key)
  <1>1. /\ Clear \in Events /\ Clear.key = CLRKYS
        /\ \A e \in Events : e = Down(e.key) \/ e = Up(e.key)
    BY DEF Events, Clear, Down, Up
  <1>2. ASSUME NEW k \in Keys
        PROVE  /\ Down(k) \in Events /\ Up(k) \in Events
               /\ Down(k).key = k /\ Up(k).key = k
    BY DEF Events, Down, Up
  <1>3. \A k \in Keys : Down(k) # Clear /\ Up(k) # Clear
    BY <1>1, <1>2, KeyNumbers
  <1>4. ASSUME NEW e \in Events
        PROVE  e.down \in BOOLEAN /\ (e.key \in Keys \/ e = Clear)
    <2>1. e = Clear \/ \E k \in Keys : e = Down(k) \/ e = Up(k)
      BY DEF Events
    <2>2. \A k : Down(k).down \in BOOLEAN /\ Up(k).down \in BOOLEAN
      BY DEF Down, Up
    <2> QED
      BY <1>2, <2>1, <2>2 DEF Clear
  <1> QED
    BY <1>1, <1>2, <1>3, <1>4

LEMMA Wrap ==
  ASSUME NEW n \in Nat \ {0}, NEW x \in 0 .. 2 * n - 1
  PROVE  x % n = IF x < n THEN x ELSE x - n
  OBVIOUS

\* With room for an event a put appends it.
LEMMA PutAppends ==
  ASSUME NEW f \in Seq(Events), Len(f) + 1 < FifoSize, outPtr \in 0 .. FifoSize - 1, NEW e
  PROVE  Put(f, e) = Append(f, e)
  <1> DEFINE x == outPtr + Len(f)
  <1>1. FifoSize \in Nat \ {0} /\ Len(f) \in Nat /\ x \in 0 .. 2 * FifoSize - 1
    BY KeysAssumption
  <1>2. x % FifoSize = IF x < FifoSize THEN x ELSE x - FifoSize
    <2> HIDE DEF x
    <2> QED  BY <1>1, Wrap
  <1>3. ~IsFull(f)
    BY <1>1, <1>2 DEF IsFull, InPtr
  <1> QED
    BY <1>1, <1>3 DEF Put

-----------------------------------------------------------------------------
(* The filter on a pair of counters and FIFO                               *)

PlacesIn(f, k) == {i \in 1 .. Len(f) : f[i].key \in {k, CLRKYS}}

StateAfter(f, k, i) == IF i = 0 THEN k \in map ELSE f[i] = Down(k)

OnceFor(n, f, k) ==
  \A i \in PlacesIn(f, k) \cup {0} :
    LET later == {j \in PlacesIn(f, k) : j > i}
    IN IF later = {} THEN n[k] > 0 <=> StateAfter(f, k, i)
       ELSE \A j \in later : (\A m \in later : j <= m) /\ f[j] # Clear =>
              (StateAfter(f, k, j) <=> ~StateAfter(f, k, i))

ClearFree(f) == \A i \in 1 .. Len(f) : f[i] # Clear

LEMMA OnceIsForAll ==
  PressedAndReleasedOnce <=> \A k \in Keys : OnceFor(counters, fifo, k)
  BY DEF PressedAndReleasedOnce, OnceFor, Places, PlacesIn, DownAfter, StateAfter

\* Another key's event leaves a key as it is.
LEMMA OtherEvent ==
  ASSUME NEW n, NEW f \in Seq(Events), NEW k, NEW e \in Events, NEW m,
         e.key # k, e # Clear, m[k] = n[k], OnceFor(n, f, k)
  PROVE  OnceFor(m, Append(f, e), k)
  <1> DEFINE g == Append(f, e)
  <1>1. /\ Len(g) = Len(f) + 1 /\ g[Len(f) + 1] = e
        /\ \A i \in 1 .. Len(f) : g[i] = f[i]
    OBVIOUS
  <1>2. e.key # CLRKYS
    BY EventsAre, KeyNumbers
  <1>3. PlacesIn(g, k) = PlacesIn(f, k)
    BY <1>1, <1>2 DEF PlacesIn
  <1>4. \A i \in PlacesIn(f, k) \cup {0} : StateAfter(g, k, i) <=> StateAfter(f, k, i)
    BY <1>1 DEF PlacesIn, StateAfter
  <1>5. \A i \in PlacesIn(f, k) : g[i] = f[i]
    BY <1>1 DEF PlacesIn
  <1> HIDE DEF g
  <1>6. OnceFor(m, g, k)
    BY <1>3, <1>4, <1>5 DEF OnceFor
  <1> QED
    BY <1>6 DEF g

\* The event that a change of its counter from or to zero gives.
LEMMA OwnEvent ==
  ASSUME NEW n, NEW f \in Seq(Events), NEW k \in Keys, NEW e \in {Down(k), Up(k)}, NEW m,
         m[k] > 0 <=> e = Down(k), n[k] > 0 <=> e # Down(k), OnceFor(n, f, k)
  PROVE  OnceFor(m, Append(f, e), k)
  <1> DEFINE g == Append(f, e)
             last == Len(f) + 1
  <1>0. Len(f) \in Nat /\ last \in Nat /\ last = Len(f) + 1 /\ last # 0
    OBVIOUS
  <1>k. e.key = k
    BY DEF Down, Up
  <1>1. /\ Len(g) = last /\ g[last] = e
        /\ \A i \in 1 .. Len(f) : g[i] = f[i]
    OBVIOUS
  <1>2. PlacesIn(g, k) = PlacesIn(f, k) \cup {last}
    BY <1>0, <1>1, <1>k DEF PlacesIn
  <1>3. \A i \in PlacesIn(f, k) \cup {0} : i \in 0 .. Len(f)
    BY <1>0 DEF PlacesIn
  <1>4. \A i \in PlacesIn(f, k) \cup {0} : StateAfter(g, k, i) <=> StateAfter(f, k, i)
    BY <1>1 DEF PlacesIn, StateAfter
  <1>5. \A i \in PlacesIn(f, k) : g[i] = f[i]
    BY <1>1 DEF PlacesIn
  <1> HIDE DEF g, last
  <1>6. StateAfter(g, k, last) <=> e = Down(k)
    BY <1>0, <1>1 DEF StateAfter
  <1> SUFFICES ASSUME NEW i \in PlacesIn(g, k) \cup {0}
               PROVE  LET later == {j \in PlacesIn(g, k) : j > i}
                      IN IF later = {} THEN m[k] > 0 <=> StateAfter(g, k, i)
                         ELSE \A j \in later : (\A x \in later : j <= x) /\ g[j] # Clear =>
                                (StateAfter(g, k, j) <=> ~StateAfter(g, k, i))
    BY DEF OnceFor, g
  <1> DEFINE later == {j \in PlacesIn(g, k) : j > i}
             before == {j \in PlacesIn(f, k) : j > i}
  <1>7. CASE i = last
    <2>1. \A j \in PlacesIn(g, k) : j \in Nat /\ j <= last
      BY <1>0, <1>2, <1>3
    <2>2. \A j \in PlacesIn(g, k) : ~(j > i)
      BY <1>0, <1>7, <2>1
    <2>3. later = {}
      BY <2>2, Zenon
    <2> QED
      BY <1>6, <1>7, <2>3
  <1>8. CASE i # last
    <2>0. i \in PlacesIn(f, k) \cup {0} /\ i \in 0 .. Len(f)
      BY <1>2, <1>3, <1>8
    <2>1. later = before \cup {last} /\ \A j \in before : j < last
      BY <1>0, <1>2, <1>3, <2>0
    <2>2. CASE before = {}
      <3>1. n[k] > 0 <=> StateAfter(f, k, i)
        BY <2>0, <2>2 DEF OnceFor
      <3>2. later = {last} /\ (StateAfter(g, k, i) <=> e # Down(k))
        BY <1>4, <2>0, <2>1, <2>2, <3>1
      <3> QED
        BY <1>6, <3>2
    <2>3. CASE before # {}
      <3>1. ASSUME NEW j \in later, \A x \in later : j <= x, g[j] # Clear
            PROVE  StateAfter(g, k, j) <=> ~StateAfter(g, k, i)
        <4>1. j \in before
          BY <1>0, <1>3, <2>1, <2>3, <3>1
        <4>2. StateAfter(f, k, j) <=> ~StateAfter(f, k, i)
          BY <1>5, <2>0, <2>1, <2>3, <3>1, <4>1 DEF OnceFor
        <4> QED
          BY <1>4, <2>0, <4>1, <4>2
      <3> QED
        BY <2>1, <3>1
    <2> QED
      BY <2>2, <2>3
  <1> QED
    BY <1>7, <1>8

\* The counter changes and stays above zero: no event.
LEMMA NoEvent ==
  ASSUME NEW n, NEW f, NEW k, NEW m, m[k] > 0 <=> n[k] > 0, OnceFor(n, f, k)
  PROVE  OnceFor(m, f, k)
  BY DEF OnceFor

\* What update_keys() does for one code of a row.
Counts == [Keys -> Nat]
Pairs == [n : Counts, f : Seq(Events)]

LEMMA UpdateIs ==
  ASSUME NEW q \in Pairs, NEW x \in Keys \cup {CLRKYS}, NEW release \in BOOLEAN,
         Len(q.f) + 1 < FifoSize, outPtr \in 0 .. FifoSize - 1
  PROVE  LET r == update_keys(q, x, release)
         IN  /\ r \in Pairs /\ Len(r.f) <= Len(q.f) + 1
             /\ (x \in Keys \/ release) /\ ClearFree(q.f) => ClearFree(r.f)
             /\ \A k \in Keys : r.n[k] <= IF k = x /\ ~release THEN q.n[k] + 1 ELSE q.n[k]
             /\ x \in Keys /\ release => r.n[x] = IF q.n[x] = 0 THEN 0 ELSE q.n[x] - 1
             /\ x \in Keys \/ release =>
                  \A k \in Keys : OnceFor(q.n, q.f, k) => OnceFor(r.n, r.f, k)
  <1> DEFINE n == q.n
             f == q.f
  <1>0. q = [n |-> n, f |-> f] /\ n \in Counts /\ f \in Seq(Events)
    BY DEF Pairs
  <1>1. \A e : Put(f, e) = Append(f, e)
    BY <1>0, PutAppends
  <1>2. \A e \in Events : /\ Append(f, e) \in Seq(Events) /\ Len(Append(f, e)) = Len(f) + 1
                          /\ e # Clear /\ ClearFree(f) => ClearFree(Append(f, e))
    <2> SUFFICES ASSUME NEW e \in Events
                 PROVE  /\ Append(f, e) \in Seq(Events) /\ Len(Append(f, e)) = Len(f) + 1
                        /\ e # Clear /\ ClearFree(f) => ClearFree(Append(f, e))
      OBVIOUS
    <2> QED
      BY <1>0 DEF ClearFree
  <1>3. Len(f) \in Nat
    BY <1>0
  <1>4. CASE x = CLRKYS /\ release
    <2>1. update_keys(q, x, release) = q
      BY <1>4 DEF update_keys
    <2>2. \A k \in Keys : k # x /\ n[k] \in Nat /\ n[k] <= n[k]
      BY <1>0, <1>4, KeyNumbers DEF Counts
    <2>3. Len(f) <= Len(f) + 1
      BY <1>3
    <2> QED
      BY <1>4, <2>1, <2>2, <2>3, KeyNumbers, Zenon
  <1>5. CASE x = CLRKYS /\ ~release
    <2>1. update_keys(q, x, release) = [n |-> NoKeys, f |-> Append(f, Clear)]
      BY <1>1, <1>5 DEF update_keys
    <2>2. NoKeys \in Counts /\ \A k \in Keys : NoKeys[k] = 0
      BY DEF NoKeys, Counts
    <2> QED
      BY <1>0, <1>2, <1>3, <1>5, <2>1, <2>2, KeyNumbers, EventsAre DEF Pairs, Counts
  <1>6. ASSUME x \in Keys, NEW g, NEW v \in Nat,
               \/ g = f /\ (v > 0 <=> n[x] > 0)
               \/ g = Append(f, Down(x)) /\ v > 0 /\ n[x] = 0
               \/ g = Append(f, Up(x)) /\ v = 0 /\ n[x] > 0
        PROVE  /\ [n |-> [n EXCEPT ![x] = v], f |-> g] \in Pairs
               /\ [n EXCEPT ![x] = v] \in Counts /\ Len(g) <= Len(f) + 1
               /\ ClearFree(f) => ClearFree(g)
               /\ \A k \in Keys : OnceFor(n, f, k) => OnceFor([n EXCEPT ![x] = v], g, k)
    <2> DEFINE m == [n EXCEPT ![x] = v]
    <2>1. m \in Counts /\ m[x] = v /\ \A k \in Keys : k # x => m[k] = n[k]
      BY <1>0, <1>6 DEF Counts
    <2>2. /\ Down(x) \in Events /\ Up(x) \in Events /\ Down(x) # Clear /\ Up(x) # Clear
          /\ Down(x).key = x /\ Up(x).key = x /\ Down(x) # Up(x)
      BY <1>6, EventsAre DEF Down, Up
    <2>3. g \in Seq(Events) /\ Len(g) <= Len(f) + 1
      BY <1>0, <1>2, <1>3, <1>6, <2>2
    <2>4. ClearFree(f) => ClearFree(g)
      BY <1>2, <1>6, <2>2
    <2> HIDE DEF m, n, f
    <2>5. ASSUME NEW k \in Keys, OnceFor(n, f, k)
          PROVE  OnceFor(m, g, k)
      <3>0. n[x] \in Nat
        BY <1>0, <1>6 DEF Counts
      <3>1. CASE g = f /\ (v > 0 <=> n[x] > 0)
        BY <2>1, <2>5, <3>1, NoEvent
      <3>2. CASE g = Append(f, Down(x)) /\ v > 0 /\ n[x] = 0
        <4>1. CASE k = x
          BY <1>0, <2>1, <2>2, <2>5, <3>2, <4>1, OwnEvent
        <4>2. CASE k # x
          BY <1>0, <2>1, <2>2, <2>5, <3>2, <4>2, OtherEvent
        <4> QED  BY <4>1, <4>2
      <3>3. CASE g = Append(f, Up(x)) /\ v = 0 /\ n[x] > 0
        <4>1. CASE k = x
          BY <1>0, <2>1, <2>2, <2>5, <3>3, <4>1, OwnEvent
        <4>2. CASE k # x
          BY <1>0, <2>1, <2>2, <2>5, <3>3, <4>2, OtherEvent
        <4> QED  BY <4>1, <4>2
      <3> QED
        BY <1>6, <3>1, <3>2, <3>3
    <2> QED
      BY <2>1, <2>3, <2>4, <2>5 DEF m, Pairs
  <1>7. CASE x \in Keys
    <2> DEFINE v == IF ~release THEN n[x] + 1 ELSE IF n[x] = 0 THEN 0 ELSE n[x] - 1
               g == IF ~release /\ n[x] = 0 THEN Append(f, Down(x))
                    ELSE IF release /\ n[x] = 1 THEN Append(f, Up(x)) ELSE f
    <2>1. n[x] \in Nat
      BY <1>0, <1>7 DEF Counts
    <2>2. v \in Nat
      BY <2>1
    <2>3. \/ g = f /\ (v > 0 <=> n[x] > 0)
          \/ g = Append(f, Down(x)) /\ v > 0 /\ n[x] = 0
          \/ g = Append(f, Up(x)) /\ v = 0 /\ n[x] > 0
      <3>1. CASE ~release
        BY <2>1, <3>1
      <3>2. CASE release
        BY <2>1, <3>2
      <3> QED  BY <3>1, <3>2
    <2>4. update_keys(q, x, release) = [n |-> [n EXCEPT ![x] = v], f |-> g]
      <3>1. x # CLRKYS
        BY <1>7, KeyNumbers
      <3>2. CASE ~release
        BY <1>1, <3>1, <3>2 DEF update_keys, PressKey
      <3>3. CASE release /\ n[x] = 0
        <4>1. [n EXCEPT ![x] = v] = n
          BY <1>0, <1>7, <3>3 DEF Counts
        <4>2. update_keys(q, x, release) = q
          BY <3>1, <3>3 DEF update_keys, ReleaseKey
        <4>3. g = f
          BY <3>3
        <4> QED
          BY <1>0, <4>1, <4>2, <4>3
      <3>4. CASE release /\ n[x] # 0
        BY <1>1, <3>1, <3>4 DEF update_keys, ReleaseKey
      <3> QED
        BY <3>2, <3>3, <3>4
    <2>5. /\ [n EXCEPT ![x] = v][x] = v
          /\ \A k \in Keys : k # x => [n EXCEPT ![x] = v][k] = n[k]
      BY <1>0, <1>7 DEF Counts
    <2>6. \A k \in Keys : n[k] \in Nat
      BY <1>0 DEF Counts
    <2>7. v <= IF ~release THEN n[x] + 1 ELSE n[x]
      BY <2>1
    <2>8. release => v = IF n[x] = 0 THEN 0 ELSE n[x] - 1
      OBVIOUS
    <2>9. /\ [n |-> [n EXCEPT ![x] = v], f |-> g] \in Pairs
          /\ [n EXCEPT ![x] = v] \in Counts /\ Len(g) <= Len(f) + 1
          /\ ClearFree(f) => ClearFree(g)
          /\ \A k \in Keys : OnceFor(n, f, k) => OnceFor([n EXCEPT ![x] = v], g, k)
      <3> HIDE DEF g, v
      <3> QED  BY <1>6, <1>7, <2>2, <2>3
    <2>10. x # CLRKYS
      BY <1>7, KeyNumbers
    <2> HIDE DEF v, g
    <2> QED
      BY <2>4, <2>5, <2>6, <2>7, <2>8, <2>9, <2>10
  <1> QED
    BY <1>4, <1>5, <1>7

\* What to_zx() does for a row of one or two codes.
LEMMA ToZxIs ==
  ASSUME TypeOK, NEW p \in Phys, NEW release \in BOOLEAN, Room(p), to_zx(p, release)
  PROVE  /\ counters' \in Counts /\ fifo' \in Seq(Events) /\ Len(fifo') < FifoSize
         /\ release \/ CLRKYS \notin Range(Codes[p]) =>
              /\ ClearFree(fifo) => ClearFree(fifo')
              /\ \A k \in Keys : OnceFor(counters, fifo, k) => OnceFor(counters', fifo', k)
         /\ RowsDistinct => \A k \in Keys :
              /\ counters'[k] <= IF ~release /\ k \in Range(Codes[p])
                                 THEN counters[k] + 1 ELSE counters[k]
              /\ release /\ k \in Range(Codes[p]) =>
                   counters'[k] <= IF counters[k] = 0 THEN 0 ELSE counters[k] - 1
  <1> DEFINE q0 == [n |-> counters, f |-> fifo]
             x1 == Codes[p][1]
             x2 == Codes[p][2]
             q1 == update_keys(q0, x1, release)
             q2 == update_keys(q1, x2, release)
             row == Range(Codes[p])
  <1>1. /\ q0 \in Pairs /\ outPtr \in 0 .. FifoSize - 1
        /\ Len(fifo) \in Nat /\ FifoSize \in Nat /\ Len(Codes[p]) \in {1, 2}
        /\ Len(fifo) + Len(Codes[p]) < FifoSize
        /\ q0.n = counters /\ q0.f = fifo
    BY KeysAssumption DEF TypeOK, Pairs, Counts, Room
  <1>2. /\ row \subseteq Keys \cup {CLRKYS} /\ x1 \in row
        /\ Len(Codes[p]) = 2 => x2 \in row
        /\ \A k \in row : k = x1 \/ (Len(Codes[p]) = 2 /\ k = x2)
        /\ RowsDistinct /\ Len(Codes[p]) = 2 => x1 # x2
    BY KeysAre DEF RowsDistinct
  <1> HIDE DEF q0, x1, x2, row
  <1>3. Len(q0.f) + 1 < FifoSize /\ x1 \in Keys \cup {CLRKYS}
    <2>1. x1 \in Keys \cup {CLRKYS}
      BY <1>2
    <2>2. Len(q0.f) = Len(fifo)
      BY <1>1
    <2>3. Len(fifo) + 1 < FifoSize
      <3> DEFINE a == Len(fifo)
                 b == Len(Codes[p])
      <3>1. a \in Nat /\ FifoSize \in Nat /\ b \in {1, 2} /\ a + b < FifoSize
        BY <1>1
      <3> HIDE DEF a, b
      <3>2. a + 1 < FifoSize
        BY <3>1
      <3> QED  BY <3>2 DEF a
    <2> QED
      BY <2>1, <2>2, <2>3
  <1>4. /\ q1 \in Pairs /\ Len(q1.f) <= Len(q0.f) + 1
        /\ (x1 \in Keys \/ release) /\ ClearFree(q0.f) => ClearFree(q1.f)
        /\ \A k \in Keys : q1.n[k] <= IF k = x1 /\ ~release THEN q0.n[k] + 1 ELSE q0.n[k]
        /\ x1 \in Keys /\ release => q1.n[x1] = IF q0.n[x1] = 0 THEN 0 ELSE q0.n[x1] - 1
        /\ x1 \in Keys \/ release =>
             \A k \in Keys : OnceFor(q0.n, q0.f, k) => OnceFor(q1.n, q1.f, k)
    BY <1>1, <1>3, UpdateIs
  <1>5. \A k \in Keys : q0.n[k] \in Nat /\ q1.n[k] \in Nat
    BY <1>1, <1>4 DEF Pairs, Counts
  <1>6. CASE Len(Codes[p]) = 1
    <2>1. counters' = q1.n /\ fifo' = q1.f
      BY <1>6 DEF to_zx, q0, x1, x2
    <2> HIDE DEF q1
    <2>2. counters' \in Counts /\ fifo' \in Seq(Events) /\ Len(fifo') < FifoSize
      BY <1>1, <1>4, <1>6, <2>1 DEF Pairs
    <2>3. row = {x1}
      BY <1>2, <1>6
    <2>4. release \/ CLRKYS \notin row =>
              /\ ClearFree(fifo) => ClearFree(fifo')
              /\ \A k \in Keys : OnceFor(counters, fifo, k) => OnceFor(counters', fifo', k)
      BY <1>1, <1>3, <1>4, <2>1, <2>3
    <2>5. \A k \in Keys :
              /\ counters'[k] <= IF ~release /\ k \in row THEN counters[k] + 1 ELSE counters[k]
              /\ release /\ k \in row =>
                   counters'[k] <= IF counters[k] = 0 THEN 0 ELSE counters[k] - 1
      BY <1>1, <1>4, <1>5, <2>1, <2>3
    <2> QED
      BY <2>2, <2>4, <2>5 DEF row
  <1>7. CASE Len(Codes[p]) = 2
    <2>1. counters' = q2.n /\ fifo' = q2.f
      BY <1>7 DEF to_zx, q0, x1, x2
    <2> HIDE DEF q1
    <2>2. Len(q1.f) + 1 < FifoSize /\ x2 \in Keys \cup {CLRKYS} /\ Len(q1.f) \in Nat
      BY <1>1, <1>2, <1>4, <1>7 DEF Pairs
    <2>3. /\ q2 \in Pairs /\ Len(q2.f) <= Len(q1.f) + 1
          /\ (x2 \in Keys \/ release) /\ ClearFree(q1.f) => ClearFree(q2.f)
          /\ \A k \in Keys : q2.n[k] <= IF k = x2 /\ ~release THEN q1.n[k] + 1 ELSE q1.n[k]
          /\ x2 \in Keys /\ release => q2.n[x2] = IF q1.n[x2] = 0 THEN 0 ELSE q1.n[x2] - 1
          /\ x2 \in Keys \/ release =>
               \A k \in Keys : OnceFor(q1.n, q1.f, k) => OnceFor(q2.n, q2.f, k)
      BY <1>1, <1>4, <2>2, UpdateIs
    <2> HIDE DEF q2
    <2>4. row = {x1, x2}
      BY <1>2, <1>7
    <2>5. counters' \in Counts /\ fifo' \in Seq(Events) /\ Len(fifo') < FifoSize
      <3>1. Len(q2.f) \in Nat /\ Len(q2.f) < FifoSize
        BY <1>1, <2>2, <2>3 DEF Pairs
      <3> QED
        BY <2>1, <2>3, <3>1 DEF Pairs
    <2>6. release \/ CLRKYS \notin row =>
              /\ ClearFree(fifo) => ClearFree(fifo')
              /\ \A k \in Keys : OnceFor(counters, fifo, k) => OnceFor(counters', fifo', k)
      BY <1>1, <1>3, <1>4, <2>1, <2>2, <2>3, <2>4
    <2>7. ASSUME RowsDistinct, NEW k \in Keys
          PROVE
              /\ counters'[k] <= IF ~release /\ k \in row THEN counters[k] + 1 ELSE counters[k]
              /\ release /\ k \in row =>
                   counters'[k] <= IF counters[k] = 0 THEN 0 ELSE counters[k] - 1
      <3>1. x1 # x2
        BY <1>2, <1>7, <2>7
      <3>2. q2.n[k] \in Nat
        BY <2>3 DEF Pairs, Counts
      <3> QED
        BY <1>1, <1>4, <1>5, <2>1, <2>3, <2>4, <3>1, <3>2
    <2> QED
      BY <2>5, <2>6, <2>7 DEF row
  <1> QED
    BY <1>1, <1>6, <1>7

-----------------------------------------------------------------------------
(* Types                                                                   *)

USE DEF vars, input, work, fpga, ends

LEMMA Numbers ==
  /\ FifoSize \in Nat /\ FifoSize > 1 /\ ShiftPause \in Nat /\ ShiftPause > 0
  /\ MaxErrors \in Nat /\ MaxResets \in Nat /\ IsFiniteSet(Phys)
  BY KeysAssumption

LEMMA TakeTypes ==
  ASSUME TypeOK, fifo # <<>>, Take
  PROVE  /\ Head(fifo) \in Events /\ Len(fifo) \in Nat /\ Len(fifo) > 0
         /\ fifo' \in Seq(Events) /\ Len(fifo') = Len(fifo) - 1
         /\ outPtr' \in 0 .. FifoSize - 1
         /\ Head(fifo) = fifo[1] /\ \A i \in 1 .. Len(fifo') : fifo'[i] = fifo[i + 1]
  <1>1. fifo \in Seq(Events) /\ outPtr \in Nat /\ fifo' = Tail(fifo)
    BY DEF TypeOK, Take
  <1>2. outPtr' \in 0 .. FifoSize - 1
    BY <1>1, Numbers DEF Take
  <1> QED
    BY <1>1, <1>2

LEMMA TypeInit == Init => TypeOK
  <1> SUFFICES ASSUME Init PROVE TypeOK
    OBVIOUS
  <1>1. counters \in [Keys -> Nat]
    BY DEF Init, NoKeys
  <1>2. fifo \in Seq(Events) /\ Len(fifo) < FifoSize /\ outPtr \in 0 .. FifoSize - 1
    BY Numbers DEF Init
  <1>3. wasData \in BOOLEAN /\ cleared \in BOOLEAN
    BY Zenon DEF Init
  <1> QED
    BY <1>1, <1>2, <1>3, Numbers DEF Init, TypeOK

\* A column's keys are keys of the matrix.
LEMMA LandedFits ==
  ASSUME NEW c, NEW n \in 0 .. 7, map \subseteq Keys
  PROVE  Landed(c, n) \subseteq 0 .. KEY_V
  <1> SUFFICES ASSUME n <= 4, NEW k \in map
               PROVE  (4 - n) * 8 + (k % 8) \in 0 .. KEY_V
    BY DEF Landed
  <1>1. k \in Nat
    BY KeysAre, KeyNumbers
  <1>2. k % 8 \in 0 .. 7
    BY <1>1
  <1> QED
    BY <1>2, KeyNumbers

LEMMA TypeStep == TypeOK /\ [Next]_vars => TypeOK'
  <1> SUFFICES ASSUME TypeOK, [Next]_vars PROVE TypeOK'
    OBVIOUS
  <1>0. NoKeys \in [Keys -> Nat] /\ NoPrev \in Events \cup {NoPrev} /\ map \subseteq Keys
    BY DEF NoKeys, TypeOK
  <1> HIDE DEF NoKeys, NoPrev
  <1>1. ASSUME NEW p \in Phys, Press(p) PROVE TypeOK'
    <2>1. counters' \in [Keys -> Nat] /\ fifo' \in Seq(Events) /\ Len(fifo') < FifoSize
      BY <1>1, ToZxIs DEF Press, Counts
    <2> QED
      BY <1>1, <2>1 DEF Press, TypeOK
  <1>2. ASSUME NEW p \in Phys, Release(p) PROVE TypeOK'
    <2>1. counters' \in [Keys -> Nat] /\ fifo' \in Seq(Events) /\ Len(fifo') < FifoSize
      BY <1>2, ToZxIs DEF Release, Counts
    <2> QED
      BY <1>2, <2>1 DEF Release, TypeOK
  <1>3. CASE Tick
    <2>1. shiftPause' \in 0 .. ShiftPause
      BY <1>3, Numbers DEF Tick, TypeOK
    <2> QED
      BY <1>3, <2>1 DEF Tick, TypeOK
  <1>4. CASE Begin \/ EndDrain
    <2>1. wasData' \in BOOLEAN
      BY <1>4, Zenon DEF Begin, EndDrain
    <2>2. taskState' \in 0 .. 6
      BY <1>4 DEF Begin, EndDrain, TypeOK
    <2> QED
      BY <1>4, <2>1, <2>2 DEF Begin, EndDrain, TypeOK
  <1>5. CASE ProcessKey
    <2>1. /\ Head(fifo) \in Events /\ fifo' \in Seq(Events) /\ Len(fifo') < FifoSize
          /\ outPtr' \in 0 .. FifoSize - 1
      BY <1>5, TakeTypes, Numbers DEF ProcessKey, TypeOK
    <2>2. map' \subseteq Keys /\ prev' \in Events
      BY <1>0, <1>5, <2>1, EventsAre DEF ProcessKey
    <2>3. shiftPause' \in 0 .. ShiftPause
      BY <1>5, Numbers DEF ProcessKey
    <2> QED
      BY <1>5, <2>1, <2>2, <2>3 DEF ProcessKey, TypeOK
  <1>6. CASE ProcessClear
    <2>1. fifo' \in Seq(Events) /\ Len(fifo') < FifoSize /\ outPtr' \in 0 .. FifoSize - 1
      BY <1>6, TakeTypes, Numbers DEF ProcessClear, TypeOK
    <2>2. wasData' \in BOOLEAN
      BY <1>6, Zenon DEF ProcessClear
    <2> QED
      BY <1>0, <1>6, <2>1, <2>2 DEF ProcessClear, TypeOK
  <1>7. CASE SendColumn
    <2>1. cols' \subseteq 0 .. KEY_V
      BY <1>0, <1>7, LandedFits DEF SendColumn, TypeOK
    <2>2. kbdCnt' \in 0 .. 7 /\ taskState' \in 0 .. 6
      BY <1>7 DEF SendColumn, TypeOK
    <2> QED
      BY <1>7, <2>1, <2>2 DEF SendColumn, TypeOK
  <1>8. CASE Strobe
    BY <1>8 DEF Strobe, TypeOK
  <1>9. CASE Ps2Error
    <2>1. errors' \in 0 .. MaxErrors
      BY <1>9, Numbers DEF Ps2Error, TypeOK
    <2> QED
      BY <1>0, <1>9, <2>1 DEF Ps2Error, TypeOK
  <1>10. CASE HardReset
    <2>1. resets' \in 0 .. MaxResets
      BY <1>10, Numbers DEF HardReset, TypeOK
    <2>2. fifo' \in Seq(Events) /\ Len(fifo') < FifoSize /\ outPtr' \in 0 .. FifoSize - 1
          /\ shiftPause' \in 0 .. ShiftPause
      BY <1>10, Numbers DEF HardReset
    <2> QED
      BY <1>0, <1>10, <2>1, <2>2 DEF HardReset, TypeOK
  <1>11. CASE UNCHANGED vars
    BY <1>11 DEF TypeOK
  <1> QED
    BY <1>1, <1>2, <1>3, <1>4, <1>5, <1>6, <1>7, <1>8, <1>9, <1>10, <1>11 DEF Next, ZxTask

-----------------------------------------------------------------------------
(* The counters                                                            *)

LEMMA CountersHeldStep ==
  ASSUME TypeOK, CountersHeld, [Next]_vars
  PROVE  CountersHeld'
  <1> SUFFICES ASSUME RowsDistinct, NEW k \in Keys
               PROVE  counters'[k] <= Cardinality(Holders(k)')
    BY DEF CountersHeld, RowsDistinct, Keys
  <1>1. /\ IsFiniteSet(Holders(k)) /\ Cardinality(Holders(k)) \in Nat /\ counters[k] \in Nat
        /\ counters[k] <= Cardinality(Holders(k))
    BY FS_Subset, FS_CardinalityType, Numbers DEF Holders, TypeOK, CountersHeld
  <1>2. ASSUME NEW p \in Phys, Press(p) PROVE counters'[k] <= Cardinality(Holders(k)')
    <2>1. /\ counters'[k] <= IF k \in Range(Codes[p]) THEN counters[k] + 1 ELSE counters[k]
          /\ counters'[k] \in Nat
      BY <1>2, ToZxIs DEF Press, Counts
    <2>2. CASE k \in Range(Codes[p])
      <3>1. Holders(k)' = Holders(k) \cup {p} /\ p \notin Holders(k)
        BY <1>2, <2>2 DEF Holders, Press
      <3>2. Cardinality(Holders(k)') = Cardinality(Holders(k)) + 1
        BY <1>1, <3>1, FS_AddElement
      <3> QED
        BY <1>1, <2>1, <2>2, <3>2
    <2>3. CASE k \notin Range(Codes[p])
      <3>1. Holders(k)' = Holders(k)
        BY <1>2, <2>3 DEF Holders, Press
      <3> QED
        BY <1>1, <2>1, <2>3, <3>1
    <2> QED
      BY <2>2, <2>3
  <1>3. ASSUME NEW p \in Phys, Release(p) PROVE counters'[k] <= Cardinality(Holders(k)')
    <2>1. /\ counters'[k] <= counters[k] /\ counters'[k] \in Nat
          /\ k \in Range(Codes[p]) =>
               counters'[k] <= IF counters[k] = 0 THEN 0 ELSE counters[k] - 1
      BY <1>3, ToZxIs DEF Release, Counts
    <2>2. CASE k \in Range(Codes[p])
      <3>1. Holders(k)' = Holders(k) \ {p} /\ p \in Holders(k)
        BY <1>3, <2>2 DEF Holders, Release
      <3>2. Cardinality(Holders(k)') = Cardinality(Holders(k)) - 1
        BY <1>1, <3>1, FS_RemoveElement
      <3>3. IsFiniteSet(Holders(k)') /\ Cardinality(Holders(k)') \in Nat
        BY <1>1, <3>1, FS_RemoveElement, FS_CardinalityType
      <3> QED
        BY <1>1, <2>1, <2>2, <3>2, <3>3
    <2>3. CASE k \notin Range(Codes[p])
      <3>1. Holders(k)' = Holders(k)
        BY <1>3, <2>3 DEF Holders, Release
      <3> QED
        BY <1>1, <2>1, <2>3, <3>1
    <2> QED
      BY <2>2, <2>3
  <1>4. CASE ProcessClear \/ Ps2Error \/ HardReset
    <2>1. counters'[k] = 0
      BY <1>4 DEF ProcessClear, Ps2Error, HardReset, NoKeys
    <2>2. Holders(k)' = Holders(k)
      BY <1>4 DEF ProcessClear, Ps2Error, HardReset, Holders
    <2> QED
      BY <1>1, <2>1, <2>2
  <1>5. CASE UNCHANGED <<held, counters>>
    <2>1. Holders(k)' = Holders(k)
      BY <1>5 DEF Holders
    <2> QED
      BY <1>1, <1>5, <2>1
  <1> QED
    BY <1>2, <1>3, <1>4, <1>5
    DEF Next, ZxTask, Tick, Begin, ProcessKey, EndDrain, SendColumn, Strobe

-----------------------------------------------------------------------------
(* The filter                                                              *)

LEMMA NoClearStep == TypeOK /\ NoClear /\ [Next]_vars => NoClear'
  <1> SUFFICES ASSUME TypeOK, NoClear, [Next]_vars, ~cleared'
               PROVE  ClearFree(fifo')
    BY DEF NoClear, ClearFree
  <1>0. ~cleared => ClearFree(fifo)
    BY DEF NoClear, ClearFree
  <1>1. ASSUME NEW p \in Phys, Press(p) PROVE ClearFree(fifo')
    BY <1>0, <1>1, ToZxIs DEF Press
  <1>2. ASSUME NEW p \in Phys, Release(p) PROVE ClearFree(fifo')
    BY <1>0, <1>2, ToZxIs DEF Release
  <1>3. CASE ProcessKey \/ ProcessClear
    <2>1. ClearFree(fifo)
      BY <1>0, <1>3 DEF ProcessKey, ProcessClear
    <2>2. Len(fifo') = Len(fifo) - 1 /\ Len(fifo) \in Nat
          /\ \A i \in 1 .. Len(fifo') : fifo'[i] = fifo[i + 1]
      BY <1>3, TakeTypes DEF ProcessKey, ProcessClear
    <2> QED
      BY <2>1, <2>2 DEF ClearFree
  <1>4. CASE HardReset
    BY <1>4 DEF HardReset, ClearFree
  <1>5. CASE UNCHANGED <<fifo, cleared>>
    BY <1>0, <1>5
  <1>6. CASE Ps2Error
    BY <1>6 DEF Ps2Error
  <1> QED
    BY <1>1, <1>2, <1>3, <1>4, <1>5, <1>6
    DEF Next, ZxTask, Tick, Begin, EndDrain, SendColumn, Strobe

\* What zx_task() takes from the FIFO it puts into the bitmap.
LEMMA TakeKeepsOnce ==
  ASSUME TypeOK, ProcessKey, NEW k \in Keys, ClearFree(fifo), OnceFor(counters, fifo, k)
  PROVE  OnceFor(counters, fifo, k)'
  <1> DEFINE e == Head(fifo)
             P == PlacesIn(fifo, k)
             Q == PlacesIn(fifo, k)'
             Next1(i) == i + 1
  <1>1. /\ e \in Events /\ Len(fifo) \in Nat /\ Len(fifo) > 0 /\ Len(fifo') = Len(fifo) - 1
        /\ e = fifo[1] /\ \A i \in 1 .. Len(fifo') : fifo'[i] = fifo[i + 1]
    BY TakeTypes DEF ProcessKey
  <1>2. /\ map' = IF e.down THEN map \cup {e.key} ELSE map \ {e.key}
        /\ counters' = counters /\ e # Clear
    BY DEF ProcessKey
  <1> HIDE DEF e
  <1>3. e.key # CLRKYS /\ (e = Down(e.key) <=> e.down)
    <2>1. e.key # CLRKYS
      BY <1>1, <1>2, EventsAre, KeyNumbers
    <2>2. e.down \in BOOLEAN /\ (e = Down(e.key) \/ e = Up(e.key))
      BY <1>1, EventsAre
    <2>3. Down(e.key).down = TRUE /\ Up(e.key).down = FALSE
      BY DEF Down, Up
    <2> QED
      BY <2>1, <2>2, <2>3
  <1>4. \A i \in 1 .. Len(fifo') : i \in Q <=> i + 1 \in P
    BY <1>1 DEF PlacesIn
  <1>5. P \subseteq 1 .. Len(fifo) /\ Q \subseteq 1 .. Len(fifo')
    BY DEF PlacesIn
  <1>6. 1 \in P <=> e.key = k
    BY <1>1, <1>3 DEF PlacesIn
  <1>7. \A i \in Q : StateAfter(fifo, k, i)' <=> StateAfter(fifo, k, i + 1)
    BY <1>1, <1>5 DEF StateAfter
  <1>8. StateAfter(fifo, k, 0)' <=> IF e.key = k THEN StateAfter(fifo, k, 1)
                                    ELSE StateAfter(fifo, k, 0)
    <2>1. CASE e.key = k
      BY <1>1, <1>2, <1>3, <2>1 DEF StateAfter
    <2>2. CASE e.key # k
      BY <1>1, <1>2, <1>3, <2>2 DEF StateAfter
    <2> QED  BY <2>1, <2>2
  <1>9. \A i \in Q : fifo'[i] = fifo[i + 1]
    BY <1>1, <1>5
  \* Where in the old FIFO the new place i is.
  <1> DEFINE old(i) == IF i = 0 THEN IF e.key = k THEN 1 ELSE 0 ELSE i + 1
  <1>10. ASSUME NEW i \in Q \cup {0}
         PROVE  /\ old(i) \in P \cup {0}
                /\ StateAfter(fifo, k, i)' <=> StateAfter(fifo, k, old(i))
                /\ \A j \in Q : j > i => j + 1 > old(i)
                /\ \A m \in P : m > old(i) => m - 1 \in Q /\ m - 1 > i /\ m = (m - 1) + 1
    <2>1. CASE i = 0
      <3>1. \A j \in Q : j \in Nat /\ j >= 1
        BY <1>5
      <3>2. \A m \in P : m \in Nat /\ m >= 1 /\ m <= Len(fifo)
        BY <1>5
      <3>3. \A m \in P : m # 1 => m - 1 \in Q
        BY <1>1, <1>4, <3>2
      <3> QED
        BY <1>6, <1>8, <2>1, <3>1, <3>2, <3>3
    <2>2. CASE i # 0
      <3>1. i \in Q /\ i \in Nat
        BY <1>5, <2>2
      <3>2. old(i) = i + 1 /\ i + 1 \in P
        BY <1>4, <1>5, <2>2, <3>1
      <3>3. \A m \in P : m > i + 1 => m - 1 \in Q /\ m - 1 > i /\ m = (m - 1) + 1
        BY <1>1, <1>4, <1>5, <3>1
      <3>4. \A j \in Q : j > i => j + 1 > i + 1
        BY <1>5, <3>1
      <3> QED
        BY <1>7, <3>1, <3>2, <3>3, <3>4
    <2> QED
      BY <2>1, <2>2
  <1> HIDE DEF old, P, Q
  <1>11. ASSUME NEW i \in Q \cup {0}
         PROVE  LET later == {j \in Q : j > i}
                IN IF later = {} THEN counters'[k] > 0 <=> StateAfter(fifo, k, i)'
                   ELSE \A j \in later : (\A x \in later : j <= x) /\ fifo'[j] # Clear =>
                          (StateAfter(fifo, k, j)' <=> ~StateAfter(fifo, k, i)')
    <2> DEFINE later == {j \in Q : j > i}
               before == {j \in P : j > old(i)}
    <2>1. later = {} <=> before = {}
      BY <1>4, <1>5, <1>10, <1>11 DEF P, Q
    <2>2. CASE later = {}
      BY <1>2, <1>10, <2>1, <2>2 DEF OnceFor, P
    <2>3. CASE later # {}
      <3> SUFFICES ASSUME NEW j \in later, \A x \in later : j <= x
                   PROVE  StateAfter(fifo, k, j)' <=> ~StateAfter(fifo, k, i)'
        BY <2>3
      <3>1. j + 1 \in before
        BY <1>4, <1>5, <1>10
      <3>2. \A x \in before : j + 1 <= x
        BY <1>5, <1>10
      <3>3. fifo[j + 1] # Clear
        BY <1>5, <3>1 DEF ClearFree
      <3>4. StateAfter(fifo, k, j + 1) <=> ~StateAfter(fifo, k, old(i))
        BY <1>10, <3>1, <3>2, <3>3 DEF OnceFor, P
      <3> QED
        BY <1>7, <1>10, <3>4
    <2> QED
      BY <2>2, <2>3
  <1> QED
    BY <1>11 DEF OnceFor, Q

LEMMA OnceStep ==
  ASSUME TypeOK, NoClear, OnceUntilCleared, [Next]_vars
  PROVE  OnceUntilCleared'
  <1> SUFFICES ASSUME ~cleared', NEW k \in Keys
               PROVE  OnceFor(counters, fifo, k)'
    BY OnceIsForAll DEF OnceUntilCleared, PressedAndReleasedOnce, OnceFor, Places, PlacesIn,
                        DownAfter, StateAfter, Keys
  <1>1. ~cleared => ClearFree(fifo) /\ OnceFor(counters, fifo, k)
    BY OnceIsForAll DEF OnceUntilCleared, NoClear, ClearFree
  <1>2. ASSUME NEW p \in Phys, Press(p) \/ Release(p)
        PROVE  OnceFor(counters, fifo, k)'
    <2>1. OnceFor(counters', fifo', k) /\ map' = map
      BY <1>1, <1>2, ToZxIs DEF Press, Release
    <2> QED
      BY <2>1 DEF OnceFor, PlacesIn, StateAfter
  <1>3. CASE ProcessKey
    BY <1>1, <1>3, TakeKeepsOnce DEF ProcessKey
  <1>4. CASE ProcessClear
    <2>1. ClearFree(fifo)
      BY <1>1, <1>4 DEF ProcessClear
    <2>2. fifo[1] = Clear /\ 1 \in 1 .. Len(fifo)
      BY <1>4, TakeTypes DEF ProcessClear
    <2> QED
      BY <2>1, <2>2 DEF ClearFree
  <1>5. CASE HardReset
    <2>1. counters'[k] = 0 /\ k \notin map' /\ fifo' = <<>>
      BY <1>5 DEF HardReset, NoKeys
    <2>2. PlacesIn(fifo, k)' = {}
      BY <2>1 DEF PlacesIn
    <2> QED
      BY <2>1, <2>2 DEF OnceFor, StateAfter
  <1>6. CASE Ps2Error
    BY <1>6 DEF Ps2Error
  <1>7. CASE UNCHANGED <<counters, fifo, map, cleared>>
    <2>1. OnceFor(counters, fifo, k)
      BY <1>1, <1>7
    <2> QED
      BY <1>7, <2>1 DEF OnceFor, PlacesIn, StateAfter
  <1> QED
    BY <1>2, <1>3, <1>4, <1>5, <1>6, <1>7
    DEF Next, ZxTask, Tick, Begin, EndDrain, SendColumn, Strobe

-----------------------------------------------------------------------------
(* The bitmap and the matrix                                               *)

LEMMA DrainingStep == TypeOK /\ Draining /\ [Next]_vars => Draining'
  <1> SUFFICES ASSUME TypeOK, Draining, [Next]_vars PROVE Draining'
    OBVIOUS
  <1> USE DEF Draining
  <1>1. CASE \/ \E p \in Phys : Press(p) \/ Release(p)
             \/ Tick \/ SendColumn \/ Strobe \/ Ps2Error \/ HardReset
    <2>1. pc = "loop" /\ pc' = "loop" /\ wasData' = wasData
      BY <1>1 DEF Press, Release, Tick, SendColumn, Strobe, Ps2Error, HardReset
    <2> QED
      BY <2>1
  <1>4. CASE UNCHANGED vars
    BY <1>4
  <1>2. CASE Begin \/ ProcessClear \/ EndDrain
    BY <1>2 DEF Begin, ProcessClear, EndDrain
  <1>3. CASE ProcessKey
    BY <1>3, Numbers DEF ProcessKey
  <1> QED
    BY <1>1, <1>2, <1>3, <1>4 DEF Next, ZxTask

LEMMA InStepStep == TypeOK /\ Draining /\ InStep /\ [Next]_vars => InStep'
  <1> SUFFICES ASSUME TypeOK, Draining, InStep, [Next]_vars PROVE InStep'
    OBVIOUS
  <1> USE DEF InStep
  <1>1. CASE SendColumn
    BY <1>1 DEF SendColumn, TypeOK
  <1>2. CASE Strobe \/ HardReset
    BY <1>2 DEF Strobe, HardReset
  <1>3. CASE ProcessClear \/ EndDrain
    BY <1>3 DEF ProcessClear, EndDrain, Draining
  <1>4. CASE UNCHANGED <<kbdCnt, taskState>>
    BY <1>4
  <1> QED
    BY <1>1, <1>2, <1>3, <1>4
    DEF Next, ZxTask, Press, Release, Tick, Begin, ProcessKey, Ps2Error

LEMMA PrevShownStep == TypeOK /\ PrevShown /\ [Next]_vars => PrevShown'
  <1> SUFFICES ASSUME TypeOK, PrevShown, [Next]_vars, errors' = 0
               PROVE  prev'.key \in map' <=> prev'.down
    BY DEF PrevShown
  <1>1. CASE ProcessKey
    <2>1. /\ prev' = Head(fifo)
          /\ map' = IF prev'.down THEN map \cup {prev'.key} ELSE map \ {prev'.key}
      BY <1>1 DEF ProcessKey
    <2> QED
      BY <2>1
  <1>2. CASE ProcessClear \/ HardReset
    BY <1>2 DEF ProcessClear, HardReset, NoPrev, Up
  <1>3. CASE Ps2Error
    BY <1>3 DEF Ps2Error, TypeOK
  <1>4. CASE UNCHANGED <<map, prev, errors>>
    BY <1>4 DEF PrevShown
  <1> QED
    BY <1>1, <1>2, <1>3, <1>4
    DEF Next, ZxTask, Press, Release, Tick, Begin, EndDrain, SendColumn, Strobe

\* The column that is sent lands in its place, and in no other.
LEMMA ColumnLands ==
  ASSUME TypeOK, InStep, SendColumn, NEW k \in 0 .. KEY_V
  PROVE  k \in cols' <=> IF (k \div 8) + kbdCnt = 4 THEN k \in map ELSE k \in cols
  <1> DEFINE c == 4 - kbdCnt
  <1>1. kbdCnt \in 0 .. 4 /\ taskState - 2 = c /\ c \in 0 .. 4
    BY DEF InStep, SendColumn, TypeOK
  <1>2. \A j \in map : j \in 0 .. 39
    BY KeysAre, KeyNumbers DEF TypeOK
  <1>3. Landed(c, kbdCnt) = {c * 8 + (j % 8) : j \in {i \in map : i \div 8 = c}}
    BY <1>1 DEF Landed
  <1>4. \A j \in 0 .. 39 : j = (j \div 8) * 8 + (j % 8) /\ j % 8 \in 0 .. 7 /\ j \div 8 \in 0 .. 4
    OBVIOUS
  <1> HIDE DEF c
  <1>5. \A j \in map : j \div 8 = c => c * 8 + (j % 8) = j
    <2> TAKE j \in map
    <2>1. j = (j \div 8) * 8 + (j % 8) /\ j % 8 \in 0 .. 7
      BY <1>2, <1>4
    <2> QED
      BY <2>1
  <1>6. Landed(c, kbdCnt) = {j \in map : j \div 8 = c}
    <2>1. Landed(c, kbdCnt) \subseteq {j \in map : j \div 8 = c}
      BY <1>3, <1>5
    <2>2. \A j \in map : j \div 8 = c => j \in Landed(c, kbdCnt)
      <3> SUFFICES ASSUME NEW j \in map, j \div 8 = c PROVE j \in Landed(c, kbdCnt)
        OBVIOUS
      <3>1. j = c * 8 + (j % 8)
        BY <1>5
      <3> QED
        BY <1>3, <3>1
    <2> QED
      BY <2>1, <2>2
  <1>7. cols' = {j \in cols : j \div 8 # c} \cup Landed(c, kbdCnt)
    BY <1>1 DEF SendColumn, c
  <1>8. k \div 8 = c <=> (k \div 8) + kbdCnt = 4
    BY <1>1, KeyNumbers DEF c
  <1> QED
    BY <1>6, <1>7, <1>8

LEMMA ColumnsStep ==
  ASSUME TypeOK, Draining, InStep, ColumnsShown, [Next]_vars
  PROVE  ColumnsShown'
  <1> SUFFICES ASSUME NEW k \in 0 .. KEY_V
               PROVE  /\ taskState' = 0 /\ ~wasData' => Shown(k)'
                      /\ taskState' > 0 /\ (k \div 8) + kbdCnt' > 4 => Shown(k)'
    BY DEF ColumnsShown
  <1>0. /\ taskState = 0 /\ ~wasData => Shown(k)
        /\ taskState > 0 /\ (k \div 8) + kbdCnt > 4 => Shown(k)
    BY DEF ColumnsShown
  <1>n. k \div 8 \in 0 .. 4
    BY KeyNumbers
  <1>1. CASE SendColumn
    <2>1. /\ taskState > 1 /\ taskState' = taskState - 1 /\ taskState' > 0
          /\ kbdCnt' = kbdCnt + 1 /\ UNCHANGED <<map, errors>>
      BY <1>1 DEF SendColumn, InStep, TypeOK
    <2>2. k \in cols' <=> IF (k \div 8) + kbdCnt = 4 THEN k \in map ELSE k \in cols
      BY <1>1, ColumnLands
    <2>3. kbdCnt \in Nat /\ taskState \in Nat
      BY DEF TypeOK
    <2>4. CASE (k \div 8) + kbdCnt = 4
      BY <2>1, <2>2, <2>4 DEF Shown
    <2>5. CASE (k \div 8) + kbdCnt > 4
      <3>1. Shown(k)
        BY <1>0, <2>1, <2>3, <2>5
      <3> QED
        BY <1>n, <2>1, <2>2, <2>3, <2>5, <3>1 DEF Shown
    <2>6. CASE (k \div 8) + kbdCnt < 4
      BY <1>n, <2>1, <2>3, <2>6
    <2> QED
      BY <1>n, <2>3, <2>4, <2>5, <2>6
  <1>2. CASE Strobe
    <2>1. kbdCnt = 5 /\ taskState = 1
      BY <1>2 DEF Strobe, InStep
    <2>2. Shown(k)
      BY <1>0, <1>n, <2>1
    <2> QED
      BY <1>2, <2>2 DEF Strobe, Shown
  <1>3. CASE HardReset
    BY <1>3 DEF HardReset, Shown
  <1>4. CASE Ps2Error
    <2>1. map' = {} /\ errors' # 0
      BY <1>4 DEF Ps2Error, TypeOK
    <2> QED
      BY <2>1 DEF Shown
  <1>5. CASE ProcessClear
    <2>1. taskState' = 6 /\ kbdCnt' = 0
      BY <1>5 DEF ProcessClear, InStep, Draining
    <2> QED
      BY <1>n, <2>1
  <1>6. CASE EndDrain
    <2>1. taskState = 0 /\ kbdCnt' = 0 /\ UNCHANGED <<map, cols, errors>>
      BY <1>6 DEF EndDrain, Draining, InStep
    <2>2. taskState' = 0 \/ (k \div 8) + kbdCnt' <= 4
      BY <1>n, <2>1
    <2>3. taskState' = 0 => ~wasData
      BY <1>6 DEF EndDrain
    <2> QED
      BY <1>0, <1>n, <2>1, <2>2, <2>3 DEF Shown
  <1>7. CASE ProcessKey
    BY <1>7 DEF ProcessKey, Draining
  <1>8. CASE Begin
    <2>1. UNCHANGED <<map, cols, errors, taskState, kbdCnt>> /\ ~wasData /\ ~wasData'
      BY <1>8 DEF Begin, Draining
    <2> QED
      BY <1>0, <2>1 DEF Shown
  <1>9. CASE UNCHANGED <<map, cols, errors, taskState, kbdCnt, wasData>>
    BY <1>0, <1>9 DEF Shown
  <1> QED
    BY <1>1, <1>2, <1>3, <1>4, <1>5, <1>6, <1>7, <1>8, <1>9
    DEF Next, ZxTask, Press, Release, Tick

-----------------------------------------------------------------------------
(* The theorems                                                            *)

LEMMA InvInit == Init => IInv
  <1> SUFFICES ASSUME Init PROVE IInv
    OBVIOUS
  <1>1. CountersHeld
    <2>1. \A k \in Keys : counters[k] = 0 /\ Holders(k) = {}
      BY DEF Init, NoKeys, Holders
    <2> QED
      BY <2>1, FS_EmptySet DEF CountersHeld
  <1>2. NoClear
    BY DEF Init, NoClear
  <1>3. OnceUntilCleared
    <2>1. \A k \in Keys : counters[k] = 0 /\ k \notin map /\ PlacesIn(fifo, k) = {}
      BY DEF Init, NoKeys, PlacesIn
    <2>2. \A k \in Keys : OnceFor(counters, fifo, k)
      BY <2>1 DEF OnceFor, StateAfter
    <2> QED
      BY <2>2, OnceIsForAll DEF OnceUntilCleared
  <1>4. Draining /\ InStep /\ PrevShown
    BY DEF Init, Draining, InStep, PrevShown, NoPrev, Up
  <1>5. ColumnsShown
    BY DEF Init, ColumnsShown, Shown
  <1> QED
    BY <1>1, <1>2, <1>3, <1>4, <1>5, TypeInit DEF IInv

LEMMA Inductive == Spec => []IInv
  <1>1. IInv /\ [Next]_vars => IInv'
    BY TypeStep, CountersHeldStep, NoClearStep, OnceStep, DrainingStep, InStepStep,
       PrevShownStep, ColumnsStep DEF IInv
  <1> QED
    BY <1>1, InvInit, PTL DEF Spec

LEMMA ColumnsAreMatrix == IInv => MatrixFollowsMap
  <1> SUFFICES ASSUME IInv, pc = "loop", taskState = 0
               PROVE  map \subseteq cols /\ (errors = 0 => cols = map)
    BY DEF MatrixFollowsMap
  <1>1. \A k \in 0 .. KEY_V : Shown(k)
    BY DEF IInv, Draining, ColumnsShown
  <1>2. map \subseteq 0 .. KEY_V /\ cols \subseteq 0 .. KEY_V
    BY KeysAre DEF IInv, TypeOK
  <1> QED
    BY <1>1, <1>2 DEF Shown

\* The types; no counter counts more than the keys that are down; each key's
\* events are presses and releases in turn until something clears the counters;
\* and the Z80 sees the bitmap when nothing is to be done.
THEOREM FilterAndMatrix == Spec => []Inv
  <1>1. IInv => Inv
    BY ColumnsAreMatrix DEF IInv, Inv
  <1> QED
    BY <1>1, Inductive, PTL

\* A key that follows its shift goes down when the Z80 has seen the shift, and a
\* shift that follows its key comes up when the Z80 has seen the key go, for every
\* key map, length of the pause and row of events.
THEOREM ShiftIsFirst == Spec => ShiftShownFirst
  <1>1. ASSUME IInv, [Next]_vars, NEW e \in Events \ {Clear}
        PROVE  InOrder(e)
    <2> SUFFICES ASSUME Applies(e), errors = 0,
                        \/ prev.down /\ e.down /\ IsShift(prev.key) /\ ~IsShift(e.key)
                        \/ ~prev.down /\ ~e.down /\ ~IsShift(prev.key) /\ IsShift(e.key)
                 PROVE  IF prev.down THEN prev.key \in cols ELSE prev.key \notin cols
      BY DEF InOrder
    <2>1. fifo' # fifo
      <3>1. fifo \in Seq(Events) /\ fifo # <<>> /\ fifo' = Tail(fifo)
        BY <1>1 DEF IInv, TypeOK, Applies
      <3>2. Len(fifo') # Len(fifo)
        BY <3>1
      <3> QED
        BY <3>2
    <2>2. ProcessKey
      <3>1. pc = "drain" /\ Head(fifo) # Clear
        BY DEF Applies
      <3> QED
        BY <1>1, <2>1, <3>1
        DEF Next, ZxTask, Press, Release, Tick, Begin, ProcessClear, EndDrain, SendColumn, Strobe,
            Ps2Error, HardReset
    <2>3. shiftPause = 0
      <3>1. ~Pauses(e)
        BY <2>2 DEF ProcessKey, Applies
      <3>2. shiftPause \in Nat
        BY <1>1, Numbers DEF IInv, TypeOK
      <3> QED
        BY <3>1, <3>2 DEF Pauses
    <2>4. \A k \in 0 .. KEY_V : Shown(k)
      BY <1>1, <2>2, <2>3 DEF ProcessKey, IInv, Draining, ColumnsShown
    <2>5. prev.key \in map <=> prev.down
      BY <1>1 DEF IInv, PrevShown
    <2>6. map \subseteq 0 .. KEY_V /\ cols \subseteq 0 .. KEY_V
      BY <1>1, KeysAre DEF IInv, TypeOK
    <2> QED
      BY <2>4, <2>5, <2>6 DEF Shown
  <1>2. IInv /\ [Next]_vars => [EventsInOrder]_vars
    BY <1>1 DEF EventsInOrder
  <1> QED
    BY <1>2, Inductive, PTL DEF Spec, ShiftShownFirst

=============================================================================
