---------------------------- MODULE FlashProofs -----------------------------
(***************************************************************************)
(* Proofs about the file system on the flash: its types, the truth of the  *)
(* caches in RAM, the room of a copy, what a repair gives back, and that   *)
(* the files that can be read are a store of whole files; with files left  *)
(* alone while a format is cut short.                                      *)
(***************************************************************************)
EXTENDS FlashFiles, FiniteSetTheorems, WellFoundedInduction, TLAPS

Magics == {"ok", "erased", "junk"}
Types == {"FREE", "HEAD", "BODY"}
Links == Chunks \cup {None}

ChunkType == [magic : Magics, next : Links, type : Types, size : Nat \cup {None},
              name : Names \cup {NoHdr, NoName}, data : Seq(Units)]

PutJobs == [op : {"put"}, at : {"take", "hdr", "name", "data", "link", "fail"},
            name : Names, size : Sizes, done : Nat,
            head : Chunks, cur : Chunks, prev : Chunks, room : Nat]
RemoveJobs == [op : {"remove"}, at : {"erase", "magic"}, name : Names \cup {NoName},
               cur : Chunks, next : Links]
FormatJobs == [op : {"format"}, step : EraseSteps, block : 0..N, at : {"probe", "erase", "magic"}]
FixJobs == [op : {"fix"}, at : {"visit", "erase", "magic"}, refs : SUBSET Chunks, block : 0..N,
            cur : Chunks, chain : BOOLEAN, next : Links]
RetestJobs == [op : {"retest"}, todo : SUBSET Chunks]

JobType ==
  {Idle, Off} \cup PutJobs \cup RemoveJobs \cup FormatJobs \cup FixJobs \cup RetestJobs

\* The units that fit in a chunk.
Cap(k) == IF k.type = "HEAD" THEN HeadRoom ELSE BodyRoom

FlashTypes ==
  /\ flash \in [Chunks -> ChunkType]
  /\ \A c \in Chunks : Len(flash[c].data) <= Cap(flash[c])
RamTypes ==
  /\ map \in [Chunks -> HeaderType]
  /\ vol \in [free : 0..N, files : 0..N, last : Chunks]
  /\ job \in JobType /\ cut \in BOOLEAN

-----------------------------------------------------------------------------
(* The inductive invariant.  L is the set of live chunks: those whose links *)
(* a scan may follow.                                                       *)

Fresh == [Erased EXCEPT !.magic = "ok"]

Has(f, c, type) == f[c].magic = "ok" /\ f[c].type = type

\* What can be told from a magic number and a type: but for chunk 0, over whose
\* magic number a format writes, no chunk shows more of an earlier life.
Blank ==
  \A c \in Chunks :
    /\ Has(flash, c, "FREE") => flash[c] = Fresh
    /\ flash[c].magic = "erased" => flash[c] = Erased
    /\ flash[c].magic = "junk" /\ c # 0 => flash[c] = Torn

\* Every head is live, a link of a live chunk leads to a live body, and no two
\* lead to the same.  A format cut short (k) leaves links to blocks it erased.
Live(f, k, L) ==
  /\ L \subseteq Chunks
  /\ \A c \in Chunks : Has(f, c, "HEAD") => c \in L
  /\ \A c \in L : f[c].magic = "ok" /\ f[c].type # "FREE"
  /\ \A c \in L : f[c].next # None =>
       \/ f[c].next \in L /\ f[f[c].next].type = "BODY"
       \/ k /\ f[f[c].next].magic # "ok"
  /\ \A c, d \in L : f[c].next # None /\ f[c].next = f[d].next => c = d

Unlinked(f, L, c) == \A d \in L : f[d].next # c

Caches ==
  /\ job.op \in {"idle", "put", "remove"} =>
       /\ \A c \in Chunks : map[c] = Header(flash[c])
       /\ vol.free = Count(flash, "FREE")
  /\ job.op = "idle" => vol.files = Count(flash, "HEAD")

\* Before its first chunk is taken a copy has the room its size requires.
PutStart ==
  job.op = "put" =>
    /\ ~cut
    /\ job.at = "take" => /\ Required(job.size) <= vol.free /\ job.done = 0
                          /\ vol.files = Count(flash, "HEAD")

\* Then it is at the end of a file not counted yet, and what is left to copy
\* fits in the rest of the chunk and the free ones.
PutFile ==
  job.op = "put" /\ job.at # "take" =>
    /\ vol.files + 1 = Count(flash, "HEAD")
    /\ Has(flash, job.head, "HEAD")
    /\ Has(flash, job.cur, IF job.cur = job.head THEN "HEAD" ELSE "BODY")
    /\ flash[job.cur].next = None
    /\ Len(flash[job.cur].data) + job.room = Cap(flash[job.cur])
    /\ job.done <= job.size
    /\ job.size - job.done - job.room <= BodyRoom * vol.free
    /\ job.at \in {"data", "link", "fail"} => flash[job.head].name = job.name

PutEnds(L) ==
  job.op = "put" =>
    /\ job.at \in {"hdr", "name", "data"} => job.cur \in L /\ (job.room = 0 => job.prev = job.cur)
    /\ job.at = "link" =>
         /\ job.prev \in L /\ flash[job.prev].next = None /\ job.cur \notin L
         /\ vol.last = job.cur /\ job.room = BodyRoom

\* A file is erased from its head on, so nothing links to what is left of it.
RemoveInv(L) ==
  job.op = "remove" =>
    /\ ~cut
    /\ job.at = "erase" =>
         /\ job.cur \in L /\ Unlinked(flash, L, job.cur)
         /\ vol.files = Count(flash, "HEAD") + (IF Has(flash, job.cur, "HEAD") THEN 0 ELSE 1)
    /\ job.at = "magic" =>
         /\ flash[job.cur] = Erased
         /\ job.next # None => /\ job.next \in L /\ flash[job.next].type = "BODY"
                               /\ Unlinked(flash, L, job.next)
         /\ vol.files = Count(flash, "HEAD") + 1

FormatInv ==
  job.op = "format" =>
    /\ job.at = "probe" => job.block = 0
    /\ job.at = "erase" => job.block < N /\ \A c \in Chunks : c < job.block => flash[c] = Erased
    /\ job.at = "magic" => ~cut

RetestInv ==
  job.op = "retest" => ~cut /\ \A c \in job.todo : flash[c].magic # "ok"

\* The links from a head on lead to bodies and end.
GoodLinks(h) == \A c \in {h} \cup Linked(h) : map[c].next # None => LinksToBody(c)

\* The map of a repair is true of what has not been erased, and of a chunk it
\* has given back it knows that it is no head ahead.
FixMap(L) ==
  job.op = "fix" =>
    /\ \A c \in Chunks : flash[c].magic = "ok" /\ flash[c].type # "FREE" =>
         map[c] = Header(flash[c])
    /\ \A c \in Chunks : (map[c].magic = "ok") # (flash[c].magic = "ok") =>
         job.at = "magic" /\ c = job.cur
    /\ \A c \in Chunks : map[c].magic # "ok" /\ c # 0 => map[c].type = "FREE"
    /\ \A c \in Chunks : Is(c, "HEAD") /\ (c > job.block \/ (c = job.block /\ job.at = "visit"))
         => c \in L

\* The chunk of a bad file the repair goes on with.
NextBad == IF job.at = "erase" THEN job.cur ELSE IF job.at = "magic" THEN job.next ELSE None

\* The live bodies are those referred to, each behind a live chunk; of what the
\* repair has gone by, every body is live and every head that of a good file.
FixFiles(L) ==
  job.op = "fix" =>
    /\ \A c \in L : flash[c].type = "BODY" =>
         c \in job.refs /\ (c = NextBad \/ ~Unlinked(flash, L, c))
    /\ \A c \in Chunks : Has(flash, c, "BODY") /\ (c < job.block \/ c \in job.refs) => c \in L
    /\ \A c \in L : flash[c].type = "HEAD" /\ c < job.block =>
         GoodLinks(c) /\ flash[c].size # None

\* The repair is at a chunk nothing links to, and goes on to another.
FixAt(L) ==
  job.op = "fix" /\ job.at # "visit" =>
    /\ job.block < N
    /\ flash[job.block].magic = "ok" /\ flash[job.block].type # "FREE" =>
         job.at = "erase" /\ job.cur = job.block
    /\ Unlinked(flash, L, job.cur)
    /\ job.at = "erase" =>
         /\ job.cur = job.block \/ ~Is(job.cur, "HEAD")
         /\ job.chain => job.cur \in L \/ map[job.cur].magic # "ok"
         /\ job.cur \in L => job.chain
    /\ job.at = "magic" =>
         /\ flash[job.cur] = Erased
         /\ job.next # None =>
              /\ job.chain /\ Unlinked(flash, L, job.next) /\ job.next # job.cur
              /\ \/ job.next \in L /\ flash[job.next].type = "BODY"
                 \/ map[job.next].magic # "ok"

FlashInv(L) ==
  /\ Blank /\ Caches /\ PutStart /\ PutFile /\ FormatInv /\ RetestInv
  /\ Live(flash, cut, L) /\ PutEnds(L) /\ RemoveInv(L)
  /\ FixMap(L) /\ FixFiles(L) /\ FixAt(L)

Sound(L) == FlashTypes /\ RamTypes /\ FlashInv(L)

\* Where a live chunk is in its file: the head, the links from it, the units
\* before it.
Spots == [Chunks -> [head : Links, links : Nat, from : Nat]]

\* Each link leads on in the file, and a closed file ends no earlier than its
\* size says.  A chunk whose head was erased has none.
Files(f, L, s) ==
  /\ \A c \in L : f[c].type = "HEAD" => s[c].head = c /\ s[c].links = 0 /\ s[c].from = 0
  /\ \A c \in L : f[c].next \in L =>
       /\ s[f[c].next].head = s[c].head
       /\ s[f[c].next].links = s[c].links + 1
       /\ s[f[c].next].from = s[c].from + Len(f[c].data)
  /\ \A c \in L : s[c].head # None =>
       /\ s[c].head \in L /\ f[s[c].head].type = "HEAD"
       /\ f[c].next = None => f[s[c].head].size <= s[c].from + Len(f[c].data)

\* The chunk a copy has reached with its links.
LastLinked == IF job.at = "link" THEN job.prev ELSE job.cur

\* It is the only end of the file, and holds what was copied last.
PutTail(L, s) ==
  job.op = "put" /\ job.at # "take" =>
    /\ LastLinked \in L /\ s[LastLinked].head = job.head
    /\ job.done <= s[LastLinked].from + Len(flash[LastLinked].data)
    /\ \A c \in L : s[c].head = job.head /\ flash[c].next = None => c = LastLinked

Filed(L, s) == Files(flash, L, s) /\ PutTail(L, s)

IInv == \E L \in SUBSET Chunks : Sound(L) /\ \E s \in Spots : Filed(L, s)

-----------------------------------------------------------------------------
(* Least chunks. *)

\* There are N chunks.
LEMMA ChunksFinite == IsFiniteSet(Chunks) /\ Cardinality(Chunks) = N
BY SizesAssumption, FS_Interval DEF Chunks

\* A set of numbers has a least one: of the intervals up to one of them, one
\* holds no other.
LEMMA LeastNumber ==
  ASSUME NEW T \in SUBSET Nat, T # {}
  PROVE  \E m \in T : \A n \in T : m <= n
<1>1. PICK t \in T : TRUE
  OBVIOUS
<1> DEFINE D == 0 .. t
           R == StrictSubsetOrdering(D)
           Upto(x) == 0 .. x
           T1 == {x \in T : x <= t}
           U == {Upto(x) : x \in T1}
<1>2. IsFiniteSet(D)
  BY FS_Interval
<1>3. IsWellFoundedOn(R, SUBSET D)
  BY <1>2, FS_StrictSubsetOrderingWellFounded, FS_FiniteSubsetsOfFinite
<1>4. U \subseteq SUBSET D /\ U # {}
  <2>1. t \in T1
    BY <1>1
  <2> QED BY <2>1
<1>5. \E u \in U : \A v \in U : ~(<<v, u>> \in R)
  <2> HIDE DEF R, U, D
  <2> QED BY <1>3, <1>4, WFMin
<1>6. PICK m \in T1 : \A n \in T1 : ~(<<Upto(n), Upto(m)>> \in R)
  BY <1>5
<1>7. ASSUME NEW n \in T, ~(m <= n) PROVE FALSE
  <2>1. m \in Nat /\ n \in Nat /\ n < m /\ m <= t /\ n \in T1
    BY <1>6, <1>7
  <2>2. Upto(n) \subseteq Upto(m) /\ m \in Upto(m) /\ m \notin Upto(n) /\ Upto(m) \subseteq D
    BY <2>1
  <2>3. <<Upto(n), Upto(m)>> \in R
    BY <2>2 DEF StrictSubsetOrdering
  <2> QED BY <2>1, <2>3, <1>6
<1> QED BY <1>6, <1>7

\* Of chunks that are numbered, one has the least number.
LEMMA LeastBy ==
  ASSUME NEW S, S # {}, NEW g, \A c \in S : g[c] \in Nat
  PROVE  \E c \in S : \A d \in S : g[c] <= g[d]
<1> DEFINE T == {g[c] : c \in S}
<1>1. T \in SUBSET Nat /\ T # {}
  OBVIOUS
<1>2. PICK m \in T : \A n \in T : m <= n
  <2> HIDE DEF T
  <2> QED BY <1>1, LeastNumber
<1> QED BY <1>2

\* Among chunks there is a first.
LEMMA Least ==
  ASSUME NEW T \in SUBSET Chunks, T # {}
  PROVE  \E x \in T : \A y \in T : x <= y
<1>1. T \in SUBSET Nat
  BY DEF Chunks
<1> QED BY <1>1, LeastNumber

\* First finds a chunk if there is one.
LEMMA FirstIs ==
  ASSUME NEW T \in SUBSET Chunks, T # {}
  PROVE  First(T) \in T /\ \A y \in T : First(T) <= y
BY Least DEF First

-----------------------------------------------------------------------------
(* Counts. *)

\* A count is a number of chunks.
LEMMA CountRange ==
  ASSUME NEW f, NEW t
  PROVE  /\ Count(f, t) \in 0..N
         /\ Count(f, t) # 0 <=> \E c \in Chunks : Has(f, c, t)
<1> DEFINE S == {c \in Chunks : f[c].magic = "ok" /\ f[c].type = t}
<1>1. IsFiniteSet(S) /\ Cardinality(S) <= N
  BY ChunksFinite, FS_Subset
<1>2. Cardinality(S) \in Nat /\ (Cardinality(S) = 0 <=> S = {})
  BY <1>1, FS_CardinalityType, FS_EmptySet
<1>3. Count(f, t) = Cardinality(S)
  BY DEF Count
<1>4. S # {} <=> \E c \in Chunks : Has(f, c, t)
  BY DEF Has
<1> HIDE DEF S
<1> QED BY <1>1, <1>2, <1>3, <1>4, SizesAssumption

\* Chunks of the same types count the same.
LEMMA CountSame ==
  ASSUME NEW f, NEW g, NEW t, \A c \in Chunks : Has(g, c, t) <=> Has(f, c, t)
  PROVE  Count(g, t) = Count(f, t)
<1>1. {c \in Chunks : Has(g, c, t)} = {c \in Chunks : Has(f, c, t)}
  OBVIOUS
<1> QED BY <1>1 DEF Count, Has

\* One chunk more of a type.
LEMMA CountMore ==
  ASSUME NEW f, NEW g, NEW t, NEW c \in Chunks, ~Has(f, c, t), Has(g, c, t),
         \A d \in Chunks : d # c => (Has(g, d, t) <=> Has(f, d, t))
  PROVE  Count(g, t) = Count(f, t) + 1
<1> DEFINE S == {d \in Chunks : f[d].magic = "ok" /\ f[d].type = t}
           U == {d \in Chunks : g[d].magic = "ok" /\ g[d].type = t}
<1>1. U = S \cup {c} /\ c \notin S
  BY DEF Has
<1>2. IsFiniteSet(S)
  BY ChunksFinite, FS_Subset
<1>3. Cardinality(U) = Cardinality(S) + 1
  <2> HIDE DEF S, U
  <2> QED BY <1>1, <1>2, FS_AddElement
<1> QED BY <1>3 DEF Count

-----------------------------------------------------------------------------
(* Live chunks. *)

SameHeader(g, f, c) ==
  g[c].magic = f[c].magic /\ g[c].type = f[c].type /\ g[c].next = f[c].next

\* The live chunks stay when their magic numbers, types and links do.
LEMMA LiveSame ==
  ASSUME NEW f, NEW g, NEW k, NEW L, f \in [Chunks -> ChunkType],
         Live(f, k, L), \A c \in Chunks : SameHeader(g, f, c)
  PROVE  Live(g, k, L)
<1>1. \A c \in L : f[c].next = None \/ f[c].next \in Chunks
  BY DEF Live, ChunkType, Links
<1> QED BY <1>1 DEF Live, SameHeader, Has

\* Chunks that lose their magic number leave the live ones; other live chunks
\* link to none of them, unless a format is cut short.
LEMMA LiveErase ==
  ASSUME NEW f, NEW g, NEW k \in BOOLEAN, NEW m \in BOOLEAN, NEW L, NEW E,
         f \in [Chunks -> ChunkType], Live(f, k, L), k => m,
         \A c \in Chunks \ E : SameHeader(g, f, c),
         \A c \in Chunks \cap E : g[c].magic # "ok",
         m \/ \A d \in L \ E : f[d].next \notin E
  PROVE  Live(g, m, L \ E)
<1>1. \A c \in L : f[c].next = None \/ f[c].next \in Chunks
  BY DEF Live, ChunkType, Links
<1>2. L \ E \subseteq Chunks /\ \A c \in Chunks : Has(g, c, "HEAD") => c \in L \ E
  BY DEF Live, SameHeader, Has
<1>3. \A c \in L \ E : g[c].magic = "ok" /\ g[c].type # "FREE"
  BY DEF Live, SameHeader
<1>4. ASSUME NEW c \in L \ E, g[c].next # None
      PROVE  \/ g[c].next \in L \ E /\ g[g[c].next].type = "BODY"
             \/ m /\ g[g[c].next].magic # "ok"
  <2>1. c \in Chunks /\ g[c].next = f[c].next /\ f[c].next \in Chunks
    BY <1>1, <1>4 DEF Live, SameHeader
  <2>2. CASE f[c].next \in E
    BY <2>1, <2>2
  <2>3. CASE f[c].next \notin E
    BY <2>1, <2>3, <1>4 DEF Live, SameHeader
  <2> QED BY <2>2, <2>3
<1>5. \A c, d \in L \ E : g[c].next # None /\ g[c].next = g[d].next => c = d
  BY DEF Live, SameHeader
<1> QED BY <1>2, <1>3, <1>4, <1>5 DEF Live

\* A chunk that gets its magic number is free; nothing may link to it.
LEMMA LiveMagic ==
  ASSUME NEW f, NEW g, NEW k \in BOOLEAN, NEW L, NEW c \in Chunks,
         f \in [Chunks -> ChunkType], Live(f, k, L),
         f[c].magic # "ok", g[c].type = "FREE", k => Unlinked(f, L, c),
         \A d \in Chunks \ {c} : SameHeader(g, f, d)
  PROVE  Live(g, k, L)
<1>1. \A d \in L : (f[d].next = None \/ f[d].next \in Chunks) /\ d \in Chunks
  BY DEF Live, ChunkType, Links
<1>2. c \notin L /\ Unlinked(f, L, c)
  <2>1. c \notin L /\ c # None
    BY DEF Live, Chunks, None
  <2>2. \A d \in L : f[d].next # None => k \/ f[d].next \in L
    BY DEF Live
  <2> QED BY <2>1, <2>2 DEF Unlinked
<1>3. \A d \in L : SameHeader(g, f, d)
  BY <1>1, <1>2
<1>4. ASSUME NEW d \in L, g[d].next # None
      PROVE  \/ g[d].next \in L /\ g[g[d].next].type = "BODY"
             \/ k /\ g[g[d].next].magic # "ok"
  <2>1. g[d].next = f[d].next /\ f[d].next \in Chunks \ {c}
    BY <1>1, <1>2, <1>3, <1>4 DEF Unlinked, SameHeader
  <2>2. \/ f[d].next \in L /\ f[f[d].next].type = "BODY"
        \/ k /\ f[f[d].next].magic # "ok"
    BY <2>1, <1>1 DEF Live, Chunks, None
  <2>3. SameHeader(g, f, f[d].next)
    BY <2>1
  <2> QED BY <2>1, <2>2, <2>3 DEF SameHeader
<1> QED BY <1>2, <1>3, <1>4 DEF Live, SameHeader, Has

\* A free chunk that is taken as a head is live; as a body, not yet.
LEMMA LiveTake ==
  ASSUME NEW f, NEW g, NEW L, NEW c \in Chunks,
         f \in [Chunks -> ChunkType], Live(f, FALSE, L),
         Has(f, c, "FREE"), Has(g, c, "HEAD") \/ Has(g, c, "BODY"), g[c].next = None,
         \A d \in Chunks \ {c} : SameHeader(g, f, d)
  PROVE  /\ Has(g, c, "HEAD") => Live(g, FALSE, L \cup {c})
         /\ Has(g, c, "BODY") => Live(g, FALSE, L) /\ c \notin L
<1>1. \A d \in L : (f[d].next = None \/ f[d].next \in L) /\ d \in Chunks \ {c}
  BY DEF Live, Has
<1>2. \A d \in L : SameHeader(g, f, d)
  BY <1>1
<1>3. CASE Has(g, c, "HEAD")
  BY <1>1, <1>2, <1>3 DEF Live, SameHeader, Has
<1>4. CASE Has(g, c, "BODY")
  BY <1>1, <1>2, <1>4 DEF Live, SameHeader, Has
<1> QED BY <1>3, <1>4 DEF Has

\* A body is live once a live chunk links to it.
LEMMA LiveLink ==
  ASSUME NEW f, NEW g, NEW L, NEW p \in L, NEW c \in Chunks \ L,
         f \in [Chunks -> ChunkType], Live(f, FALSE, L),
         Has(f, c, "BODY"), f[c].next = None, f[p].next = None, g[p].next = c,
         Has(g, p, f[p].type),
         \A d \in Chunks \ {p} : SameHeader(g, f, d)
  PROVE  Live(g, FALSE, L \cup {c})
<1>1. \A d \in L : (f[d].next = None \/ f[d].next \in L) /\ d \in Chunks
  BY DEF Live
<1>2. \A d \in L \cup {c} : g[d].magic = "ok" /\ g[d].type = f[d].type
  BY <1>1 DEF Live, SameHeader, Has
<1>3. \A d \in L \cup {c} : g[d].next = IF d = p THEN c ELSE f[d].next
  BY <1>1 DEF SameHeader
<1>4. \A d \in Chunks : Has(g, d, "HEAD") => d \in L
  BY <1>1 DEF Live, SameHeader, Has
<1>5. c # None
  BY DEF Chunks, None
<1> QED BY <1>1, <1>2, <1>3, <1>4, <1>5 DEF Live, Has

-----------------------------------------------------------------------------
(* The chunks behind a head, as the map has them. *)

\* Linked holds the body a link of the file leads to, ...
LEMMA LinkedClosed ==
  ASSUME NEW h, NEW c \in {h} \cup Linked(h), LinksToBody(c), map[c].next \in Chunks
  PROVE  map[c].next \in Linked(h)
<1>1. ASSUME NEW cs \in SUBSET Chunks, Closed(cs, h) PROVE map[c].next \in cs
  BY <1>1 DEF Closed, Linked
<1> QED BY <1>1 DEF Linked

\* ... and is the least set that does.
LEMMA LinkedLeast ==
  ASSUME NEW h, NEW cs \in SUBSET Chunks, Closed(cs, h)
  PROVE  Linked(h) \subseteq cs
BY DEF Linked

\* So each chunk in it is the body a link of the file leads to.
LEMMA LinkedFrom ==
  ASSUME map \in [Chunks -> HeaderType], NEW h \in Chunks, NEW c \in Linked(h)
  PROVE  \E p \in {h} \cup Linked(h) : LinksToBody(p) /\ map[p].next = c
<1> SUFFICES ASSUME \A p \in {h} \cup Linked(h) : LinksToBody(p) => map[p].next # c
             PROVE  FALSE
  OBVIOUS
<1> DEFINE cs == Linked(h) \ {c}
<1>1. cs \in SUBSET Chunks
  BY DEF Linked
<1>2. ASSUME NEW d \in {h} \cup cs, LinksToBody(d) PROVE map[d].next \in cs
  <2>1. d \in Chunks
    BY <1>1
  <2>2. map[d].next \in Chunks
    BY <1>2, <2>1 DEF LinksToBody, HeaderType
  <2> QED BY <1>2, <2>2, LinkedClosed
<1>3. Closed(cs, h)
  BY <1>2 DEF Closed
<1> QED BY <1>1, <1>3, LinkedLeast

\* Good links stay good when a chunk gets its magic number.
LEMMA GoodLinksStay ==
  ASSUME NEW h \in Chunks, map \in [Chunks -> HeaderType], GoodLinks(h),
         \A c \in Chunks : /\ map'[c].next = map[c].next /\ map'[c].type = map[c].type
                           /\ map[c].magic = "ok" => map'[c].magic = "ok"
  PROVE  GoodLinks(h)'
<1>1. \A c \in Chunks : map[c].next \in Links
  BY DEF HeaderType, Links
<1>2. ASSUME NEW c \in {h} \cup Linked(h), map[c].next # None
      PROVE  LinksToBody(c) /\ LinksToBody(c)' /\ map[c].next \in Linked(h)
  <2>1. LinksToBody(c) /\ c \in Chunks
    BY <1>2 DEF GoodLinks, Linked
  <2>2. map[c].next \in Chunks
    BY <1>1, <1>2, <2>1 DEF Links
  <2>3. map[c].next \in Linked(h)
    BY <2>1, <2>2, LinkedClosed
  <2>4. LinksToBody(c)'
    BY <2>1, <2>2 DEF LinksToBody, Is
  <2> QED BY <2>1, <2>3, <2>4
<1>3. PICK cs \in SUBSET Chunks : cs = Linked(h)
  BY DEF Linked
<1>4. Closed(cs, h)'
  <2> SUFFICES ASSUME NEW c \in {h} \cup cs, LinksToBody(c)'
               PROVE  map'[c].next \in cs
    BY DEF Closed
  <2>1. c \in Chunks
    OBVIOUS
  <2> QED BY <1>2, <1>3, <2>1 DEF LinksToBody
<1>5. Linked(h)' \subseteq cs
  BY <1>4 DEF Linked
<1>6. ASSUME NEW c \in {h} \cup Linked(h)', map'[c].next # None PROVE LinksToBody(c)'
  BY <1>2, <1>3, <1>5, <1>6
<1> QED BY <1>6 DEF GoodLinks

-----------------------------------------------------------------------------
(* Writing and erasing. *)

Kept(c) == \A d \in Chunks \ {c} : flash'[d] = flash[d] /\ map'[d] = map[d]
Mapped(c) == map[c] = Header(flash[c])

\* What a write does to each field of a chunk whose header the map has.
LEMMA WriteMagicField ==
  ASSUME FlashTypes, RamTypes, NEW c \in Chunks, NEW v \in Magics, Write(c, "magic", v)
  PROVE  /\ flash' \in [Chunks -> ChunkType] /\ map' \in [Chunks -> HeaderType] /\ Kept(c)
         /\ flash'[c].magic = v /\ flash'[c].type = flash[c].type
         /\ flash'[c].next = flash[c].next /\ flash'[c].data = flash[c].data
<1>1. flash' = [flash EXCEPT ![c] = [flash[c] EXCEPT !.magic = v]]
  BY DEF Write, FlashTypes, ChunkType
<1>2. map' = [map EXCEPT ![c] = [map[c] EXCEPT !.magic = v]]
  BY DEF Write, RamTypes, HeaderType
<1>3. flash' \in [Chunks -> ChunkType]
  BY <1>1 DEF FlashTypes, ChunkType
<1>4. map' \in [Chunks -> HeaderType]
  BY <1>2 DEF RamTypes, HeaderType, Magics
<1>5. Kept(c)
  BY <1>1, <1>2 DEF FlashTypes, RamTypes, Kept
<1>6. flash'[c] = [flash[c] EXCEPT !.magic = v] /\ flash[c] \in ChunkType
  BY <1>1 DEF FlashTypes
<1> QED BY <1>3, <1>4, <1>5, <1>6 DEF ChunkType

\* The link.
LEMMA WriteNext ==
  ASSUME FlashTypes, RamTypes, NEW c \in Chunks, NEW v \in Chunks, Write(c, "next", v)
  PROVE  /\ flash' \in [Chunks -> ChunkType] /\ map' \in [Chunks -> HeaderType] /\ Kept(c)
         /\ flash'[c] = [flash[c] EXCEPT !.next = v]
         /\ flash'[c].magic = flash[c].magic /\ flash'[c].type = flash[c].type
         /\ flash'[c].next = v /\ flash'[c].data = flash[c].data
         /\ flash'[c].name = flash[c].name /\ flash'[c].size = flash[c].size
         /\ Mapped(c) => Mapped(c)'
<1>1. flash' = [flash EXCEPT ![c] = [flash[c] EXCEPT !.next = v]]
  BY DEF Write, FlashTypes, ChunkType
<1>2. map' = [map EXCEPT ![c] = [map[c] EXCEPT !.next = v]]
  BY DEF Write, RamTypes, HeaderType
<1>3. flash' \in [Chunks -> ChunkType] /\ map' \in [Chunks -> HeaderType]
  <2>1. flash' \in [Chunks -> ChunkType]
    BY <1>1 DEF FlashTypes, ChunkType, Links
  <2>2. map' \in [Chunks -> HeaderType]
    BY <1>2 DEF RamTypes, HeaderType, Links
  <2> QED BY <2>1, <2>2
<1>4. Kept(c)
  BY <1>1, <1>2 DEF FlashTypes, RamTypes, Kept
<1>5. /\ flash'[c] = [flash[c] EXCEPT !.next = v] /\ map'[c] = [map[c] EXCEPT !.next = v]
      /\ flash[c] \in ChunkType /\ map[c] \in HeaderType
  BY <1>1, <1>2 DEF FlashTypes, RamTypes
<1>6. /\ flash'[c].magic = flash[c].magic /\ flash'[c].type = flash[c].type
      /\ flash'[c].next = v /\ flash'[c].data = flash[c].data
      /\ flash'[c].name = flash[c].name /\ flash'[c].size = flash[c].size
  BY <1>5 DEF ChunkType
<1>7. ASSUME Mapped(c) PROVE Mapped(c)'
  BY <1>5, <1>7 DEF Mapped, Header, ChunkType, HeaderType
<1> QED BY <1>3, <1>4, <1>5, <1>6, <1>7

\* The type.
LEMMA WriteType ==
  ASSUME FlashTypes, RamTypes, NEW c \in Chunks, NEW v \in Types, Write(c, "type", v)
  PROVE  /\ flash' \in [Chunks -> ChunkType] /\ map' \in [Chunks -> HeaderType] /\ Kept(c)
         /\ flash'[c].magic = flash[c].magic /\ flash'[c].type = v
         /\ flash'[c].next = flash[c].next /\ flash'[c].data = flash[c].data
         /\ flash'[c].size = flash[c].size
         /\ Mapped(c) => Mapped(c)'
<1>1. flash' = [flash EXCEPT ![c] = [flash[c] EXCEPT !.type = v]]
  BY DEF Write, FlashTypes, ChunkType
<1>2. map' = [map EXCEPT ![c] = [map[c] EXCEPT !.type = v]]
  BY DEF Write, RamTypes, HeaderType
<1>3. flash' \in [Chunks -> ChunkType] /\ map' \in [Chunks -> HeaderType]
  <2>1. flash' \in [Chunks -> ChunkType]
    BY <1>1 DEF FlashTypes, ChunkType, Types
  <2>2. map' \in [Chunks -> HeaderType]
    BY <1>2 DEF RamTypes, HeaderType, Types
  <2> QED BY <2>1, <2>2
<1>4. Kept(c)
  BY <1>1, <1>2 DEF FlashTypes, RamTypes, Kept
<1>5. /\ flash'[c] = [flash[c] EXCEPT !.type = v] /\ map'[c] = [map[c] EXCEPT !.type = v]
      /\ flash[c] \in ChunkType /\ map[c] \in HeaderType
  BY <1>1, <1>2 DEF FlashTypes, RamTypes
<1>6. /\ flash'[c].magic = flash[c].magic /\ flash'[c].type = v
      /\ flash'[c].next = flash[c].next /\ flash'[c].data = flash[c].data
      /\ flash'[c].size = flash[c].size
  BY <1>5 DEF ChunkType
<1>7. ASSUME Mapped(c) PROVE Mapped(c)'
  BY <1>5, <1>7 DEF Mapped, Header, ChunkType, HeaderType
<1> QED BY <1>3, <1>4, <1>5, <1>6, <1>7

\* The fields that are not in the map.
SameHeaders == \A d \in Chunks : SameHeader(flash', flash, d)

\* The name.
LEMMA WriteName ==
  ASSUME FlashTypes, NEW c \in Chunks, NEW v \in Names \cup {NoName}, Write(c, "name", v)
  PROVE  /\ flash' \in [Chunks -> ChunkType] /\ map' = map /\ Kept(c) /\ SameHeaders
         /\ flash'[c].data = flash[c].data /\ flash'[c].size = flash[c].size
         /\ flash'[c].name = v
<1>1. flash' = [flash EXCEPT ![c] = [flash[c] EXCEPT !.name = v]] /\ map' = map
  BY DEF Write, FlashTypes, ChunkType
<1> QED BY <1>1 DEF FlashTypes, ChunkType, Kept, SameHeaders, SameHeader

\* The size.
LEMMA WriteSize ==
  ASSUME FlashTypes, NEW c \in Chunks, NEW v \in Nat, Write(c, "size", v)
  PROVE  /\ flash' \in [Chunks -> ChunkType] /\ map' = map /\ Kept(c) /\ SameHeaders
         /\ flash'[c].data = flash[c].data /\ flash'[c].name = flash[c].name
         /\ flash'[c].size = v
<1>1. flash' = [flash EXCEPT ![c] = [flash[c] EXCEPT !.size = v]] /\ map' = map
  BY DEF Write, FlashTypes, ChunkType
<1> QED BY <1>1 DEF FlashTypes, ChunkType, Kept, SameHeaders, SameHeader

\* The data.
LEMMA WriteData ==
  ASSUME FlashTypes, NEW c \in Chunks, NEW u \in Units,
         Write(c, "data", Append(flash[c].data, u))
  PROVE  /\ flash' \in [Chunks -> ChunkType] /\ map' = map /\ Kept(c) /\ SameHeaders
         /\ Len(flash'[c].data) = Len(flash[c].data) + 1 /\ flash'[c].name = flash[c].name
         /\ flash'[c].size = flash[c].size
<1> DEFINE v == Append(flash[c].data, u)
<1>1. flash' = [flash EXCEPT ![c] = [flash[c] EXCEPT !.data = v]] /\ map' = map
  BY DEF Write, FlashTypes, ChunkType
<1>2. flash[c].data \in Seq(Units)
  BY DEF FlashTypes, ChunkType
<1>3. v \in Seq(Units) /\ Len(v) = Len(flash[c].data) + 1
  BY <1>2
<1> HIDE DEF v
<1> QED BY <1>1, <1>3 DEF FlashTypes, ChunkType, Kept, SameHeaders, SameHeader

\* The fields of chunks that are erased, formatted or torn.
LEMMA BlankChunks ==
  /\ Erased \in ChunkType /\ Torn \in ChunkType /\ Fresh \in ChunkType
  /\ Len(Erased.data) = 0 /\ Len(Torn.data) = 0 /\ Len(Fresh.data) = 0
  /\ Erased.magic = "erased" /\ Torn.magic = "junk" /\ Fresh.magic = "ok"
  /\ Erased.type = "FREE" /\ Torn.type = "FREE" /\ Fresh.type = "FREE"
  /\ Erased.next = None /\ Torn.next = None /\ Fresh.next = None /\ Fresh.size = None
  /\ Header(Erased) \in HeaderType
  /\ Header(Erased).magic = "erased" /\ Header(Erased).type = "FREE"
<1>1. <<>> \in Seq(Units) /\ Len(<<>>) = 0
  OBVIOUS
<1>2. /\ Torn = [magic |-> "junk", next |-> None, type |-> "FREE", size |-> None,
                 name |-> NoHdr, data |-> <<>>]
      /\ Fresh = [magic |-> "ok", next |-> None, type |-> "FREE", size |-> None,
                  name |-> NoHdr, data |-> <<>>]
  BY DEF Torn, Fresh, Erased
<1>3. Erased \in ChunkType /\ Torn \in ChunkType /\ Fresh \in ChunkType
  BY <1>1, <1>2 DEF Erased, ChunkType, Magics, Links, Types
<1>4. Len(Erased.data) = 0 /\ Len(Torn.data) = 0 /\ Len(Fresh.data) = 0
  BY <1>1, <1>2 DEF Erased
<1>5. /\ Erased.magic = "erased" /\ Torn.magic = "junk" /\ Fresh.magic = "ok"
      /\ Erased.type = "FREE" /\ Torn.type = "FREE" /\ Fresh.type = "FREE"
      /\ Erased.next = None /\ Torn.next = None /\ Fresh.next = None /\ Fresh.size = None
  BY <1>2 DEF Erased
<1>6. /\ Header(Erased) \in HeaderType
      /\ Header(Erased).magic = "erased" /\ Header(Erased).type = "FREE"
  BY <1>5 DEF Header, HeaderType
<1> QED BY <1>3, <1>4, <1>5, <1>6

\* A flash some chunks of which were replaced by blank ones.
LEMMA BlankPart ==
  ASSUME FlashTypes, NEW cs, NEW b \in {Erased, Torn},
         flash' = [c \in Chunks |-> IF c \in cs THEN b ELSE flash[c]]
  PROVE  /\ FlashTypes'
         /\ Blank => Blank'
         /\ \A c \in Chunks : flash'[c] = IF c \in cs THEN b ELSE flash[c]
         /\ \A c \in Chunks \ cs : SameHeader(flash', flash, c)
         /\ \A c \in Chunks \cap cs : flash'[c].magic # "ok"
<1>1. \A c \in Chunks : flash'[c] = IF c \in cs THEN b ELSE flash[c]
  OBVIOUS
<1>2. flash' \in [Chunks -> ChunkType] /\ b.magic # "ok" /\ b \in ChunkType
  BY BlankChunks DEF FlashTypes
<1>3. \A c \in Chunks : Len(flash'[c].data) <= Cap(flash'[c])
  BY <1>1, BlankChunks, SizesAssumption DEF FlashTypes, Cap
<1>4. ASSUME Blank PROVE Blank'
  BY <1>1, <1>4, BlankChunks DEF Blank, Has
<1> QED BY <1>1, <1>2, <1>3, <1>4 DEF FlashTypes, SameHeader

\* Erasing one chunk.
LEMMA EraseIs ==
  ASSUME FlashTypes, NEW cs, Erase(cs)
  PROVE  /\ FlashTypes'
         /\ Blank => Blank'
         /\ \A c \in Chunks : flash'[c] = IF c \in cs THEN Erased ELSE flash[c]
         /\ \A c \in Chunks \ cs : SameHeader(flash', flash, c)
         /\ \A c \in Chunks \cap cs : flash'[c].magic # "ok"
BY BlankPart DEF Erase

\* Writing the magic number of one chunk.
LEMMA WriteMagicIs ==
  ASSUME FlashTypes, RamTypes, NEW c \in Chunks, WriteMagic(c)
  PROVE  /\ FlashTypes' /\ map' \in [Chunks -> HeaderType] /\ Kept(c)
         /\ Blank => Blank'
         /\ flash[c].magic # "erased" => flash'[c] = flash[c]
         /\ flash[c].magic = "erased" /\ Blank => flash'[c] = Fresh
         /\ map'[c].magic = "ok" /\ map'[c].type = map[c].type /\ map'[c].next = map[c].next
<1> DEFINE v == IF flash[c].magic = "erased" THEN "ok" ELSE flash[c].magic
<1>1. flash' = [flash EXCEPT ![c] = [flash[c] EXCEPT !.magic = v]]
  BY DEF WriteMagic, FlashTypes, ChunkType
<1>2. map' = [map EXCEPT ![c] = [map[c] EXCEPT !.magic = "ok"]]
  BY DEF WriteMagic, RamTypes, HeaderType
<1>3. v \in Magics
  BY DEF FlashTypes, ChunkType, Magics
<1>4. /\ map' \in [Chunks -> HeaderType]
      /\ map'[c].magic = "ok" /\ map'[c].type = map[c].type /\ map'[c].next = map[c].next
  BY <1>2 DEF RamTypes, HeaderType
<1>5. Kept(c)
  BY <1>1, <1>2 DEF Kept, FlashTypes, RamTypes
<1>6. flash[c].magic # "erased" => flash'[c] = flash[c]
  BY <1>1 DEF FlashTypes, ChunkType
<1>7. flash'[c] = [flash[c] EXCEPT !.magic = v]
  BY <1>1 DEF FlashTypes
<1>8. flash[c].magic = "erased" /\ Blank => flash'[c] = Fresh
  BY <1>7 DEF Blank, Fresh
<1>9. flash' \in [Chunks -> ChunkType] /\ Cap(flash'[c]) = Cap(flash[c])
      /\ flash'[c].data = flash[c].data
  <2> HIDE DEF v
  <2> QED BY <1>1, <1>3 DEF FlashTypes, ChunkType, Cap
<1>10. FlashTypes'
  BY <1>9, <1>5 DEF FlashTypes, Kept
<1>11. ASSUME Blank PROVE Blank'
  BY <1>5, <1>6, <1>8, <1>11, BlankChunks DEF Blank, Kept, Has
<1> QED BY <1>4, <1>5, <1>6, <1>8, <1>10, <1>11

-----------------------------------------------------------------------------
(* Room. *)

\* The search for a free chunk, which goes around the flash, comes to each.
LEMMA Turn ==
  ASSUME NEW l \in Chunks, NEW c \in Chunks
  PROVE  \E k \in Chunks : (l + k) % N = c
<1>1. N \in Nat /\ N > 0 /\ l \in 0 .. N - 1 /\ c \in 0 .. N - 1
  BY SizesAssumption DEF Chunks
<1>2. CASE c >= l
  <2>1. c - l \in Chunks /\ l + (c - l) = c
    BY <1>1, <1>2 DEF Chunks
  <2>2. c % N = c
    BY <1>1
  <2> QED BY <2>1, <2>2
<1>3. CASE c < l
  <2>1. c - l + N \in Chunks /\ l + (c - l + N) = c + N
    BY <1>1, <1>3 DEF Chunks
  <2>2. (c + N) % N = c
    BY <1>1
  <2> QED BY <2>1, <2>2
<1> QED BY <1>1, <1>2, <1>3

\* Where one is free it finds one.
LEMMA FreeFound ==
  ASSUME RamTypes, NEW c \in Chunks, Is(c, "FREE")
  PROVE  FreeAt # {}
BY Turn DEF FreeAt, Ring, RamTypes

\* NextFree is a free chunk if there is one.
LEMMA NextFreeIs ==
  ASSUME RamTypes, FreeAt # {}
  PROVE  NextFree \in Chunks /\ Is(NextFree, "FREE")
<1>1. FreeAt \in SUBSET Chunks
  BY DEF FreeAt
<1>2. \E k \in FreeAt : \A m \in FreeAt : k <= m
  BY <1>1, Least
<1>3. PICK k \in FreeAt : NextFree = Ring(k)
  BY <1>2 DEF NextFree
<1>4. Is(NextFree, "FREE") /\ k \in Chunks
  BY <1>3 DEF FreeAt
<1>5. Ring(k) \in Chunks
  BY <1>4, SizesAssumption DEF Ring, RamTypes, Chunks
<1> QED BY <1>3, <1>4, <1>5

\* While the cache is true there is a free chunk unless the count is zero.
LEMMA CanTakeIs ==
  ASSUME RamTypes, Caches, job.op = "put", vol.free # 0
  PROVE  CanTake
<1>1. Count(flash, "FREE") # 0
  BY DEF Caches
<1>2. PICK c \in Chunks : Has(flash, c, "FREE")
  BY <1>1, CountRange
<1>3. map[c] = Header(flash[c])
  BY DEF Caches
<1>4. Is(c, "FREE")
  BY <1>2, <1>3 DEF Is, Has, Header
<1> QED BY <1>4, FreeFound DEF CanTake

\* A file needs a chunk, and what its first has no room for fits in the others.
LEMMA RequiredIs ==
  ASSUME NEW s \in Sizes, NEW n \in Nat, Required(s) <= n
  PROVE  n >= 1 /\ s - HeadRoom <= BodyRoom * (n - 1)
<1>1. s \in Nat /\ HeadRoom \in Nat \ {0} /\ BodyRoom \in Nat \ {0}
  BY SizesAssumption
<1>2. CASE s <= HeadRoom
  <2>1. n >= 1
    BY <1>2 DEF Required
  <2>2. BodyRoom * (n - 1) >= 0
    BY <2>1, <1>1, Z3
  <2> QED BY <1>1, <1>2, <2>1, <2>2
<1>3. CASE s > HeadRoom
  <2> DEFINE d == s - HeadRoom
             q == (d + BodyRoom - 1) \div BodyRoom
  <2>1. Required(s) = 1 + q /\ d \in Nat
    BY <1>1, <1>3 DEF Required
  <2>2. d + BodyRoom - 1 \in Nat
    BY <1>1, <2>1
  <2>3. q \in Nat /\ d + BodyRoom - 1 < BodyRoom * (q + 1)
    <3>1. ASSUME NEW a \in Nat, NEW b \in Nat \ {0}
          PROVE  a \div b \in Nat /\ a < b * (a \div b + 1)
      BY Z3
    <3> QED BY <3>1, <2>2, <1>1
  <2>4. q <= n - 1 /\ n >= 1
    BY <2>1, <2>3
  <2>5. BodyRoom * (q + 1) = BodyRoom * q + BodyRoom
    <3> HIDE DEF q
    <3> QED BY <1>1, <2>3, Z3
  <2>6. BodyRoom * q <= BodyRoom * (n - 1)
    <3> HIDE DEF q
    <3>1. ASSUME NEW a \in Nat, NEW b \in Nat, NEW e \in Nat, a <= b PROVE e * a <= e * b
      BY <3>1, Z3
    <3> QED BY <3>1, <1>1, <2>3, <2>4
  <2>7. d <= BodyRoom * q
    <3> HIDE DEF q, d
    <3>1. BodyRoom * q \in Nat
      BY <1>1, <2>3, Z3
    <3>2. d + BodyRoom - 1 < BodyRoom * q + BodyRoom
      BY <2>3, <2>5
    <3> QED BY <3>1, <3>2, <2>1, <1>1
  <2> QED
    <3> HIDE DEF q, d
    <3>1. BodyRoom * q \in Nat /\ BodyRoom * (n - 1) \in Nat
      BY <1>1, <2>3, <2>4, Z3
    <3>2. d <= BodyRoom * (n - 1)
      BY <3>1, <2>6, <2>7, <2>1
    <3> QED BY <3>2, <2>4 DEF d
<1> QED BY <1>1, <1>2, <1>3

\* A chunk taken for BodyRoom units or fewer leaves room for the rest.
LEMMA OneLess ==
  ASSUME NEW n \in Nat, n >= 1
  PROVE  BodyRoom * n = BodyRoom * (n - 1) + BodyRoom /\ BodyRoom * (n - 1) \in Nat
<1>1. BodyRoom \in Nat
  BY SizesAssumption
<1> QED BY <1>1, Z3

-----------------------------------------------------------------------------
(* What the invariant says while a given operation runs. *)

\* The record a job is follows from what it is about.
LEMMA JobIs ==
  ASSUME RamTypes
  PROVE  /\ job.op = "idle" <=> job = Idle
         /\ job.op = "off" <=> job = Off
         /\ job.op = "put" <=> job \in PutJobs
         /\ job.op = "remove" <=> job \in RemoveJobs
         /\ job.op = "format" <=> job \in FormatJobs
         /\ job.op = "fix" <=> job \in FixJobs
         /\ job.op = "retest" <=> job \in RetestJobs
BY DEF RamTypes, JobType, Idle, Off, PutJobs, RemoveJobs, FormatJobs, FixJobs, RetestJobs

FlashParts(L) == FlashTypes /\ Blank /\ Live(flash, cut, L)

\* The invariant in the next state, by the job of that state.
LEMMA WhilePut ==
  ASSUME NEW L \in SUBSET Chunks, FlashParts(L)', RamTypes', Caches',
         PutStart', PutFile', PutEnds(L)', job'.op = "put"
  PROVE  Sound(L)'
BY DEF Sound, FlashInv, FlashParts, RemoveInv, FormatInv, RetestInv, FixMap, FixFiles, FixAt

\* A deletion.
LEMMA WhileRemove ==
  ASSUME NEW L \in SUBSET Chunks, FlashParts(L)', RamTypes', Caches', RemoveInv(L)',
         job'.op = "remove"
  PROVE  Sound(L)'
BY DEF Sound, FlashInv, FlashParts, PutStart, PutFile, PutEnds, FormatInv, RetestInv,
       FixMap, FixFiles, FixAt

\* A format.
LEMMA WhileFormat ==
  ASSUME NEW L \in SUBSET Chunks, FlashParts(L)', RamTypes', FormatInv', job'.op = "format"
  PROVE  Sound(L)'
BY DEF Sound, FlashInv, FlashParts, Caches, PutStart, PutFile, PutEnds, RemoveInv, RetestInv,
       FixMap, FixFiles, FixAt

\* A retest.
LEMMA WhileRetest ==
  ASSUME NEW L \in SUBSET Chunks, FlashParts(L)', RamTypes', RetestInv', job'.op = "retest"
  PROVE  Sound(L)'
BY DEF Sound, FlashInv, FlashParts, Caches, PutStart, PutFile, PutEnds, RemoveInv, FormatInv,
       FixMap, FixFiles, FixAt

\* A repair.
LEMMA WhileFix ==
  ASSUME NEW L \in SUBSET Chunks, FlashParts(L)', RamTypes', FixMap(L)', FixFiles(L)', FixAt(L)',
         job'.op = "fix"
  PROVE  Sound(L)'
BY DEF Sound, FlashInv, FlashParts, Caches, PutStart, PutFile, PutEnds, RemoveInv, FormatInv,
       RetestInv

\* No job.
LEMMA WhileIdle ==
  ASSUME NEW L \in SUBSET Chunks, FlashParts(L)', RamTypes', Caches', job' = Idle
  PROVE  Sound(L)'
<1>1. job'.op = "idle"
  BY DEF Idle
<1> QED BY <1>1 DEF Sound, FlashInv, FlashParts, PutStart, PutFile, PutEnds, RemoveInv,
       FormatInv, RetestInv, FixMap, FixFiles, FixAt

\* No power.
LEMMA WhileOff ==
  ASSUME NEW L \in SUBSET Chunks, FlashParts(L)', RamTypes', job' = Off
  PROVE  Sound(L)'
<1>1. job'.op = "off"
  BY DEF Off
<1> QED BY <1>1 DEF Sound, FlashInv, FlashParts, Caches, PutStart, PutFile, PutEnds, RemoveInv,
       FormatInv, RetestInv, FixMap, FixFiles, FixAt

\* The invariant as the steps use it.
LEMMA InvGives ==
  ASSUME NEW L \in SUBSET Chunks, Sound(L)
  PROVE  /\ FlashTypes /\ RamTypes /\ Blank /\ Caches /\ PutStart /\ PutFile
         /\ FormatInv /\ RetestInv /\ FlashParts(L) /\ PutEnds(L) /\ RemoveInv(L)
         /\ FixMap(L) /\ FixFiles(L) /\ FixAt(L)
BY DEF Sound, FlashInv, FlashParts

\* What a step leaves of the live chunks when no file grows.
Left(L) ==
  /\ job'.op = "put" => job'.at = "take"
  /\ \E K \in SUBSET L : Sound(K)' /\ \A c \in K : flash'[c] = flash[c]

\* A mount finds everything out anew.
LEMMA MountedStep ==
  ASSUME NEW L \in SUBSET Chunks, FlashParts(L)', cut' \in BOOLEAN, Mounted
  PROVE  Sound(L)' /\ job'.op = "idle"
<1>1. /\ vol' = [free |-> Count(flash', "FREE"), files |-> Count(flash', "HEAD"), last |-> 0]
      /\ map' = [c \in Chunks |-> Header(flash'[c])] /\ job' = Idle
  BY DEF Mounted
<1>2. Count(flash', "FREE") \in 0..N /\ Count(flash', "HEAD") \in 0..N /\ 0 \in Chunks
  BY CountRange, SizesAssumption DEF Chunks
<1>3. \A c \in Chunks : Header(flash'[c]) \in HeaderType
  BY DEF FlashParts, FlashTypes, ChunkType, Header, HeaderType, Magics, Types, Links
<1>4. RamTypes'
  BY <1>1, <1>2, <1>3 DEF RamTypes, JobType
<1>5. Caches'
  BY <1>1 DEF Caches
<1>6. Sound(L)'
  BY <1>1, <1>4, <1>5, WhileIdle
<1> QED BY <1>1, <1>6 DEF Idle

\* At first the flash is formatted and the power off.
LEMMA InitStep == Init => IInv
<1> SUFFICES ASSUME Init PROVE IInv
  OBVIOUS
<1>1. /\ flash = [c \in Chunks |-> Fresh] /\ map = [c \in Chunks |-> Header(Erased)]
      /\ vol = [free |-> 0, files |-> 0, last |-> 0] /\ job = Off /\ cut = FALSE
  BY DEF Init, Fresh, NoMap, NoVol
<1>2. FlashTypes
  BY <1>1, BlankChunks, SizesAssumption DEF FlashTypes, Cap
<1>3. RamTypes
  <2>1. map \in [Chunks -> HeaderType]
    BY <1>1, BlankChunks
  <2>2. vol \in [free : 0..N, files : 0..N, last : Chunks]
    BY <1>1, SizesAssumption DEF Chunks
  <2> QED BY <1>1, <2>1, <2>2 DEF RamTypes, JobType
<1>4. Blank
  BY <1>1, BlankChunks DEF Blank, Has
<1>5. Live(flash, cut, {})
  BY <1>1, BlankChunks DEF Live, Has
<1>6. job.op = "off"
  BY <1>1 DEF Off
<1>7. Sound({})
  BY <1>2, <1>3, <1>4, <1>5, <1>6 DEF Sound, FlashInv, FlashParts, Caches, PutStart,
     PutFile, PutEnds, RemoveInv, FormatInv, RetestInv, FixMap, FixFiles, FixAt
<1>8. PICK s \in Spots : s = [c \in Chunks |-> [head |-> None, links |-> 0, from |-> 0]]
  BY DEF Spots, Links
<1>9. Filed({}, s)
  BY <1>6 DEF Filed, Files, PutTail
<1> QED BY <1>7, <1>9 DEF IInv

-----------------------------------------------------------------------------
(* Places in files. *)

\* The fields of a place and of a chunk as numbers.
LEMMA PlaceTypes ==
  ASSUME NEW f \in [Chunks -> ChunkType], NEW s \in Spots, NEW c \in Chunks
  PROVE  /\ s[c].links \in Nat /\ s[c].from \in Nat /\ s[c].head \in Links
         /\ Len(f[c].data) \in Nat /\ f[c].size \in Int /\ f[c].next \in Links
<1>1. f[c] \in ChunkType /\ s[c] \in [head : Links, links : Nat, from : Nat]
  BY DEF Spots
<1>2. f[c].data \in Seq(Units)
  BY <1>1 DEF ChunkType
<1>3. f[c].size \in Nat \cup {None} /\ f[c].next \in Links
  BY <1>1 DEF ChunkType
<1> QED BY <1>1, <1>2, <1>3 DEF None

\* The places stay when nothing but names change and files grow at their ends.
LEMMA FilesKept ==
  ASSUME NEW L \in SUBSET Chunks, NEW s \in Spots, NEW f \in [Chunks -> ChunkType],
         NEW g \in [Chunks -> ChunkType], Files(f, L, s),
         \A c \in L : /\ g[c].type = f[c].type /\ g[c].next = f[c].next /\ g[c].size = f[c].size
                      /\ \/ g[c].data = f[c].data
                         \/ f[c].next = None /\ Len(f[c].data) <= Len(g[c].data)
  PROVE  Files(g, L, s)
<1>1. None \notin L
  BY DEF Chunks, None
<1>2. \A c \in L : f[c].next \in L => g[c].data = f[c].data
  BY <1>1
<1>3. ASSUME NEW c \in L, s[c].head # None
      PROVE  /\ s[c].head \in L /\ g[s[c].head].type = "HEAD"
             /\ g[c].next = None => g[s[c].head].size <= s[c].from + Len(g[c].data)
  <2>1. /\ s[c].head \in L /\ f[s[c].head].type = "HEAD"
        /\ f[c].next = None => f[s[c].head].size <= s[c].from + Len(f[c].data)
    BY <1>3 DEF Files
  <2>2. PICK h \in L : h = s[c].head
    BY <2>1
  <2>3. /\ s[c].from \in Nat /\ Len(f[c].data) \in Nat /\ Len(g[c].data) \in Nat
        /\ f[h].size \in Int /\ g[h].size = f[h].size /\ g[h].type = f[h].type
    BY PlaceTypes
  <2>4. Len(f[c].data) <= Len(g[c].data) /\ g[c].next = f[c].next
    BY <2>3
  <2> QED BY <2>1, <2>2, <2>3, <2>4
<1> QED BY <1>2, <1>3 DEF Files

\* Of the chunks that are left, those that have lost their head have none.
LEMMA FilesLeft ==
  ASSUME NEW L \in SUBSET Chunks, NEW s \in Spots, NEW f \in [Chunks -> ChunkType],
         NEW g, Files(f, L, s), NEW K \in SUBSET L, \A c \in K : g[c] = f[c]
  PROVE  \E t \in Spots : Files(g, K, t)
<1> DEFINE H(c) == IF s[c].head \in K THEN s[c].head ELSE None
           t == [c \in Chunks |-> [head |-> H(c), links |-> s[c].links, from |-> s[c].from]]
<1>1. t \in Spots
  BY DEF Spots, Links
<1>2. \A c \in K : c \in L /\ c \in Chunks /\ g[c] = f[c]
  OBVIOUS
<1>3. \A c \in Chunks : t[c].head = H(c) /\ t[c].links = s[c].links /\ t[c].from = s[c].from
  OBVIOUS
<1>4. \A c \in K : g[c].type = "HEAD" => t[c].head = c /\ t[c].links = 0 /\ t[c].from = 0
  <2> HIDE DEF t
  <2> QED BY <1>2, <1>3 DEF Files
<1>5. ASSUME NEW c \in K, g[c].next \in K
      PROVE  /\ t[g[c].next].head = t[c].head
             /\ t[g[c].next].links = t[c].links + 1
             /\ t[g[c].next].from = t[c].from + Len(g[c].data)
  <2> HIDE DEF t
  <2>1. PICK n \in K : n = g[c].next
    BY <1>5
  <2>2. /\ s[n].head = s[c].head /\ s[n].links = s[c].links + 1
        /\ s[n].from = s[c].from + Len(f[c].data)
    BY <1>2, <2>1 DEF Files
  <2> QED BY <1>2, <1>3, <2>1, <2>2
<1>6. ASSUME NEW c \in K, t[c].head # None
      PROVE  /\ t[c].head \in K /\ g[t[c].head].type = "HEAD"
             /\ g[c].next = None => g[t[c].head].size <= t[c].from + Len(g[c].data)
  <2> HIDE DEF t
  <2>1. PICK h \in K : h = s[c].head /\ t[c].head = h
    BY <1>2, <1>3, <1>6
  <2>2. h # None
    BY DEF Chunks, None
  <2> QED BY <1>2, <1>3, <2>1, <2>2 DEF Files
<1>7. Files(g, K, t)
  <2> HIDE DEF t
  <2> QED BY <1>4, <1>5, <1>6 DEF Files
<1> QED BY <1>1, <1>7

\* A step that makes no file longer keeps the places of the chunks it leaves.
LEMMA LeftIs ==
  ASSUME NEW L \in SUBSET Chunks, NEW s \in Spots, Sound(L), Files(flash, L, s), Left(L)
  PROVE  IInv'
<1>1. PICK K \in SUBSET L : Sound(K)' /\ \A c \in K : flash'[c] = flash[c]
  BY DEF Left
<1>2. flash \in [Chunks -> ChunkType]
  BY DEF Sound, FlashTypes
<1>3. PICK t \in Spots : Files(flash', K, t)
  BY <1>1, <1>2, FilesLeft
<1>4. PutTail(K, t)'
  BY DEF Left, PutTail
<1> QED BY <1>1, <1>3, <1>4 DEF IInv, Filed

\* A live head h is added to the live chunks, and a live body b behind the chunk p.
HeadAdded(f, g, L, h) ==
  /\ h \notin L /\ \A c \in L : g[c] = f[c] /\ f[c].next \in L \cup {None}
  /\ g[h].type = "HEAD" /\ g[h].next = None /\ g[h].size = None /\ Len(g[h].data) = 0
BodyAdded(f, g, L, p, b) ==
  /\ p \in L /\ b \notin L /\ \A c \in L : f[c].next \in L \cup {None}
  /\ f[p].next = None /\ f[b].type = "BODY" /\ f[b].next = None
  /\ \A c \in L \cup {b} : /\ g[c].type = f[c].type /\ g[c].size = f[c].size
                           /\ g[c].data = f[c].data
                           /\ g[c].next = IF c = p THEN b ELSE f[c].next

\* No chunk is of the file of h yet; b has a place behind p, the others keep theirs.
Elsewhere(s, L, h) == \A c \in L : s[c].head # h
SpotAdded(t, s, f, L, p, b) ==
  /\ t[b].head = s[p].head /\ t[b].from = s[p].from + Len(f[p].data)
  /\ \A c \in L : t[c] = s[c]

\* A head that is taken starts a file, ...
LEMMA FilesTake ==
  ASSUME NEW L \in SUBSET Chunks, NEW s \in Spots, NEW f \in [Chunks -> ChunkType],
         NEW g \in [Chunks -> ChunkType], Files(f, L, s), NEW h \in Chunks, HeadAdded(f, g, L, h)
  PROVE  \E t \in Spots : /\ Files(g, L \cup {h}, t) /\ t[h].head = h /\ t[h].from = 0
                          /\ Elsewhere(t, L, h)
<1> DEFINE t == [c \in Chunks |-> IF c = h THEN [head |-> h, links |-> 0, from |-> 0] ELSE s[c]]
<1> USE DEF HeadAdded, Elsewhere
<1>1. t \in Spots
  BY DEF Spots, Links
<1>2. t[h].head = h /\ t[h].links = 0 /\ t[h].from = 0 /\ \A c \in L : t[c] = s[c]
  OBVIOUS
<1>3. None \notin L \cup {h} /\ \A c \in L : f[c].next # h
  BY DEF Chunks, None
<1> HIDE DEF t
<1>4. \A c \in L \cup {h} : g[c].type = "HEAD" => t[c].head = c /\ t[c].links = 0 /\ t[c].from = 0
  BY <1>2 DEF Files
<1>5. ASSUME NEW c \in L \cup {h}, g[c].next \in L \cup {h}
      PROVE  /\ t[g[c].next].head = t[c].head
             /\ t[g[c].next].links = t[c].links + 1
             /\ t[g[c].next].from = t[c].from + Len(g[c].data)
  <2>1. c \in L /\ g[c] = f[c] /\ f[c].next \in L
    BY <1>3, <1>5
  <2> QED BY <1>2, <2>1 DEF Files
<1>6. ASSUME NEW c \in L \cup {h}, t[c].head # None
      PROVE  /\ t[c].head \in L \cup {h} /\ g[t[c].head].type = "HEAD"
             /\ g[c].next = None => g[t[c].head].size <= t[c].from + Len(g[c].data)
  <2>1. CASE c = h
    BY <1>2, <2>1 DEF None
  <2>2. CASE c \in L
    BY <1>2, <1>6, <2>2 DEF Files
  <2> QED BY <2>1, <2>2
<1>7. Files(g, L \cup {h}, t)
  BY <1>4, <1>5, <1>6 DEF Files
<1>8. \A c \in L : t[c].head # h
  BY <1>2, <1>3 DEF Files
<1> QED BY <1>1, <1>2, <1>7, <1>8

\* ... a body that is linked to comes next in it, ...
LEMMA FilesLink ==
  ASSUME NEW L \in SUBSET Chunks, NEW s \in Spots, NEW f \in [Chunks -> ChunkType],
         NEW g \in [Chunks -> ChunkType], NEW p \in Chunks, NEW b \in Chunks,
         Files(f, L, s), BodyAdded(f, g, L, p, b), s[p].head # None
  PROVE  \E t \in Spots : Files(g, L \cup {b}, t) /\ SpotAdded(t, s, f, L, p, b)
<1> DEFINE x == [head |-> s[p].head, links |-> s[p].links + 1,
                 from |-> s[p].from + Len(f[p].data)]
           t == [c \in Chunks |-> IF c = b THEN x ELSE s[c]]
<1> USE DEF BodyAdded, SpotAdded
<1>0. /\ s[p].links \in Nat /\ s[p].from \in Nat /\ s[p].head \in Links
      /\ Len(f[p].data) \in Nat /\ Len(f[b].data) \in Nat
  BY PlaceTypes
<1>1. t \in Spots
  <2>1. x \in [head : Links, links : Nat, from : Nat]
    BY <1>0
  <2> HIDE DEF x
  <2> QED BY <2>1 DEF Spots
<1>2. /\ t[b].head = s[p].head /\ t[b].links = s[p].links + 1
      /\ t[b].from = s[p].from + Len(f[p].data) /\ \A c \in L : t[c] = s[c]
  OBVIOUS
<1>3. None \notin L \cup {b} /\ (\A c \in L : f[c].next # b) /\ p # b
  BY DEF Chunks, None
<1> HIDE DEF t, x
<1>4. \A c \in L \cup {b} : g[c].type = "HEAD" => t[c].head = c /\ t[c].links = 0 /\ t[c].from = 0
  BY <1>2 DEF Files
<1>5. ASSUME NEW c \in L \cup {b}, g[c].next \in L \cup {b}
      PROVE  /\ t[g[c].next].head = t[c].head
             /\ t[g[c].next].links = t[c].links + 1
             /\ t[g[c].next].from = t[c].from + Len(g[c].data)
  <2>1. CASE c = p
    BY <1>2, <2>1
  <2>2. CASE c # p
    <3>1. c \in L /\ f[c].next \in L /\ g[c].next = f[c].next /\ g[c].data = f[c].data
      BY <1>3, <1>5, <2>2
    <3> QED BY <1>2, <3>1 DEF Files
  <2> QED BY <2>1, <2>2
<1>6. ASSUME NEW c \in L \cup {b}, t[c].head # None
      PROVE  /\ t[c].head \in L \cup {b} /\ g[t[c].head].type = "HEAD"
             /\ g[c].next = None => g[t[c].head].size <= t[c].from + Len(g[c].data)
  <2>1. CASE c = b
    <3>1. PICK h \in L : h = s[p].head
      BY DEF Files
    <3>2. f[h].type = "HEAD" /\ f[h].size <= s[p].from + Len(f[p].data)
      BY <3>1 DEF Files
    <3>3. g[h].type = "HEAD" /\ g[h].size = f[h].size /\ f[h].size \in Int
      BY <3>2, PlaceTypes
    <3>4. f[h].size <= t[b].from + Len(f[b].data)
      BY <1>0, <1>2, <3>2, <3>3
    <3> QED BY <1>2, <2>1, <3>1, <3>3, <3>4
  <2>2. CASE c \in L
    <3>1. PICK h \in L : h = s[c].head
      BY <1>2, <1>6, <2>2 DEF Files
    <3>2. f[h].type = "HEAD" /\ g[h].type = "HEAD" /\ g[h].size = f[h].size
      BY <1>2, <1>6, <2>2, <3>1 DEF Files
    <3>3. g[c].next = None => f[c].next = None /\ g[c].data = f[c].data
      BY <1>3, <2>2
    <3> QED BY <1>2, <1>6, <2>2, <3>1, <3>2, <3>3 DEF Files
  <2> QED BY <2>1, <2>2
<1>7. Files(g, L \cup {b}, t)
  BY <1>4, <1>5, <1>6 DEF Files
<1> QED BY <1>1, <1>2, <1>7

\* ... and the size is written when all ends of the file have been reached.
LEMMA FilesClose ==
  ASSUME NEW L \in SUBSET Chunks, NEW s \in Spots, NEW f \in [Chunks -> ChunkType],
         NEW g \in [Chunks -> ChunkType], Files(f, L, s), NEW h,
         \A c \in L : /\ g[c].type = f[c].type /\ g[c].next = f[c].next /\ g[c].data = f[c].data
                      /\ c # h => g[c].size = f[c].size,
         \A c \in L : s[c].head = h /\ f[c].next = None => g[h].size <= s[c].from + Len(f[c].data)
  PROVE  Files(g, L, s)
<1>1. ASSUME NEW c \in L, s[c].head # None
      PROVE  /\ s[c].head \in L /\ g[s[c].head].type = "HEAD"
             /\ g[c].next = None => g[s[c].head].size <= s[c].from + Len(g[c].data)
  <2>1. s[c].head \in L /\ f[s[c].head].type = "HEAD"
    BY <1>1 DEF Files
  <2>2. CASE s[c].head = h
    BY <2>1, <2>2
  <2>3. CASE s[c].head # h
    BY <1>1, <2>1, <2>3 DEF Files
  <2> QED BY <2>2, <2>3
<1> QED BY <1>1 DEF Files

-----------------------------------------------------------------------------
(* Copying a file. *)

\* Mounting reads the headers and counts them.
LEMMA PowerOnStep ==
  ASSUME NEW L \in SUBSET Chunks, Sound(L), PowerOn
  PROVE  Left(L)
<1>1. FlashParts(L)
  BY InvGives
<1>2. FlashParts(L)' /\ cut' \in BOOLEAN /\ Mounted
  BY <1>1, InvGives DEF PowerOn, FlashParts, FlashTypes, Blank, RamTypes
<1>3. Sound(L)'
  BY <1>2, MountedStep
<1> QED BY <1>3, <1>2, MountedStep DEF PowerOn, Left

\* A copy begins where the flash has room for it.
LEMMA CopyBeginStep ==
  ASSUME WorkAfterCut = FALSE, NEW n \in Names, NEW s \in Sizes, NEW L \in SUBSET Chunks,
         Sound(L), CopyBegin(n, s)
  PROVE  Left(L)
<1>1. FlashParts(L)
  BY InvGives
<1>2. /\ job = Idle /\ ~cut /\ Required(s) <= vol.free
      /\ job' = [op |-> "put", at |-> "take", name |-> n, size |-> s, done |-> 0,
                 head |-> 0, cur |-> 0, prev |-> 0, room |-> 0]
      /\ UNCHANGED <<flash, map, vol, cut>>
  BY DEF CopyBegin, Ready
<1>3. job.op = "idle" /\ job'.op = "put" /\ job'.at = "take" /\ job'.size = s
  BY <1>2 DEF Idle
<1>4. job' \in PutJobs
  BY <1>2, SizesAssumption DEF PutJobs, Chunks
<1>5. RamTypes'
  BY <1>2, <1>4, InvGives DEF RamTypes, JobType
<1>6. Caches' /\ PutStart' /\ PutFile' /\ PutEnds(L)'
  BY <1>2, <1>3, InvGives DEF Caches, PutStart, PutFile, PutEnds
<1>7. FlashParts(L)'
  BY <1>1, <1>2 DEF FlashParts, FlashTypes, Blank
<1>8. Sound(L)'
  BY <1>3, <1>5, <1>6, <1>7, WhilePut
<1> QED BY <1>8, <1>2, <1>3 DEF Left

\* A free chunk is taken.
LEMMA TakeIs ==
  ASSUME FlashTypes, RamTypes, Blank, Caches, job.op = "put", vol.free >= 1,
         NEW h \in Chunks, Is(h, "FREE"), NEW t \in {"HEAD", "BODY"}, Take(h, t)
  PROVE  /\ FlashTypes' /\ Blank' /\ map' \in [Chunks -> HeaderType]
         /\ Has(flash, h, "FREE") /\ Has(flash', h, t)
         /\ flash'[h].next = None /\ flash'[h].size = None /\ Len(flash'[h].data) = 0
         /\ \A d \in Chunks \ {h} : flash'[d] = flash[d]
         /\ \A d \in Chunks \ {h} : SameHeader(flash', flash, d)
         /\ \A d \in Chunks : map'[d] = Header(flash'[d])
         /\ vol' \in [free : 0..N, files : 0..N, last : Chunks]
         /\ vol'.free = vol.free - 1 /\ vol'.files = vol.files /\ vol'.last = h
         /\ vol'.free = Count(flash', "FREE")
         /\ Count(flash', "HEAD") = Count(flash, "HEAD") + (IF t = "HEAD" THEN 1 ELSE 0)
<1>1. Write(h, "type", t) /\ vol' = [vol EXCEPT !.free = @ - 1, !.last = h]
  BY DEF Take
<1>2. /\ \A c \in Chunks : map[c] = Header(flash[c])
      /\ vol.free = Count(flash, "FREE")
  BY DEF Caches
<1>3. Mapped(h)
  BY <1>2 DEF Mapped
<1>4. Has(flash, h, "FREE")
  BY <1>3 DEF Is, Has, Header, Mapped
<1>5. flash[h] = Fresh
  BY <1>4 DEF Blank
<1>6. t \in Types
  BY DEF Types
<1>7. /\ flash' \in [Chunks -> ChunkType] /\ map' \in [Chunks -> HeaderType] /\ Kept(h)
      /\ flash'[h].magic = flash[h].magic /\ flash'[h].type = t
      /\ flash'[h].next = flash[h].next /\ flash'[h].data = flash[h].data
      /\ flash'[h].size = flash[h].size
      /\ Mapped(h)'
  BY <1>1, <1>3, <1>6, WriteType
<1>8. /\ flash'[h].magic = "ok" /\ flash'[h].next = None /\ flash'[h].size = None
      /\ Len(flash'[h].data) = 0
  BY <1>5, <1>7, BlankChunks
<1>9. \A d \in Chunks \ {h} : flash'[d] = flash[d] /\ map'[d] = map[d]
  BY <1>7 DEF Kept
<1>10. FlashTypes'
  BY <1>7, <1>8, <1>9, SizesAssumption DEF FlashTypes, Cap
<1>11. Blank'
  BY <1>7, <1>8, <1>9 DEF Blank, Has
<1>12. vol.free \in 1..N /\ vol \in [free : 0..N, files : 0..N, last : Chunks]
  BY DEF RamTypes
<1>13. /\ vol' \in [free : 0..N, files : 0..N, last : Chunks]
       /\ vol'.free = vol.free - 1 /\ vol'.files = vol.files /\ vol'.last = h
  <2>1. vol' = [vol EXCEPT !.free = vol.free - 1, !.last = h] /\ vol.free - 1 \in 0..N
    BY <1>1, <1>12, SizesAssumption
  <2> DEFINE n == vol.free - 1
  <2> HIDE DEF n
  <2>2. vol' = [vol EXCEPT !.free = n, !.last = h] /\ n \in 0..N
    BY <2>1 DEF n
  <2>3. /\ vol' \in [free : 0..N, files : 0..N, last : Chunks]
        /\ vol'.free = n /\ vol'.files = vol.files /\ vol'.last = h
    BY <2>2, <1>12
  <2> QED BY <2>3 DEF n
<1>14. Has(flash', h, t) /\ ~Has(flash', h, "FREE") /\ ~Has(flash, h, t)
  BY <1>4, <1>7, <1>8 DEF Has
<1>15. \A u : \A d \in Chunks : d # h => (Has(flash', d, u) <=> Has(flash, d, u))
  BY <1>9 DEF Has
<1>16. Count(flash, "FREE") = Count(flash', "FREE") + 1
  BY <1>4, <1>14, <1>15, CountMore
<1>17. Count(flash', "FREE") = vol.free - 1
  BY <1>2, <1>12, <1>16, CountRange
<1>18. Count(flash', "HEAD") = Count(flash, "HEAD") + (IF t = "HEAD" THEN 1 ELSE 0)
  <2>1. CASE t = "HEAD"
    <3>1. Count(flash', "HEAD") = Count(flash, "HEAD") + 1
      BY <2>1, <1>14, <1>15, CountMore
    <3> QED BY <2>1, <3>1
  <2>2. CASE t = "BODY"
    <3>1. \A d \in Chunks : Has(flash', d, "HEAD") <=> Has(flash, d, "HEAD")
      BY <2>2, <1>4, <1>7, <1>15 DEF Has
    <3>2. Count(flash', "HEAD") = Count(flash, "HEAD")
      BY <3>1, CountSame
    <3> QED BY <2>2, <3>2, CountRange
  <2> QED BY <2>1, <2>2
<1>19. \A d \in Chunks : map'[d] = Header(flash'[d])
  BY <1>2, <1>7, <1>9 DEF Mapped
<1>20. \A d \in Chunks \ {h} : SameHeader(flash', flash, d)
  BY <1>9 DEF SameHeader
<1> QED BY <1>4, <1>7, <1>8, <1>9, <1>10, <1>11, <1>13, <1>14, <1>17, <1>18, <1>19, <1>20

\* The first chunk of a copy.
LEMMA PutTakeStep ==
  ASSUME NEW L \in SUBSET Chunks, NEW s \in Spots, Sound(L), Filed(L, s), PutTake
  PROVE  IInv'
<1>1. FlashParts(L)
  BY InvGives
<1>2. /\ FlashTypes /\ RamTypes /\ Blank /\ Caches /\ ~cut /\ cut' = cut /\ job \in PutJobs
      /\ job.op = "put" /\ job.at = "take" /\ job.done = 0
      /\ Required(job.size) <= vol.free /\ vol.files = Count(flash, "HEAD")
  BY InvGives, JobIs DEF PutTake, At, PutStart
<1>3. vol.free \in Nat /\ vol.free >= 1 /\ job.size - HeadRoom <= BodyRoom * (vol.free - 1)
  BY <1>2, RequiredIs DEF PutJobs, RamTypes
<1>4. CanTake
  BY <1>2, <1>3, CanTakeIs
<1>5. PICK h \in Chunks : h = NextFree /\ Is(h, "FREE")
  BY <1>2, <1>4, NextFreeIs DEF CanTake
<1>6. /\ Take(h, "HEAD")
      /\ job' = [job EXCEPT !.at = "hdr", !.head = h, !.cur = h, !.prev = h, !.room = HeadRoom]
  BY <1>4, <1>5 DEF PutTake
<1>7. /\ FlashTypes' /\ Blank' /\ map' \in [Chunks -> HeaderType]
      /\ Has(flash, h, "FREE") /\ Has(flash', h, "HEAD")
      /\ flash'[h].next = None /\ flash'[h].size = None /\ Len(flash'[h].data) = 0
      /\ \A d \in Chunks \ {h} : flash'[d] = flash[d]
      /\ \A d \in Chunks \ {h} : SameHeader(flash', flash, d)
      /\ \A d \in Chunks : map'[d] = Header(flash'[d])
      /\ vol' \in [free : 0..N, files : 0..N, last : Chunks]
      /\ vol'.free = vol.free - 1 /\ vol'.files = vol.files
      /\ vol'.free = Count(flash', "FREE")
      /\ Count(flash', "HEAD") = Count(flash, "HEAD") + 1
  BY <1>2, <1>3, <1>5, <1>6, TakeIs
<1>8. /\ job' \in PutJobs /\ job'.op = "put" /\ job'.at = "hdr" /\ job'.head = h
      /\ job'.cur = h /\ job'.prev = h /\ job'.room = HeadRoom /\ job'.size = job.size
      /\ job'.done = 0
  BY <1>2, <1>5, <1>6, SizesAssumption DEF PutJobs
<1>9. Live(flash, FALSE, L) /\ cut' = FALSE
  BY <1>1, <1>2 DEF FlashParts, RamTypes
<1>10. Live(flash', cut', L \cup {h})
  <2>1. flash \in [Chunks -> ChunkType]
    BY <1>2 DEF FlashTypes
  <2>2. Live(flash', FALSE, L \cup {h})
    BY <2>1, <1>7, <1>9, LiveTake
  <2> QED BY <2>2, <1>9
<1>11. FlashParts(L \cup {h})'
  BY <1>7, <1>10 DEF FlashParts
<1>12. RamTypes'
  BY <1>7, <1>8, <1>9 DEF RamTypes, JobType
<1>13. Caches'
  BY <1>7, <1>8 DEF Caches
<1>14. PutStart' /\ PutEnds(L \cup {h})'
  BY <1>8, <1>9, SizesAssumption DEF PutStart, PutEnds
<1>15. job.size \in Nat /\ HeadRoom \in Nat
  BY <1>2, SizesAssumption DEF PutJobs
<1>16. job'.size - job'.done - job'.room <= BodyRoom * vol'.free
  <2>1. job'.size - job'.done - job'.room = job.size - HeadRoom
    BY <1>8, <1>15
  <2> QED BY <2>1, <1>3, <1>7
<1>17. job'.done <= job'.size
  BY <1>8, <1>15
<1>18. Len(flash'[h].data) + job'.room = Cap(flash'[h])
  BY <1>7, <1>8, SizesAssumption DEF Cap, Has
<1>19. vol'.files + 1 = Count(flash', "HEAD")
  BY <1>2, <1>7
<1>20. PutFile'
  BY <1>7, <1>8, <1>16, <1>17, <1>18, <1>19 DEF PutFile
<1>21. Sound(L \cup {h})'
  BY <1>8, <1>11, <1>12, <1>13, <1>14, <1>20, WhilePut
<1>22. PICK t \in Spots : /\ Files(flash', L \cup {h}, t) /\ t[h].head = h /\ t[h].from = 0
                          /\ \A c \in L : t[c].head # h
  <2>1. h \in Chunks \ L /\ \A c \in L : flash[c].next \in L \cup {None}
    BY <1>7, <1>9 DEF Live, Has
  <2>2. \A c \in L : flash'[c] = flash[c]
    BY <1>7, <2>1
  <2>3. flash \in [Chunks -> ChunkType] /\ Files(flash, L, s) /\ flash'[h].type = "HEAD"
    BY <1>2, <1>7 DEF Filed, FlashTypes, Has
  <2>4. flash'[h].next = None /\ flash'[h].size = None /\ Len(flash'[h].data) = 0
    BY <1>7
  <2>5. PICK f \in [Chunks -> ChunkType], g \in [Chunks -> ChunkType] : f = flash /\ g = flash'
    BY <1>7, <2>3 DEF FlashTypes
  <2>6. Files(f, L, s) /\ HeadAdded(f, g, L, h)
    BY <2>1, <2>3, <2>2, <2>4, <2>5 DEF HeadAdded
  <2>7. \E t \in Spots : /\ Files(g, L \cup {h}, t) /\ t[h].head = h /\ t[h].from = 0
                         /\ Elsewhere(t, L, h)
    BY <2>6, FilesTake
  <2> QED BY <2>5, <2>7 DEF Elsewhere
<1>23. PutTail(L \cup {h}, t)'
  BY <1>7, <1>8, <1>22 DEF PutTail, LastLinked
<1> QED BY <1>21, <1>22, <1>23 DEF IInv, Filed

\* The name, the size and the data of a chunk may change under the copy: what
\* its invariant says of the headers stays.
LEMMA SameParts ==
  ASSUME NEW L \in SUBSET Chunks, FlashParts(L), RamTypes, Caches, NEW c \in Chunks,
         flash' \in [Chunks -> ChunkType], map' = map, Kept(c), SameHeaders,
         Len(flash'[c].data) <= Cap(flash[c]), ~Has(flash, c, "FREE"), flash[c].magic = "ok",
         cut' = cut
  PROVE  /\ FlashParts(L)' /\ \A d \in Chunks : map[d] = Header(flash[d]) => Mapped(d)'
         /\ \A t : Count(flash', t) = Count(flash, t)
         /\ \A t : \A d \in Chunks : Has(flash', d, t) <=> Has(flash, d, t)
<1>1. FlashTypes /\ Blank /\ Live(flash, cut, L)
  BY DEF FlashParts
<1>2. /\ \A d \in Chunks : SameHeader(flash', flash, d)
      /\ \A d \in Chunks \ {c} : flash'[d] = flash[d]
  BY DEF SameHeaders, Kept
<1>3. \A t : \A d \in Chunks : Has(flash', d, t) <=> Has(flash, d, t)
  BY <1>2 DEF SameHeader, Has
<1>4. \A t : Count(flash', t) = Count(flash, t)
  BY <1>3, CountSame
<1>5. Live(flash', cut', L)
  <2>1. flash \in [Chunks -> ChunkType]
    BY <1>1 DEF FlashTypes
  <2>2. Live(flash', cut, L)
    BY <1>1, <1>2, <2>1, LiveSame
  <2> QED BY <2>2
<1>6. \A d \in Chunks : Len(flash'[d].data) <= Cap(flash'[d])
  BY <1>1, <1>2 DEF FlashTypes, Cap, SameHeader
<1>7. Blank'
  <2>1. flash'[c].magic = "ok" /\ ~Has(flash', c, "FREE")
    BY <1>2, <1>3 DEF SameHeader
  <2> QED BY <1>1, <1>2, <2>1 DEF Blank, Has
<1>8. \A d \in Chunks : map[d] = Header(flash[d]) => Mapped(d)'
  BY <1>2 DEF SameHeader, Header, Mapped
<1>9. FlashTypes'
  BY <1>6 DEF FlashTypes
<1> QED BY <1>3, <1>4, <1>5, <1>7, <1>8, <1>9 DEF FlashParts

\* The header and the name of the head are written.
LEMMA PutNames ==
  ASSUME NEW L \in SUBSET Chunks, NEW s \in Spots, Sound(L), Filed(L, s),
         NEW v \in Names \cup {NoName}, NEW b \in {"name", "data"},
         job.op = "put", job.at \in {"hdr", "name"}, b = "data" => v = job.name,
         Write(job.head, "name", v), job' = [job EXCEPT !.at = b], UNCHANGED <<vol, cut>>
  PROVE  IInv'
<1>1. FlashParts(L) /\ PutEnds(L)
  BY InvGives
<1>2. /\ FlashTypes /\ RamTypes /\ Blank /\ Caches /\ PutStart /\ PutFile /\ job \in PutJobs
      /\ vol' = vol /\ cut' = cut
  BY InvGives, JobIs
<1>3. PICK h \in Chunks : h = job.head
  BY <1>2 DEF PutJobs
<1>4. Write(h, "name", v)
  BY <1>3
<1>5. /\ flash' \in [Chunks -> ChunkType] /\ map' = map /\ Kept(h) /\ SameHeaders
      /\ flash'[h].data = flash[h].data /\ flash'[h].size = flash[h].size
      /\ flash'[h].name = v
  BY <1>2, <1>4, WriteName
<1>6. Has(flash, h, "HEAD")
  BY <1>2, <1>3 DEF PutFile
<1>7. /\ FlashParts(L)' /\ \A d \in Chunks : map[d] = Header(flash[d]) => Mapped(d)'
      /\ \A t : Count(flash', t) = Count(flash, t)
      /\ \A t : \A d \in Chunks : Has(flash', d, t) <=> Has(flash, d, t)
  <2>1. ~Has(flash, h, "FREE") /\ flash[h].magic = "ok"
    BY <1>6 DEF Has
  <2>2. Len(flash'[h].data) <= Cap(flash[h])
    BY <1>2, <1>5 DEF FlashTypes
  <2> QED BY <1>1, <1>2, <1>5, <2>1, <2>2, SameParts
<1>8. /\ job' \in PutJobs /\ job'.op = "put" /\ job'.at = b /\ job'.head = job.head
      /\ job'.cur = job.cur /\ job'.prev = job.prev /\ job'.room = job.room
      /\ job'.size = job.size /\ job'.done = job.done /\ job'.name = job.name
  BY <1>2 DEF PutJobs
<1>9. RamTypes'
  BY <1>2, <1>5, <1>8 DEF RamTypes, JobType
<1>10. Caches'
  BY <1>2, <1>5, <1>7, <1>8 DEF Caches, Mapped
<1>11. PutStart' /\ PutEnds(L)'
  BY <1>1, <1>2, <1>8 DEF PutStart, PutEnds
<1>12. PutFile'
  <2>1. flash'[job.cur].data = flash[job.cur].data
    BY <1>2, <1>3, <1>5 DEF Kept, PutJobs
  <2>2. SameHeader(flash', flash, job.cur)
    BY <1>2, <1>5 DEF SameHeaders, PutJobs
  <2>3. b = "data" => flash'[job.head].name = job.name
    BY <1>3, <1>5
  <2> QED BY <1>2, <1>7, <1>8, <2>1, <2>2, <2>3 DEF PutFile, SameHeader, Has, Cap, PutJobs
<1>13. Sound(L)'
  BY <1>7, <1>8, <1>9, <1>10, <1>11, <1>12, WhilePut
<1>14. \A c \in Chunks : /\ flash'[c].type = flash[c].type /\ flash'[c].next = flash[c].next
                         /\ flash'[c].data = flash[c].data /\ flash'[c].size = flash[c].size
  BY <1>5 DEF Kept, SameHeaders, SameHeader
<1>15. Files(flash', L, s)
  <2>1. flash \in [Chunks -> ChunkType] /\ Files(flash, L, s)
    BY <1>2 DEF FlashTypes, Filed
  <2> QED BY <1>5, <1>14, <2>1, FilesKept
<1>16. PutTail(L, s)'
  <2>1. job.cur \in Chunks
    BY <1>2 DEF PutJobs
  <2>2. /\ job.cur \in L /\ s[job.cur].head = job.head
        /\ job.done <= s[job.cur].from + Len(flash[job.cur].data)
        /\ \A c \in L : s[c].head = job.head /\ flash[c].next = None => c = job.cur
    BY DEF Filed, PutTail, LastLinked
  <2> QED BY <1>8, <1>14, <2>1, <2>2 DEF PutTail, LastLinked
<1> QED BY <1>13, <1>15, <1>16 DEF IInv, Filed

\* Its header.
LEMMA PutHdrStep ==
  ASSUME NEW L \in SUBSET Chunks, NEW s \in Spots, Sound(L), Filed(L, s), PutHdr
  PROVE  IInv'
BY PutNames DEF PutHdr, At

\* Its name.
LEMMA PutNameStep ==
  ASSUME NEW L \in SUBSET Chunks, NEW s \in Spots, Sound(L), Filed(L, s), PutName
  PROVE  IInv'
<1>1. job.op = "put" /\ job.at = "name" /\ job \in PutJobs
  BY InvGives, JobIs DEF PutName, At
<1>2. PICK v \in Names : v = job.name
  BY <1>1 DEF PutJobs
<1>3. Write(job.head, "name", v) /\ job' = [job EXCEPT !.at = "data"] /\ UNCHANGED <<vol, cut>>
  BY <1>2 DEF PutName
<1> QED BY <1>1, <1>2, <1>3, PutNames

\* A unit of data.
LEMMA PutDataStep ==
  ASSUME NEW L \in SUBSET Chunks, NEW s \in Spots, Sound(L), Filed(L, s), PutData
  PROVE  IInv'
<1>1. FlashParts(L) /\ PutEnds(L)
  BY InvGives
<1>2. /\ FlashTypes /\ RamTypes /\ Blank /\ Caches /\ PutStart /\ PutFile /\ job \in PutJobs
      /\ job.op = "put" /\ job.at = "data" /\ job.done < job.size /\ job.room > 0
      /\ vol' = vol /\ cut' = cut
  BY InvGives, JobIs DEF PutData, At
<1>3. PICK c \in Chunks : c = job.cur
  BY <1>2 DEF PutJobs
<1>4. PICK u \in Units : u = <<job.name, job.done + 1>>
  <2>1. job.name \in Names /\ job.done + 1 \in Nat \ {0}
    BY <1>2 DEF PutJobs
  <2> QED BY <2>1 DEF Units
<1>5. Write(c, "data", Append(flash[c].data, u))
  BY <1>3, <1>4 DEF PutData
<1>6. /\ flash' \in [Chunks -> ChunkType] /\ map' = map /\ Kept(c) /\ SameHeaders
      /\ Len(flash'[c].data) = Len(flash[c].data) + 1 /\ flash'[c].name = flash[c].name
      /\ flash'[c].size = flash[c].size
  BY <1>2, <1>5, WriteData
<1>7. /\ Has(flash, c, IF c = job.head THEN "HEAD" ELSE "BODY")
      /\ Len(flash[c].data) + job.room = Cap(flash[c])
      /\ job.size - job.done - job.room <= BodyRoom * vol.free
      /\ vol.files + 1 = Count(flash, "HEAD") /\ Has(flash, job.head, "HEAD")
      /\ flash[c].next = None /\ flash[job.head].name = job.name
  BY <1>2, <1>3 DEF PutFile
<1>8. /\ Len(flash[c].data) \in Nat /\ Cap(flash[c]) \in Nat /\ job.room \in Nat \ {0}
      /\ job.size \in Nat /\ job.done \in Nat
  <2>1. flash[c].data \in Seq(Units)
    BY <1>2 DEF FlashTypes, ChunkType
  <2>2. Cap(flash[c]) \in Nat
    BY SizesAssumption DEF Cap
  <2>3. job.room \in Nat /\ job.size \in Sizes /\ job.done \in Nat
    BY <1>2 DEF PutJobs
  <2>4. job.size \in Nat
    BY <2>3, SizesAssumption
  <2> QED BY <1>2, <2>1, <2>2, <2>3, <2>4
<1>9. /\ FlashParts(L)' /\ \A d \in Chunks : map[d] = Header(flash[d]) => Mapped(d)'
      /\ \A t : Count(flash', t) = Count(flash, t)
      /\ \A t : \A d \in Chunks : Has(flash', d, t) <=> Has(flash, d, t)
  <2>1. ~Has(flash, c, "FREE") /\ flash[c].magic = "ok"
    BY <1>7 DEF Has
  <2>2. Len(flash'[c].data) <= Cap(flash[c])
    BY <1>6, <1>7, <1>8
  <2> QED BY <1>1, <1>2, <1>6, <2>1, <2>2, SameParts
<1>10. job' = [job EXCEPT !.done = job.done + 1, !.room = job.room - 1,
                          !.prev = IF job.room = 1 THEN c ELSE job.prev]
  BY <1>2, <1>3 DEF PutData, PutJobs
<1>11. /\ job' \in PutJobs /\ job'.op = "put" /\ job'.at = "data" /\ job'.head = job.head
       /\ job'.cur = c /\ job'.size = job.size /\ job'.name = job.name
       /\ job'.done = job.done + 1 /\ job'.room = job.room - 1
       /\ job'.prev = IF job.room = 1 THEN c ELSE job.prev
  <2>1. job.done + 1 \in Nat /\ job.room - 1 \in Nat
    BY <1>8
  <2> DEFINE m == job.done + 1
             r == job.room - 1
             p == IF job.room = 1 THEN c ELSE job.prev
  <2>2. p \in Chunks
    BY <1>2 DEF PutJobs
  <2> HIDE DEF m, r, p
  <2>3. job' = [job EXCEPT !.done = m, !.room = r, !.prev = p]
    BY <1>10 DEF m, r, p
  <2>4. m \in Nat /\ r \in Nat
    BY <2>1 DEF m, r
  <2>5. /\ job' \in PutJobs /\ job'.op = "put" /\ job'.at = "data" /\ job'.head = job.head
        /\ job'.cur = c /\ job'.size = job.size /\ job'.name = job.name
        /\ job'.done = m /\ job'.room = r /\ job'.prev = p
    BY <1>2, <1>3, <2>2, <2>3, <2>4 DEF PutJobs
  <2> QED BY <2>5 DEF m, r, p
<1>12. RamTypes'
  BY <1>2, <1>6, <1>11 DEF RamTypes, JobType
<1>13. Caches'
  BY <1>2, <1>6, <1>9, <1>11 DEF Caches, Mapped
<1>14. PutStart'
  BY <1>2, <1>11 DEF PutStart
<1>15. PutEnds(L)'
  <2>1. c \in L /\ (job.room - 1 = 0 => job.room = 1)
    BY <1>1, <1>2, <1>3, <1>8 DEF PutEnds
  <2> QED BY <2>1, <1>11 DEF PutEnds
<1>16. job'.done <= job'.size /\ job'.size - job'.done - job'.room <= BodyRoom * vol'.free
  <2>1. job'.size - job'.done - job'.room = job.size - job.done - job.room
    BY <1>8, <1>11
  <2>2. job.done + 1 <= job.size
    BY <1>2, <1>8
  <2> QED BY <1>2, <1>7, <1>11, <2>1, <2>2
<1>17. Len(flash'[c].data) + job'.room = Cap(flash'[c])
  <2>1. Cap(flash'[c]) = Cap(flash[c])
    BY <1>6 DEF SameHeaders, SameHeader, Cap
  <2>2. Len(flash'[c].data) + job'.room = Len(flash[c].data) + job.room
    <3>1. Len(flash'[c].data) = Len(flash[c].data) + 1 /\ job'.room = job.room - 1
      BY <1>6, <1>11
    <3>2. Len(flash[c].data) \in Nat /\ job.room \in Nat
      BY <1>8
    <3>3. \A a, r \in Nat : (a + 1) + (r - 1) = a + r
      OBVIOUS
    <3> QED BY <3>1, <3>2, <3>3
  <2> QED BY <1>7, <2>1, <2>2
<1>18. flash'[job.head].name = job.name
  BY <1>2, <1>6, <1>7 DEF Kept, PutJobs
<1>19. flash'[c].next = None
  BY <1>6, <1>7 DEF SameHeaders, SameHeader
<1>20. Has(flash', c, IF c = job.head THEN "HEAD" ELSE "BODY") /\ Has(flash', job.head, "HEAD")
  BY <1>2, <1>7, <1>9 DEF PutJobs
<1>21. PutFile'
  BY <1>2, <1>7, <1>9, <1>11, <1>16, <1>17, <1>18, <1>19, <1>20 DEF PutFile
<1>22. Sound(L)'
  BY <1>9, <1>11, <1>12, <1>13, <1>14, <1>15, <1>21, WhilePut
<1>23. Files(flash', L, s)
  <2>1. flash \in [Chunks -> ChunkType] /\ Files(flash, L, s)
    BY <1>2 DEF FlashTypes, Filed
  <2>2. \A d \in Chunks : /\ flash'[d].type = flash[d].type /\ flash'[d].next = flash[d].next
                          /\ flash'[d].size = flash[d].size
    BY <1>6 DEF Kept, SameHeaders, SameHeader
  <2>3. \A d \in Chunks \ {c} : flash'[d].data = flash[d].data
    BY <1>6 DEF Kept
  <2>4. Len(flash[c].data) <= Len(flash'[c].data)
    BY <1>6, <1>8
  <2> QED BY <1>6, <1>7, <2>1, <2>2, <2>3, <2>4, FilesKept
<1>24. PutTail(L, s)'
  <2>1. /\ c \in L /\ s[c].head = job.head /\ job.done <= s[c].from + Len(flash[c].data)
        /\ \A d \in L : s[d].head = job.head /\ flash[d].next = None => d = c
    BY <1>2, <1>3 DEF Filed, PutTail, LastLinked
  <2>2. s[c].from \in Nat
    BY <1>2, PlaceTypes DEF FlashTypes
  <2>3. job.done + 1 <= s[c].from + Len(flash'[c].data)
    <3>1. Len(flash'[c].data) = Len(flash[c].data) + 1 /\ Len(flash[c].data) \in Nat
      BY <1>6, <1>8
    <3>2. job.done \in Nat /\ s[c].from \in Nat
      BY <1>2, <2>2 DEF PutJobs
    <3> QED BY <2>1, <3>1, <3>2
  <2>4. \A d \in Chunks : flash'[d].next = flash[d].next
    BY <1>6 DEF SameHeaders, SameHeader
  <2> QED BY <1>11, <2>1, <2>3, <2>4 DEF PutTail, LastLinked
<1> QED BY <1>22, <1>23, <1>24 DEF IInv, Filed

\* A full chunk: the next one is taken before it is linked.
LEMMA PutGrowStep ==
  ASSUME NEW L \in SUBSET Chunks, NEW s \in Spots, Sound(L), Filed(L, s), PutGrow
  PROVE  IInv'
<1>1. FlashParts(L) /\ PutEnds(L)
  BY InvGives
<1>2. /\ FlashTypes /\ RamTypes /\ Blank /\ Caches /\ PutStart /\ PutFile /\ job \in PutJobs
      /\ job.op = "put" /\ job.at = "data" /\ job.done < job.size /\ job.room = 0
      /\ ~cut /\ cut' = cut
  BY InvGives, JobIs DEF PutGrow, At, PutStart
<1>3. /\ Has(flash, job.cur, IF job.cur = job.head THEN "HEAD" ELSE "BODY")
      /\ job.size - job.done - job.room <= BodyRoom * vol.free
      /\ vol.files + 1 = Count(flash, "HEAD") /\ Has(flash, job.head, "HEAD")
      /\ flash[job.cur].next = None /\ flash[job.head].name = job.name
  BY <1>2 DEF PutFile
<1>4. /\ job.size \in Nat /\ job.done \in Nat /\ vol.free \in Nat /\ BodyRoom \in Nat \ {0}
      /\ job.cur \in Chunks /\ job.head \in Chunks /\ job.prev \in Chunks
  <2>1. job.size \in Sizes /\ job.done \in Nat
        /\ job.cur \in Chunks /\ job.head \in Chunks /\ job.prev \in Chunks
    BY <1>2 DEF PutJobs
  <2>2. job.size \in Nat /\ BodyRoom \in Nat \ {0}
    BY <2>1, SizesAssumption
  <2>3. vol.free \in Nat
    BY <1>2 DEF RamTypes
  <2> QED BY <2>1, <2>2, <2>3
<1>5. vol.free >= 1 /\ job.size - job.done - BodyRoom <= BodyRoom * (vol.free - 1)
  <2>1. job.size - job.done > 0 /\ job.size - job.done <= BodyRoom * vol.free
    BY <1>2, <1>3, <1>4
  <2>2. vol.free # 0
    <3> SUFFICES ASSUME vol.free = 0 PROVE FALSE
      OBVIOUS
    <3>1. BodyRoom * vol.free = 0
      BY <1>4
    <3> QED BY <2>1, <3>1, <1>4
  <2>3. BodyRoom * vol.free = BodyRoom * (vol.free - 1) + BodyRoom
        /\ BodyRoom * (vol.free - 1) \in Nat
    BY <1>4, <2>2, OneLess
  <2> QED BY <1>4, <2>1, <2>2, <2>3
<1>6. CanTake
  BY <1>2, <1>5, CanTakeIs
<1>7. PICK n \in Chunks : n = NextFree /\ Is(n, "FREE")
  BY <1>2, <1>6, NextFreeIs DEF CanTake
<1>8. /\ Take(n, "BODY")
      /\ job' = [job EXCEPT !.at = "link", !.cur = n, !.room = BodyRoom]
  BY <1>6, <1>7 DEF PutGrow
<1>9. /\ FlashTypes' /\ Blank' /\ map' \in [Chunks -> HeaderType]
      /\ Has(flash, n, "FREE") /\ Has(flash', n, "BODY")
      /\ flash'[n].next = None /\ Len(flash'[n].data) = 0
      /\ \A d \in Chunks \ {n} : flash'[d] = flash[d]
      /\ \A d \in Chunks \ {n} : SameHeader(flash', flash, d)
      /\ \A d \in Chunks : map'[d] = Header(flash'[d])
      /\ vol' \in [free : 0..N, files : 0..N, last : Chunks]
      /\ vol'.free = vol.free - 1 /\ vol'.files = vol.files /\ vol'.last = n
      /\ vol'.free = Count(flash', "FREE")
      /\ Count(flash', "HEAD") = Count(flash, "HEAD")
  <2>1. "BODY" \in {"HEAD", "BODY"}
    OBVIOUS
  <2>2. Count(flash, "HEAD") + 0 = Count(flash, "HEAD")
    BY CountRange
  <2> QED BY <1>2, <1>5, <1>7, <1>8, <2>1, <2>2, TakeIs
<1>10. /\ job' \in PutJobs /\ job'.op = "put" /\ job'.at = "link" /\ job'.head = job.head
       /\ job'.cur = n /\ job'.prev = job.prev /\ job'.room = BodyRoom
       /\ job'.size = job.size /\ job'.done = job.done /\ job'.name = job.name
  BY <1>2, <1>4, <1>7, <1>8 DEF PutJobs
<1>11. Live(flash, FALSE, L) /\ cut' = FALSE
  BY <1>1, <1>2 DEF FlashParts, RamTypes
<1>12. Live(flash', FALSE, L) /\ n \notin L
  <2>1. flash \in [Chunks -> ChunkType]
    BY <1>2 DEF FlashTypes
  <2>2. /\ Has(flash, n, "FREE") /\ Has(flash', n, "BODY") /\ flash'[n].next = None
        /\ \A d \in Chunks \ {n} : SameHeader(flash', flash, d)
    BY <1>9
  <2>3. Live(flash, FALSE, L)
    BY <1>11
  <2> QED BY <2>1, <2>2, <2>3, LiveTake
<1>13. FlashParts(L)'
  BY <1>9, <1>11, <1>12 DEF FlashParts
<1>14. RamTypes'
  BY <1>9, <1>10, <1>11 DEF RamTypes, JobType
<1>15. Caches'
  BY <1>9, <1>10 DEF Caches
<1>16. PutStart'
  BY <1>10, <1>11 DEF PutStart
<1>17. PutEnds(L)'
  <2>1. job.cur \in L /\ job.prev = job.cur
    BY <1>1, <1>2 DEF PutEnds
  <2>2. flash'[job.cur].next = None
    BY <1>3, <1>4, <1>9, <1>12, <2>1
  <2> QED BY <1>9, <1>10, <1>12, <2>1, <2>2 DEF PutEnds
<1>18. n # job.head
  BY <1>3, <1>9 DEF Has
<1>19. Len(flash'[n].data) + job'.room = Cap(flash'[n])
  BY <1>4, <1>9, <1>10 DEF Cap, Has
<1>20. job'.done <= job'.size /\ job'.size - job'.done - job'.room <= BodyRoom * vol'.free
  BY <1>2, <1>4, <1>5, <1>9, <1>10
<1>21. Has(flash', job.head, "HEAD") /\ flash'[job.head].name = job.name
  BY <1>3, <1>4, <1>9, <1>18 DEF Has
<1>22. vol'.files + 1 = Count(flash', "HEAD")
  BY <1>3, <1>9
<1>23. PutFile'
  BY <1>9, <1>10, <1>18, <1>19, <1>20, <1>21, <1>22 DEF PutFile
<1>24. Sound(L)'
  BY <1>10, <1>13, <1>14, <1>15, <1>16, <1>17, <1>23, WhilePut
<1>25. \A c \in L : flash'[c] = flash[c]
  BY <1>9, <1>12
<1>26. Files(flash', L, s)
  <2>1. /\ flash \in [Chunks -> ChunkType] /\ flash' \in [Chunks -> ChunkType]
        /\ Files(flash, L, s)
    BY <1>2, <1>9 DEF FlashTypes, Filed
  <2> QED BY <1>25, <2>1, FilesKept
<1>27. PutTail(L, s)'
  <2>1. job.prev = job.cur
    BY <1>1, <1>2 DEF PutEnds
  <2>2. /\ job.cur \in L /\ s[job.cur].head = job.head
        /\ job.done <= s[job.cur].from + Len(flash[job.cur].data)
        /\ \A d \in L : s[d].head = job.head /\ flash[d].next = None => d = job.cur
    BY <1>2 DEF Filed, PutTail, LastLinked
  <2> QED BY <1>10, <1>25, <2>1, <2>2 DEF PutTail, LastLinked
<1> QED BY <1>24, <1>26, <1>27 DEF IInv, Filed

\* The link to the chunk just taken.
LEMMA PutLinkStep ==
  ASSUME NEW L \in SUBSET Chunks, NEW s \in Spots, Sound(L), Filed(L, s), PutLink
  PROVE  IInv'
<1>1. FlashParts(L) /\ PutEnds(L)
  BY InvGives
<1>2. /\ FlashTypes /\ RamTypes /\ Blank /\ Caches /\ PutStart /\ PutFile /\ job \in PutJobs
      /\ job.op = "put" /\ job.at = "link" /\ ~cut /\ cut' = cut /\ vol' = vol
      /\ job' = [job EXCEPT !.at = "data"]
  BY InvGives, JobIs DEF PutLink, At, PutStart
<1>3. PICK p \in Chunks, c \in Chunks : p = job.prev /\ c = job.cur
  BY <1>2 DEF PutJobs
<1>4. /\ p \in L /\ flash[p].next = None /\ c \notin L /\ vol.last = c /\ job.room = BodyRoom
  BY <1>1, <1>2, <1>3 DEF PutEnds
<1>5. Write(p, "next", c)
  BY <1>3, <1>4 DEF PutLink
<1>6. /\ flash' \in [Chunks -> ChunkType] /\ map' \in [Chunks -> HeaderType] /\ Kept(p)
      /\ flash'[p].magic = flash[p].magic /\ flash'[p].type = flash[p].type
      /\ flash'[p].next = c /\ flash'[p].data = flash[p].data
      /\ flash'[p].name = flash[p].name /\ flash'[p].size = flash[p].size
      /\ Mapped(p) => Mapped(p)'
  BY <1>2, <1>5, WriteNext
<1>7. /\ \A d \in Chunks : flash'[d].magic = flash[d].magic /\ flash'[d].type = flash[d].type
                           /\ flash'[d].data = flash[d].data /\ flash'[d].name = flash[d].name
                           /\ flash'[d].size = flash[d].size
      /\ \A d \in Chunks \ {p} : flash'[d] = flash[d] /\ map'[d] = map[d]
  BY <1>6 DEF Kept
<1>8. /\ \A d \in Chunks : \A t : Has(flash', d, t) <=> Has(flash, d, t)
      /\ \A t : Count(flash', t) = Count(flash, t)
  <2>1. \A d \in Chunks : \A t : Has(flash', d, t) <=> Has(flash, d, t)
    BY <1>7 DEF Has
  <2> QED BY <2>1, CountSame
<1>9. /\ job' \in PutJobs /\ job'.op = "put" /\ job'.at = "data" /\ job'.head = job.head
      /\ job'.cur = c /\ job'.prev = p /\ job'.room = BodyRoom
      /\ job'.size = job.size /\ job'.done = job.done /\ job'.name = job.name
  BY <1>2, <1>3, <1>4 DEF PutJobs
<1>10. /\ Has(flash, c, IF c = job.head THEN "HEAD" ELSE "BODY") /\ Has(flash, job.head, "HEAD")
       /\ flash[c].next = None /\ Len(flash[c].data) + job.room = Cap(flash[c])
       /\ vol.files + 1 = Count(flash, "HEAD") /\ flash[job.head].name = job.name
       /\ job.done <= job.size /\ job.size - job.done - job.room <= BodyRoom * vol.free
       /\ job.head \in Chunks
  BY <1>2, <1>3 DEF PutFile, PutJobs
<1>11. Live(flash, FALSE, L) /\ cut' = FALSE
  BY <1>1, <1>2 DEF FlashParts, RamTypes
<1>12. c # job.head /\ Has(flash, c, "BODY") /\ p # c
  BY <1>4, <1>10, <1>11 DEF Live
<1>13. Live(flash', FALSE, L \cup {c})
  <2>1. \A d \in Chunks \ {p} : SameHeader(flash', flash, d)
    BY <1>7 DEF SameHeader
  <2>2. Has(flash', p, flash[p].type)
    BY <1>4, <1>6, <1>11 DEF Live, Has
  <2>3. flash \in [Chunks -> ChunkType]
    BY <1>2 DEF FlashTypes
  <2> QED BY <1>4, <1>6, <1>10, <1>11, <1>12, <2>1, <2>2, <2>3, LiveLink
<1>14. FlashParts(L \cup {c})'
  <2>1. \A d \in Chunks : Len(flash'[d].data) <= Cap(flash'[d])
    BY <1>2, <1>7 DEF FlashTypes, Cap
  <2>2. Blank'
    <3>1. flash[p].magic = "ok" /\ flash[p].type # "FREE"
      BY <1>4, <1>11 DEF Live
    <3> QED BY <1>2, <1>7, <3>1 DEF Blank, Has
  <2> QED BY <1>6, <1>11, <1>13, <2>1, <2>2 DEF FlashParts, FlashTypes
<1>15. RamTypes'
  BY <1>2, <1>6, <1>9, <1>11 DEF RamTypes, JobType
<1>16. Caches'
  <2>1. \A d \in Chunks : map[d] = Header(flash[d])
    BY <1>2 DEF Caches
  <2>2. \A d \in Chunks : map'[d] = Header(flash'[d])
    BY <1>6, <1>7, <2>1 DEF Mapped
  <2> QED BY <1>2, <1>8, <1>9, <2>2 DEF Caches
<1>17. PutStart' /\ PutEnds(L \cup {c})'
  BY <1>9, <1>11, SizesAssumption DEF PutStart, PutEnds
<1>18. PutFile'
  <2>1. flash'[c].next = None /\ Len(flash'[c].data) + job'.room = Cap(flash'[c])
    BY <1>7, <1>9, <1>10, <1>12, <1>4
  <2>2. Has(flash', c, "BODY") /\ Has(flash', job.head, "HEAD")
    BY <1>8, <1>10, <1>12
  <2>3. flash'[job.head].name = job.name /\ vol'.files + 1 = Count(flash', "HEAD")
    BY <1>2, <1>7, <1>8, <1>10
  <2>4. job'.done <= job'.size /\ job'.size - job'.done - job'.room <= BodyRoom * vol'.free
    BY <1>2, <1>4, <1>9, <1>10
  <2> QED BY <1>9, <1>12, <2>1, <2>2, <2>3, <2>4 DEF PutFile
<1>19. Sound(L \cup {c})'
  BY <1>9, <1>14, <1>15, <1>16, <1>17, <1>18, WhilePut
<1>20. /\ s[p].head = job.head /\ job.done <= s[p].from + Len(flash[p].data)
       /\ \A d \in L : s[d].head = job.head /\ flash[d].next = None => d = p
  BY <1>2, <1>3 DEF Filed, PutTail, LastLinked
<1>21. PICK t \in Spots : /\ Files(flash', L \cup {c}, t) /\ t[c].head = s[p].head
                          /\ t[c].from = s[p].from + Len(flash[p].data)
                          /\ \A d \in L : t[d] = s[d]
  <2>1. flash \in [Chunks -> ChunkType] /\ Files(flash, L, s)
    BY <1>2 DEF FlashTypes, Filed
  <2>2. \A d \in L \cup {c} : /\ flash'[d].type = flash[d].type /\ flash'[d].size = flash[d].size
                              /\ flash'[d].data = flash[d].data
                              /\ flash'[d].next = IF d = p THEN c ELSE flash[d].next
    BY <1>6, <1>7
  <2>3. \A d \in L : flash[d].next \in L \cup {None}
    BY <1>11 DEF Live
  <2>4. /\ flash[c].type = "BODY" /\ flash[c].next = None /\ flash[p].next = None
        /\ s[p].head # None /\ c \in Chunks \ L /\ p \in L /\ flash' \in [Chunks -> ChunkType]
    BY <1>4, <1>6, <1>10, <1>12, <1>20 DEF Has, Chunks, None
  <2>5. PICK f \in [Chunks -> ChunkType], g \in [Chunks -> ChunkType] : f = flash /\ g = flash'
    BY <2>1, <2>4
  <2>6. Files(f, L, s) /\ BodyAdded(f, g, L, p, c)
    BY <2>1, <2>2, <2>3, <2>4, <2>5 DEF BodyAdded
  <2>7. \E t \in Spots : Files(g, L \cup {c}, t) /\ SpotAdded(t, s, f, L, p, c)
    <3>1. p \in Chunks /\ c \in Chunks /\ s[p].head # None
      BY <2>4
    <3> QED BY <2>6, <3>1, FilesLink
  <2> QED BY <2>5, <2>7 DEF SpotAdded
<1>22. PutTail(L \cup {c}, t)'
  <2>1. /\ t[c].from \in Nat /\ Len(flash'[c].data) \in Nat
    BY <1>6, PlaceTypes
  <2>2. job.done <= t[c].from + Len(flash'[c].data)
    BY <1>2, <1>20, <1>21, <2>1 DEF PutJobs
  <2>3. ASSUME NEW d \in L \cup {c}, t[d].head = job.head, flash'[d].next = None PROVE d = c
    <3>1. d # c => d \in L /\ s[d].head = job.head
      BY <1>21, <2>3
    <3>2. p # d
      BY <1>4, <1>6, <2>3 DEF Chunks, None
    <3>3. d # c => flash[d].next = None
      BY <1>7, <2>3, <3>1, <3>2
    <3> QED BY <1>20, <3>1, <3>2, <3>3
  <2> QED BY <1>9, <1>20, <1>21, <2>2, <2>3 DEF PutTail, LastLinked
<1> QED BY <1>19, <1>21, <1>22 DEF IInv, Filed

\* A read from the SD card fails.
LEMMA SdErrorStep ==
  ASSUME NEW L \in SUBSET Chunks, NEW s \in Spots, Sound(L), Filed(L, s), SdError
  PROVE  IInv'
<1>1. FlashParts(L)
  BY InvGives
<1>2. /\ RamTypes /\ Caches /\ PutStart /\ PutFile /\ job \in PutJobs
      /\ job.op = "put" /\ job.at = "data" /\ job' = [job EXCEPT !.at = "fail"]
      /\ UNCHANGED <<flash, map, vol, cut>>
  BY InvGives, JobIs DEF SdError, At
<1>3. /\ job' \in PutJobs /\ job'.op = "put" /\ job'.at = "fail" /\ job'.head = job.head
      /\ job'.cur = job.cur /\ job'.prev = job.prev /\ job'.room = job.room
      /\ job'.size = job.size /\ job'.done = job.done /\ job'.name = job.name
  BY <1>2 DEF PutJobs
<1>4. FlashParts(L)'
  BY <1>1, <1>2 DEF FlashParts, FlashTypes, Blank
<1>5. RamTypes' /\ Caches'
  BY <1>2, <1>3 DEF RamTypes, JobType, Caches
<1>6. PutStart' /\ PutEnds(L)'
  BY <1>2, <1>3 DEF PutStart, PutEnds
<1>7. PutFile'
  BY <1>2, <1>3 DEF PutFile
<1>8. Sound(L)'
  BY <1>3, <1>4, <1>5, <1>6, <1>7, WhilePut
<1>9. Filed(L, s)'
  BY <1>2, <1>3 DEF Filed, PutTail, LastLinked
<1> QED BY <1>8, <1>9 DEF IInv

-----------------------------------------------------------------------------
(* The end of a copy, and deleting a file. *)

\* The search by name finds a head with that name.
LEMMA SearchIs ==
  ASSUME NEW n, NEW h \in Chunks, Is(h, "HEAD"), flash[h].name = n
  PROVE  Search(n) \in Chunks /\ Is(Search(n), "HEAD") /\ flash[Search(n)].name = n
<1> DEFINE T == {c \in Chunks : Is(c, "HEAD") /\ flash[c].name = n}
<1>1. \E x \in T : \A y \in T : x <= y
  BY Least
<1>2. \E c \in Heads : /\ flash[c].name = n
                     /\ \A d \in Heads : flash[d].name = n => c <= d
  BY <1>1 DEF Heads
<1>3. Search(n) \in Heads /\ flash[Search(n)].name = n
  BY <1>2 DEF Search
<1> QED BY <1>3 DEF Heads

\* A close writes the size and counts the file; what runs then is one of two.
LEMMA CloseIs ==
  ASSUME NEW L \in SUBSET Chunks, NEW s \in Spots, Filed(L, s), FlashParts(L), RamTypes,
         Caches, PutFile,
         job \in PutJobs, job.op = "put", job.at \in {"data", "fail"}, Close
  PROVE  /\ FlashParts(L)' /\ map' \in [Chunks -> HeaderType] /\ cut' = cut
         /\ \A d \in Chunks : map'[d] = Header(flash'[d])
         /\ vol' \in [free : 0..N, files : 0..N, last : Chunks]
         /\ vol'.free = Count(flash', "FREE") /\ vol'.files = Count(flash', "HEAD")
         /\ \A t : \A d \in Chunks : Has(flash', d, t) <=> Has(flash, d, t)
         /\ \A d \in Chunks : SameHeader(flash', flash, d)
         /\ Files(flash', L, s)
<1>1. PICK h \in Chunks : h = job.head
  BY DEF PutJobs
<1>2. PICK n \in Nat : n = job.done
  BY DEF PutJobs
<1>3. Write(h, "size", n) /\ vol' = [vol EXCEPT !.files = vol.files + 1] /\ cut' = cut
  BY <1>1, <1>2 DEF Close
<1>4. FlashTypes /\ map \in [Chunks -> HeaderType]
      /\ vol \in [free : 0..N, files : 0..N, last : Chunks]
  BY DEF FlashParts, RamTypes
<1>5. Has(flash, h, "HEAD") /\ vol.files + 1 = Count(flash, "HEAD")
  BY <1>1 DEF PutFile
<1>6. /\ flash' \in [Chunks -> ChunkType] /\ map' = map /\ Kept(h) /\ SameHeaders
      /\ flash'[h].data = flash[h].data /\ flash'[h].size = n
  BY <1>3, <1>4, WriteSize
<1>7. /\ FlashParts(L)' /\ \A d \in Chunks : map[d] = Header(flash[d]) => Mapped(d)'
      /\ \A t : Count(flash', t) = Count(flash, t)
      /\ \A t : \A d \in Chunks : Has(flash', d, t) <=> Has(flash, d, t)
  <2>1. ~Has(flash, h, "FREE") /\ flash[h].magic = "ok"
    BY <1>5 DEF Has
  <2>2. Len(flash'[h].data) <= Cap(flash[h])
    BY <1>4, <1>6 DEF FlashTypes
  <2> QED BY <1>3, <1>6, <2>1, <2>2, SameParts
<1>8. vol.free = Count(flash, "FREE") /\ \A d \in Chunks : map[d] = Header(flash[d])
  BY DEF Caches
<1>9. \A d \in Chunks : map'[d] = Header(flash'[d])
  BY <1>6, <1>7, <1>8 DEF Mapped
<1>10. /\ vol' \in [free : 0..N, files : 0..N, last : Chunks]
       /\ vol'.free = vol.free /\ vol'.files = Count(flash, "HEAD")
  <2>1. PICK m \in 0..N : m = Count(flash, "HEAD")
    BY CountRange
  <2>2. vol' = [vol EXCEPT !.files = m]
    BY <1>3, <1>5, <2>1
  <2> QED BY <1>4, <2>1, <2>2
<1>11. Files(flash', L, s)
  <2>1. flash \in [Chunks -> ChunkType] /\ Files(flash, L, s)
    BY <1>4 DEF FlashTypes, Filed
  <2>2. \A c \in L : s[c].head = h /\ flash[c].next = None => n <= s[c].from + Len(flash[c].data)
    BY <1>1, <1>2 DEF Filed, PutTail, LastLinked
  <2>3. \A c \in L : /\ flash'[c].type = flash[c].type /\ flash'[c].next = flash[c].next
                     /\ flash'[c].data = flash[c].data
                     /\ c # h => flash'[c].size = flash[c].size
    BY <1>6 DEF Kept, SameHeaders, SameHeader
  <2> QED BY <1>6, <2>1, <2>2, <2>3, FilesClose
<1> QED BY <1>3, <1>4, <1>6, <1>7, <1>8, <1>9, <1>10, <1>11 DEF SameHeaders

\* The end of a copy counts the file.
LEMMA PutEndStep ==
  ASSUME NEW L \in SUBSET Chunks, NEW s \in Spots, Sound(L), Filed(L, s), PutEnd
  PROVE  IInv'
<1>1. FlashParts(L)
  BY InvGives
<1>2. /\ RamTypes /\ Caches /\ PutFile /\ job \in PutJobs
      /\ job.op = "put" /\ job.at = "data" /\ Close /\ job' = Idle
  BY InvGives, JobIs DEF PutEnd, At
<1>3. /\ FlashParts(L)' /\ map' \in [Chunks -> HeaderType] /\ cut' = cut
      /\ \A d \in Chunks : map'[d] = Header(flash'[d])
      /\ vol' \in [free : 0..N, files : 0..N, last : Chunks]
      /\ vol'.free = Count(flash', "FREE") /\ vol'.files = Count(flash', "HEAD")
      /\ Files(flash', L, s)
  BY <1>1, <1>2, CloseIs
<1>4. RamTypes'
  BY <1>2, <1>3 DEF RamTypes, JobType
<1>5. Caches'
  BY <1>3 DEF Caches
<1>6. Sound(L)'
  BY <1>2, <1>3, <1>4, <1>5, WhileIdle
<1>7. PutTail(L, s)'
  BY <1>2 DEF PutTail, Idle
<1> QED BY <1>3, <1>6, <1>7 DEF IInv, Filed

\* A delete starts at a head, which nothing links to.
LEMMA RemoveStart ==
  ASSUME NEW L \in SUBSET Chunks, FlashParts(L)', map' \in [Chunks -> HeaderType], cut' = FALSE,
         \A d \in Chunks : map'[d] = Header(flash'[d]),
         vol' \in [free : 0..N, files : 0..N, last : Chunks],
         vol'.free = Count(flash', "FREE"), vol'.files = Count(flash', "HEAD"),
         NEW h \in Chunks, Has(flash', h, "HEAD"), NEW n \in Names \cup {NoName},
         job' = [op |-> "remove", at |-> "erase", name |-> n, cur |-> h, next |-> None]
  PROVE  Sound(L)' /\ job'.op = "remove"
<1>1. /\ job' \in RemoveJobs /\ job'.op = "remove" /\ job'.at = "erase" /\ job'.cur = h
  BY DEF RemoveJobs, Links
<1>2. RamTypes'
  BY <1>1 DEF RamTypes, JobType
<1>3. Caches'
  BY <1>1 DEF Caches
<1>4. h \in L /\ \A d \in L : flash'[d].next # h
  <2>1. Live(flash', FALSE, L)
    BY DEF FlashParts
  <2>2. h # None
    BY DEF Chunks, None
  <2> QED BY <2>1, <2>2 DEF Live, Has
<1>5. vol'.files = Count(flash', "HEAD") + 0
  BY CountRange
<1>6. RemoveInv(L)'
  BY <1>1, <1>4, <1>5 DEF RemoveInv, Unlinked
<1>7. Sound(L)'
  BY <1>1, <1>2, <1>3, <1>6, WhileRemove
<1> QED BY <1>1, <1>7

\* A copy that fails closes its file and deletes it, found by its name.
LEMMA PutFailStep ==
  ASSUME NEW L \in SUBSET Chunks, NEW s \in Spots, Sound(L), Filed(L, s), PutFail
  PROVE  IInv'
<1>1. FlashParts(L)
  BY InvGives
<1>2. /\ RamTypes /\ Caches /\ PutFile /\ job \in PutJobs /\ ~cut /\ PutStart
      /\ job.op = "put" /\ job.at = "fail" /\ Close /\ job' = RemoveJob(job.name)
  BY InvGives, JobIs DEF PutFail, At, PutStart
<1>3. /\ FlashParts(L)' /\ map' \in [Chunks -> HeaderType] /\ cut' = cut
      /\ \A d \in Chunks : map'[d] = Header(flash'[d])
      /\ vol' \in [free : 0..N, files : 0..N, last : Chunks]
      /\ vol'.free = Count(flash', "FREE") /\ vol'.files = Count(flash', "HEAD")
      /\ Files(flash', L, s)
      /\ \A t : \A d \in Chunks : Has(flash', d, t) <=> Has(flash, d, t)
  BY <1>1, <1>2, CloseIs
<1>4. /\ Has(flash, job.head, "HEAD") /\ flash[job.head].name = job.name /\ job.head \in Chunks
      /\ job.name \in Names
  BY <1>2 DEF PutFile, PutJobs
<1>5. Is(job.head, "HEAD")
  <2>1. map[job.head] = Header(flash[job.head])
    BY <1>2, <1>4 DEF Caches
  <2> QED BY <2>1, <1>4 DEF Is, Has, Header
<1>6. PICK h \in Chunks : h = Search(job.name) /\ Is(h, "HEAD")
  BY <1>4, <1>5, SearchIs
<1>7. Has(flash, h, "HEAD")
  <2>1. map[h] = Header(flash[h])
    BY <1>2 DEF Caches
  <2> QED BY <2>1, <1>6 DEF Is, Has, Header
<1>8. PICK n \in Names : n = job.name
  BY <1>4
<1>9. job' = [op |-> "remove", at |-> "erase", name |-> n, cur |-> h, next |-> None]
  BY <1>2, <1>6, <1>8 DEF RemoveJob
<1>10. cut' = FALSE
  BY <1>2, <1>3 DEF RamTypes
<1>11. Sound(L)' /\ job'.op = "remove"
  BY <1>3, <1>7, <1>8, <1>9, <1>10, RemoveStart
<1>12. PutTail(L, s)'
  BY <1>11 DEF PutTail
<1> QED BY <1>3, <1>11, <1>12 DEF IInv, Filed

\* A deletion begins at a head.
LEMMA RemoveBeginStep ==
  ASSUME WorkAfterCut = FALSE, NEW L \in SUBSET Chunks, Sound(L), RemoveBegin
  PROVE  Left(L)
<1>1. FlashParts(L)
  BY InvGives
<1>2. PICK c \in Listed : flash[c].name # NoHdr /\ job' = RemoveJob(flash[c].name)
  BY DEF RemoveBegin
<1>3. /\ FlashTypes /\ RamTypes /\ Caches /\ job = Idle /\ ~cut
      /\ UNCHANGED <<flash, map, vol, cut>>
  BY InvGives DEF RemoveBegin, Ready
<1>4. c \in Chunks /\ Is(c, "HEAD")
  BY DEF Listed, Heads
<1>5. PICK n \in Names \cup {NoName} : n = flash[c].name
  BY <1>2, <1>3, <1>4 DEF FlashTypes, ChunkType
<1>6. PICK h \in Chunks : h = Search(n) /\ Is(h, "HEAD")
  BY <1>4, <1>5, SearchIs
<1>7. job' = [op |-> "remove", at |-> "erase", name |-> n, cur |-> h, next |-> None]
  BY <1>2, <1>5, <1>6 DEF RemoveJob
<1>8. /\ \A d \in Chunks : map[d] = Header(flash[d])
      /\ vol.free = Count(flash, "FREE") /\ vol.files = Count(flash, "HEAD")
  BY <1>3 DEF Caches, Idle
<1>9. Has(flash', h, "HEAD")
  <2>1. map[h] = Header(flash[h])
    BY <1>8
  <2> QED BY <2>1, <1>3, <1>6 DEF Is, Has, Header
<1>10. FlashParts(L)'
  BY <1>1, <1>3 DEF FlashParts, FlashTypes, Blank
<1>11. /\ map' \in [Chunks -> HeaderType] /\ vol' \in [free : 0..N, files : 0..N, last : Chunks]
       /\ cut' = FALSE
  BY <1>3 DEF RamTypes
<1>12. /\ \A d \in Chunks : map'[d] = Header(flash'[d])
       /\ vol'.free = Count(flash', "FREE") /\ vol'.files = Count(flash', "HEAD")
  BY <1>3, <1>8
<1>13. Sound(L)'
  BY <1>7, <1>9, <1>10, <1>11, <1>12, RemoveStart
<1> QED BY <1>13, <1>3, <1>7 DEF Left

\* The deletion has read the link before it erases the chunk that holds it.
LEMMA RemoveEraseStep ==
  ASSUME NEW L \in SUBSET Chunks, Sound(L), RemoveErase
  PROVE  Left(L)
<1>1. FlashParts(L) /\ RemoveInv(L)
  BY InvGives
<1>2. /\ FlashTypes /\ RamTypes /\ Blank /\ Caches /\ job \in RemoveJobs
      /\ job.op = "remove" /\ job.at = "erase" /\ vol' = vol /\ cut' = cut
  BY InvGives, JobIs DEF RemoveErase, At
<1>3. PICK c \in Chunks : c = job.cur
  BY <1>2 DEF RemoveJobs
<1>4. PICK n \in Links : n = flash[c].next
  BY <1>2 DEF FlashTypes, ChunkType
<1>5. /\ map' = [map EXCEPT ![c] = Header(Erased)]
      /\ job' = [job EXCEPT !.at = "magic", !.next = n]
  BY <1>3, <1>4 DEF RemoveErase, EraseMapped
<1>6. /\ ~cut /\ c \in L /\ Unlinked(flash, L, c)
      /\ vol.files = Count(flash, "HEAD") + (IF Has(flash, c, "HEAD") THEN 0 ELSE 1)
  BY <1>1, <1>2, <1>3 DEF RemoveInv
<1>7. Live(flash, FALSE, L) /\ cut' = FALSE
  BY <1>1, <1>2, <1>6 DEF FlashParts, RamTypes
<1>8. /\ FlashTypes' /\ Blank'
      /\ \A d \in Chunks : flash'[d] = IF d \in {c} THEN Erased ELSE flash[d]
      /\ \A d \in Chunks \ {c} : SameHeader(flash', flash, d)
      /\ \A d \in Chunks \cap {c} : flash'[d].magic # "ok"
  <2>1. FlashTypes /\ Blank
    BY <1>2
  <2>2. Erase({c})
    BY <1>3 DEF RemoveErase, EraseMapped
  <2> QED BY <2>1, <2>2, EraseIs
<1>9. Live(flash', FALSE, L \ {c})
  <2>1. flash \in [Chunks -> ChunkType]
    BY <1>2 DEF FlashTypes
  <2>2. \A d \in L \ {c} : flash[d].next \notin {c}
    BY <1>6 DEF Unlinked
  <2> QED BY <1>7, <1>8, <2>1, <2>2, LiveErase
<1>10. FlashParts(L \ {c})'
  BY <1>7, <1>8, <1>9 DEF FlashParts
<1>11. /\ job' \in RemoveJobs /\ job'.op = "remove" /\ job'.at = "magic"
       /\ job'.cur = c /\ job'.next = n
  BY <1>2, <1>3, <1>5 DEF RemoveJobs
<1>12. /\ map' \in [Chunks -> HeaderType] /\ map'[c] = Header(Erased)
       /\ \A d \in Chunks \ {c} : map'[d] = map[d]
  BY <1>2, <1>5, BlankChunks DEF RamTypes
<1>13. RamTypes'
  BY <1>2, <1>7, <1>11, <1>12 DEF RamTypes, JobType
<1>14. flash[c].magic = "ok" /\ flash[c].type # "FREE" /\ flash'[c] = Erased
  BY <1>6, <1>7, <1>8 DEF Live
<1>15. \A d \in Chunks : \A t : d # c => (Has(flash', d, t) <=> Has(flash, d, t))
  BY <1>8 DEF Has
<1>16. \A t : ~Has(flash', c, t)
  BY <1>14, BlankChunks DEF Has
<1>17. Count(flash', "FREE") = Count(flash, "FREE")
  <2>1. ~Has(flash, c, "FREE")
    BY <1>14 DEF Has
  <2>2. \A d \in Chunks : Has(flash', d, "FREE") <=> Has(flash, d, "FREE")
    BY <1>15, <1>16, <2>1
  <2> QED BY <2>2, CountSame
<1>18. vol.files = Count(flash', "HEAD") + 1
  <2>1. CASE Has(flash, c, "HEAD")
    <3>1. Count(flash, "HEAD") = Count(flash', "HEAD") + 1
      BY <2>1, <1>15, <1>16, CountMore
    <3>2. vol.files = Count(flash, "HEAD") + 0
      BY <1>6, <2>1
    <3> QED BY <3>1, <3>2, CountRange
  <2>2. CASE ~Has(flash, c, "HEAD")
    <3>1. \A d \in Chunks : Has(flash', d, "HEAD") <=> Has(flash, d, "HEAD")
      BY <1>15, <1>16, <2>2
    <3>2. Count(flash', "HEAD") = Count(flash, "HEAD")
      BY <3>1, CountSame
    <3> QED BY <3>2, <1>6, <2>2
  <2> QED BY <2>1, <2>2
<1>19. Caches'
  <2>1. \A d \in Chunks : map'[d] = Header(flash'[d])
    BY <1>2, <1>8, <1>12, <1>14 DEF Caches
  <2> QED BY <1>2, <1>11, <1>17, <2>1 DEF Caches
<1>20. n # None => n \in L \ {c} /\ flash'[n].type = "BODY" /\ Unlinked(flash', L \ {c}, n)
  <2> SUFFICES ASSUME n # None
               PROVE  n \in L \ {c} /\ flash'[n].type = "BODY" /\ Unlinked(flash', L \ {c}, n)
    OBVIOUS
  <2>1. n \in L /\ flash[n].type = "BODY"
    BY <1>4, <1>6, <1>7 DEF Live
  <2>2. n # c
    BY <1>4, <1>6 DEF Unlinked
  <2>3. \A d \in L \ {c} : flash[d].next # n
    BY <1>4, <1>6, <1>7 DEF Live
  <2> QED BY <1>8, <2>1, <2>2, <2>3 DEF Unlinked
<1>21. RemoveInv(L \ {c})'
  BY <1>2, <1>7, <1>11, <1>14, <1>18, <1>20 DEF RemoveInv
<1>22. Sound(L \ {c})'
  BY <1>10, <1>11, <1>13, <1>19, <1>21, WhileRemove
<1> QED BY <1>22, <1>8, <1>11 DEF Left

\* The magic number makes the chunk a free one; the next is erased, or none is left.
LEMMA RemoveMagicStep ==
  ASSUME NEW L \in SUBSET Chunks, Sound(L), RemoveMagic
  PROVE  Left(L)
<1>1. FlashParts(L) /\ RemoveInv(L)
  BY InvGives
<1>2. /\ FlashTypes /\ RamTypes /\ Blank /\ Caches /\ job \in RemoveJobs
      /\ job.op = "remove" /\ job.at = "magic" /\ cut' = cut
  BY InvGives, JobIs DEF RemoveMagic, At
<1>3. PICK c \in Chunks, n \in Links : c = job.cur /\ n = job.next
  BY <1>2 DEF RemoveJobs
<1>4. /\ WriteMagic(c)
      /\ vol' = [vol EXCEPT !.free = @ + 1,
                            !.files = IF n = None /\ @ > 0 THEN @ - 1 ELSE @]
      /\ job' = IF n = None THEN Idle
                ELSE [job EXCEPT !.at = "erase", !.cur = n, !.next = None]
  BY <1>3 DEF RemoveMagic
<1>5. /\ ~cut /\ flash[c] = Erased /\ vol.files = Count(flash, "HEAD") + 1
      /\ n # None => n \in L /\ flash[n].type = "BODY" /\ Unlinked(flash, L, n)
  BY <1>1, <1>2, <1>3 DEF RemoveInv
<1>6. Live(flash, FALSE, L) /\ cut' = FALSE
  BY <1>1, <1>2, <1>5 DEF FlashParts, RamTypes
<1>7. flash[c].magic = "erased" /\ flash[c].magic # "ok" /\ Header(flash[c]) = Header(Erased)
  BY <1>5, BlankChunks
<1>8. /\ FlashTypes' /\ map' \in [Chunks -> HeaderType] /\ Kept(c) /\ Blank' /\ flash'[c] = Fresh
      /\ map'[c].magic = "ok" /\ map'[c].type = map[c].type /\ map'[c].next = map[c].next
  BY <1>2, <1>4, <1>7, WriteMagicIs
<1>9. \A d \in Chunks \ {c} : flash'[d] = flash[d] /\ map'[d] = map[d]
  BY <1>8 DEF Kept
<1>10. Live(flash', FALSE, L)
  <2>1. \A d \in Chunks \ {c} : SameHeader(flash', flash, d)
    BY <1>9 DEF SameHeader
  <2>2. flash \in [Chunks -> ChunkType] /\ flash'[c].type = "FREE"
    BY <1>2, <1>8, BlankChunks DEF FlashTypes
  <2> QED BY <1>6, <1>7, <2>1, <2>2, LiveMagic
<1>11. FlashParts(L)'
  BY <1>6, <1>8, <1>10 DEF FlashParts
<1>12. Has(flash', c, "FREE") /\ ~Has(flash', c, "HEAD") /\ \A t : ~Has(flash, c, t)
  BY <1>7, <1>8, BlankChunks DEF Has
<1>13. \A t : \A d \in Chunks : d # c => (Has(flash', d, t) <=> Has(flash, d, t))
  BY <1>9 DEF Has
<1>14. Count(flash', "FREE") = Count(flash, "FREE") + 1
  BY <1>12, <1>13, CountMore
<1>15. Count(flash', "HEAD") = Count(flash, "HEAD")
  <2>1. \A d \in Chunks : Has(flash', d, "HEAD") <=> Has(flash, d, "HEAD")
    BY <1>12, <1>13
  <2> QED BY <2>1, CountSame
<1>16. /\ vol' \in [free : 0..N, files : 0..N, last : Chunks]
       /\ vol'.free = Count(flash', "FREE")
       /\ vol'.files = Count(flash', "HEAD") + (IF n = None THEN 0 ELSE 1)
  <2>1. PICK a \in 0..N : a = Count(flash', "FREE")
    BY CountRange
  <2>2. PICK b \in 0..N : b = IF n = None THEN Count(flash, "HEAD") ELSE vol.files
    BY <1>2, CountRange DEF RamTypes
  <2>3. vol.free + 1 = a
    BY <1>2, <1>14, <2>1 DEF Caches
  <2>4. (IF n = None /\ vol.files > 0 THEN vol.files - 1 ELSE vol.files) = b
    BY <1>5, <2>2, CountRange
  <2>5. vol \in [free : 0..N, files : 0..N, last : Chunks]
    BY <1>2 DEF RamTypes
  <2>6. vol' = [vol EXCEPT !.free = a, !.files = b]
    BY <1>4, <2>3, <2>4, <2>5
  <2>7. /\ vol' \in [free : 0..N, files : 0..N, last : Chunks]
        /\ vol'.free = a /\ vol'.files = b
    BY <2>5, <2>6
  <2>8. b = Count(flash', "HEAD") + (IF n = None THEN 0 ELSE 1)
    BY <1>5, <1>15, <2>2, CountRange
  <2> QED BY <2>1, <2>7, <2>8
<1>17. \A d \in Chunks : map'[d] = Header(flash'[d])
  <2>1. map[c] = Header(Erased) /\ \A d \in Chunks : map[d] = Header(flash[d])
    BY <1>2, <1>7 DEF Caches
  <2>2. map[c].type = "FREE" /\ map[c].next = None
    BY <2>1, BlankChunks DEF Header
  <2>3. map'[c] = Header(Fresh)
    BY <1>8, <2>2, BlankChunks DEF HeaderType, Header
  <2> QED BY <1>8, <1>9, <2>1, <2>3
<1>18. \A d \in L : flash'[d] = flash[d]
  BY <1>6, <1>7, <1>9 DEF Live
<1>19. CASE n = None
  <2>1. job' = Idle /\ vol'.files = Count(flash', "HEAD")
    BY <1>4, <1>16, <1>19, CountRange
  <2>2. RamTypes'
    BY <1>6, <1>8, <1>16, <2>1 DEF RamTypes, JobType
  <2>3. Caches'
    BY <1>16, <1>17, <2>1 DEF Caches
  <2>4. Sound(L)'
    BY <1>11, <2>1, <2>2, <2>3, WhileIdle
  <2> QED BY <2>4, <2>1, <1>18 DEF Idle, Left
<1>20. CASE n # None
  <2>1. n \in Chunks /\ n \in L /\ flash[n].type = "BODY" /\ Unlinked(flash, L, n)
    BY <1>5, <1>20
  <2>2. /\ job' \in RemoveJobs /\ job'.op = "remove" /\ job'.at = "erase" /\ job'.cur = n
    BY <1>2, <1>4, <1>20, <2>1 DEF RemoveJobs, Links
  <2>3. RamTypes'
    BY <1>6, <1>8, <1>16, <2>2 DEF RamTypes, JobType
  <2>4. Caches'
    BY <1>16, <1>17, <2>2 DEF Caches
  <2>5. \A d \in L : flash'[d] = flash[d]
    BY <1>6, <1>7, <1>9 DEF Live
  <2>6. ~Has(flash', n, "HEAD") /\ Unlinked(flash', L, n)
    BY <2>1, <2>5 DEF Has, Unlinked
  <2>7. RemoveInv(L)'
    BY <1>6, <1>16, <1>20, <2>1, <2>2, <2>6 DEF RemoveInv
  <2>8. Sound(L)'
    BY <1>11, <2>2, <2>3, <2>4, <2>7, WhileRemove
  <2> QED BY <2>8, <2>2, <1>18 DEF Left
<1> QED BY <1>19, <1>20

-----------------------------------------------------------------------------
(* Format and retest. *)

\* Chunks may become blank if nothing live links to them, or a format is cut short.
LEMMA BlankedParts ==
  ASSUME NEW L \in SUBSET Chunks, FlashParts(L), NEW E, NEW b \in {Erased, Torn},
         flash' = [c \in Chunks |-> IF c \in E THEN b ELSE flash[c]],
         cut \in BOOLEAN, cut' \in BOOLEAN, cut => cut',
         cut' \/ \A d \in L \ E : flash[d].next \notin E
  PROVE  FlashParts(L \ E)'
<1>1. FlashTypes /\ Blank /\ Live(flash, cut, L) /\ flash \in [Chunks -> ChunkType]
  BY DEF FlashParts, FlashTypes
<1>2. /\ FlashTypes' /\ Blank'
      /\ \A c \in Chunks \ E : SameHeader(flash', flash, c)
      /\ \A c \in Chunks \cap E : flash'[c].magic # "ok"
  <2>1. FlashTypes /\ Blank
    BY <1>1
  <2> QED BY <2>1, BlankPart
<1>3. Live(flash', cut', L \ E)
  BY <1>1, <1>2, LiveErase
<1> QED BY <1>2, <1>3 DEF FlashParts

\* What an erase that completes keeps.
LEMMA ErasedParts ==
  ASSUME NEW L \in SUBSET Chunks, FlashParts(L), NEW E, Erase(E),
         cut \in BOOLEAN, cut' \in BOOLEAN, cut => cut',
         cut' \/ \A d \in L \ E : flash[d].next \notin E
  PROVE  FlashParts(L \ E)'
BY BlankedParts DEF Erase

\* A magic number keeps it too; while a format is cut short nothing live may link
\* to its chunk.
LEMMA MagicParts ==
  ASSUME NEW L \in SUBSET Chunks, FlashParts(L), RamTypes, NEW c \in Chunks, WriteMagic(c),
         cut' = cut, cut => Unlinked(flash, L, c)
  PROVE  FlashParts(L)' /\ \A d \in L : flash'[d] = flash[d]
<1>1. FlashTypes /\ Blank /\ Live(flash, cut, L) /\ flash \in [Chunks -> ChunkType]
      /\ cut \in BOOLEAN
  BY DEF FlashParts, FlashTypes, RamTypes
<1>2. /\ FlashTypes' /\ Blank' /\ Kept(c)
      /\ flash[c].magic # "erased" => flash'[c] = flash[c]
      /\ flash[c].magic = "erased" => flash'[c] = Fresh
  BY <1>1, WriteMagicIs
<1>3. \A d \in Chunks \ {c} : SameHeader(flash', flash, d) /\ flash'[d] = flash[d]
  BY <1>2 DEF Kept, SameHeader
<1>4. CASE flash[c].magic = "erased"
  <2>1. flash[c].magic # "ok" /\ flash'[c].type = "FREE"
    BY <1>2, <1>4, BlankChunks
  <2>2. Live(flash', cut, L)
    BY <1>1, <1>3, <2>1, LiveMagic
  <2> QED BY <1>1, <1>2, <1>3, <2>1, <2>2 DEF FlashParts, Live
<1>5. CASE flash[c].magic # "erased"
  <2>1. \A d \in Chunks : SameHeader(flash', flash, d)
    BY <1>2, <1>3, <1>5 DEF SameHeader
  <2>2. Live(flash', cut, L)
    BY <1>1, <2>1, LiveSame
  <2> QED BY <1>2, <1>3, <1>5, <2>2 DEF FlashParts
<1> QED BY <1>4, <1>5

\* The chunk written last is forgotten.
LEMMA LastReset ==
  ASSUME RamTypes, vol' = [vol EXCEPT !.last = 0]
  PROVE  vol' \in [free : 0..N, files : 0..N, last : Chunks]
<1>1. 0 \in Chunks
  BY SizesAssumption DEF Chunks
<1> QED BY <1>1 DEF RamTypes

\* A format begins with the erase or with a probe.
LEMMA FormatBeginStep ==
  ASSUME NEW L \in SUBSET Chunks, Sound(L), FormatBegin
  PROVE  Left(L)
<1>1. FlashParts(L)
  BY InvGives
<1>2. PICK s \in EraseSteps, at \in {"erase", "probe"} :
        job' = [op |-> "format", step |-> s, block |-> 0, at |-> at]
  BY DEF FormatBegin
<1>3. RamTypes /\ UNCHANGED <<flash, map, cut>> /\ vol' = [vol EXCEPT !.last = 0]
  BY InvGives DEF FormatBegin
<1>4. job' \in FormatJobs /\ job'.op = "format" /\ job'.block = 0 /\ job'.at = at
  BY <1>2, SizesAssumption DEF FormatJobs
<1>5. RamTypes'
  BY <1>3, <1>4, LastReset DEF RamTypes, JobType
<1>6. FlashParts(L)'
  BY <1>1, <1>3 DEF FlashParts, FlashTypes, Blank
<1>7. FormatInv'
  BY <1>4, SizesAssumption DEF FormatInv, Chunks
<1>8. Sound(L)'
  BY <1>4, <1>5, <1>6, <1>7, WhileFormat
<1> QED BY <1>8, <1>3, <1>4 DEF Left

\* The probe damages the magic number of chunk 0.
LEMMA FormatProbeStep ==
  ASSUME NEW L \in SUBSET Chunks, Sound(L), FormatProbe
  PROVE  Left(L)
<1>1. FlashParts(L)
  BY InvGives
<1>2. /\ FlashTypes /\ RamTypes /\ Blank /\ FormatInv /\ job \in FormatJobs
      /\ job.op = "format" /\ job.at = "probe" /\ job' = [job EXCEPT !.at = "erase"]
      /\ Write(0, "magic", "junk") /\ cut' = TRUE /\ vol' = vol
  BY InvGives, JobIs DEF FormatProbe, At
<1>3. 0 \in Chunks /\ "junk" \in Magics
  BY SizesAssumption DEF Chunks, Magics
<1>4. /\ flash' \in [Chunks -> ChunkType] /\ map' \in [Chunks -> HeaderType] /\ Kept(0)
      /\ flash'[0].magic = "junk" /\ flash'[0].type = flash[0].type
      /\ flash'[0].next = flash[0].next /\ flash'[0].data = flash[0].data
  BY <1>2, <1>3, WriteMagicField
<1>5. \A d \in Chunks \ {0} : flash'[d] = flash[d]
  BY <1>4 DEF Kept
<1>6. Live(flash', TRUE, L \ {0})
  <2>1. \A d \in Chunks \ {0} : SameHeader(flash', flash, d)
    BY <1>5 DEF SameHeader
  <2>2. \A d \in Chunks \cap {0} : flash'[d].magic # "ok"
    BY <1>4
  <2>3. flash \in [Chunks -> ChunkType] /\ cut \in BOOLEAN /\ Live(flash, cut, L)
    BY <1>1, <1>2 DEF FlashTypes, RamTypes, FlashParts
  <2> QED BY <2>1, <2>2, <2>3, LiveErase
<1>7. FlashParts(L \ {0})'
  <2>1. \A d \in Chunks : Len(flash'[d].data) <= Cap(flash'[d])
    BY <1>2, <1>4, <1>5 DEF FlashTypes, Cap
  <2>2. Blank'
    BY <1>2, <1>4, <1>5 DEF Blank, Has
  <2> QED BY <1>2, <1>4, <1>6, <2>1, <2>2 DEF FlashParts, FlashTypes
<1>8. job' \in FormatJobs /\ job'.op = "format" /\ job'.block = 0 /\ job'.at = "erase"
  BY <1>2 DEF FormatInv, FormatJobs
<1>9. RamTypes'
  BY <1>2, <1>4, <1>8 DEF RamTypes, JobType
<1>10. FormatInv'
  BY <1>8, SizesAssumption DEF FormatInv, Chunks
<1>11. Sound(L \ {0})'
  BY <1>7, <1>8, <1>9, <1>10, WhileFormat
<1> QED BY <1>11, <1>5, <1>8 DEF Left

\* It erases its blocks in turn, with links to erased blocks until the last.
LEMMA FormatEraseStep ==
  ASSUME NEW L \in SUBSET Chunks, Sound(L), FormatErase
  PROVE  Left(L)
<1>1. FlashParts(L)
  BY InvGives
<1>2. /\ FlashTypes /\ RamTypes /\ Blank /\ FormatInv /\ job \in FormatJobs
      /\ job.op = "format" /\ job.at = "erase" /\ map' = map /\ vol' = vol
  BY InvGives, JobIs DEF FormatErase, At
<1>3. /\ job.block \in Nat /\ job.block < N /\ job.step \in Nat \ {0}
      /\ \A c \in Chunks : c < job.block => flash[c] = Erased
  <2>1. job.block \in 0..N /\ job.step \in EraseSteps
    BY <1>2 DEF FormatJobs
  <2>2. job.step \in 1..N
    BY <2>1, SizesAssumption
  <2> QED BY <1>2, <2>1, <2>2, SizesAssumption DEF FormatInv
<1>4. PICK n \in Nat : n = job.block + job.step
  BY <1>3
<1>5. PICK E : E = job.block .. n - 1
  OBVIOUS
<1>6. /\ Erase(E)
      /\ job' = IF n < N THEN [job EXCEPT !.block = n]
                ELSE [job EXCEPT !.at = "magic", !.block = 0]
      /\ cut' = (n < N)
  BY <1>4, <1>5 DEF FormatErase
<1>7. cut \in BOOLEAN /\ cut' \in BOOLEAN
  BY <1>2, <1>6 DEF RamTypes
<1>8. /\ FlashTypes' /\ Blank'
      /\ \A c \in Chunks : flash'[c] = IF c \in E THEN Erased ELSE flash[c]
  BY <1>2, <1>6, EraseIs
<1>9. \A c \in Chunks : c < n => flash'[c] = Erased
  BY <1>3, <1>4, <1>5, <1>8 DEF Chunks
<1>10. CASE n < N
  <2>1. FlashParts(L \ E)'
    BY <1>1, <1>6, <1>7, <1>10, ErasedParts
  <2>2. /\ job' \in FormatJobs /\ job'.op = "format" /\ job'.block = n /\ job'.at = "erase"
    <3>1. job' = [job EXCEPT !.block = n]
      BY <1>6, <1>10
    <3>2. n \in 0..N
      BY <1>10, SizesAssumption
    <3> QED BY <1>2, <3>1, <3>2 DEF FormatJobs
  <2>3. RamTypes'
    BY <1>2, <1>7, <2>2 DEF RamTypes, JobType
  <2>4. FormatInv'
    BY <1>9, <1>10, <2>2 DEF FormatInv
  <2>5. Sound(L \ E)'
    BY <2>1, <2>2, <2>3, <2>4, WhileFormat
  <2> QED BY <1>8, <2>2, <2>5 DEF Left
<1>11. CASE ~(n < N)
  <2>1. \A c \in Chunks : flash'[c] = Erased
    BY <1>4, <1>9, <1>11, SizesAssumption DEF Chunks
  <2>2. Live(flash', cut', {})
    BY <2>1, BlankChunks DEF Live, Has
  <2>3. FlashParts({})'
    BY <1>8, <2>2 DEF FlashParts
  <2>4. /\ job' \in FormatJobs /\ job'.op = "format" /\ job'.block = 0 /\ job'.at = "magic"
    <3>1. job' = [job EXCEPT !.at = "magic", !.block = 0]
      BY <1>6, <1>11
    <3>2. 0 \in 0..N
      BY SizesAssumption
    <3> QED BY <1>2, <3>1, <3>2 DEF FormatJobs
  <2>5. RamTypes'
    BY <1>2, <1>7, <2>4 DEF RamTypes, JobType
  <2>6. FormatInv'
    BY <1>6, <1>11, <2>4 DEF FormatInv
  <2>7. {} \in SUBSET Chunks
    OBVIOUS
  <2>8. Sound({})'
    BY <2>3, <2>4, <2>5, <2>6, <2>7, WhileFormat
  <2> QED BY <2>4, <2>8 DEF Left
<1> QED BY <1>10, <1>11

\* It writes the magic numbers: all blocks are erased then.
LEMMA FormatMagicStep ==
  ASSUME NEW L \in SUBSET Chunks, Sound(L), FormatMagic
  PROVE  Left(L)
<1>1. FlashParts(L)
  BY InvGives
<1>2. /\ FlashTypes /\ RamTypes /\ Blank /\ FormatInv /\ job \in FormatJobs
      /\ job.op = "format" /\ job.at = "magic" /\ job.block < N /\ WriteMagic(job.block)
      /\ job' = [job EXCEPT !.block = job.block + 1] /\ vol' = vol /\ cut' = cut /\ ~cut
  BY InvGives, JobIs DEF FormatMagic, At, FormatInv
<1>3. PICK c \in Chunks : c = job.block
  BY <1>2, SizesAssumption DEF FormatJobs, Chunks
<1>4. PICK n \in 0..N : n = job.block + 1
  BY <1>2, SizesAssumption DEF FormatJobs
<1>5. WriteMagic(c)
  BY <1>2, <1>3
<1>6. FlashParts(L)' /\ \A d \in L : flash'[d] = flash[d]
  BY <1>1, <1>2, <1>5, MagicParts
<1>7. job' \in FormatJobs /\ job'.op = "format" /\ job'.at = "magic"
  BY <1>2, <1>4 DEF FormatJobs
<1>8. map' \in [Chunks -> HeaderType]
  BY <1>2, <1>5, WriteMagicIs
<1>9. RamTypes'
  BY <1>2, <1>7, <1>8 DEF RamTypes, JobType
<1>10. FormatInv'
  BY <1>2, <1>7 DEF FormatInv
<1>11. Sound(L)'
  BY <1>6, <1>7, <1>9, <1>10, WhileFormat
<1> QED BY <1>11, <1>6, <1>7 DEF Left

\* What ends a format, a check or a retest without another write.
LEMMA MountAgain ==
  ASSUME NEW L \in SUBSET Chunks, Sound(L), UNCHANGED <<flash, cut>>, Mounted
  PROVE  Left(L)
<1>1. FlashParts(L)
  BY InvGives
<1>2. FlashParts(L)' /\ cut' \in BOOLEAN
  BY <1>1, InvGives DEF FlashParts, FlashTypes, Blank, RamTypes
<1>3. Sound(L)'
  BY <1>2, MountedStep
<1> QED BY <1>3, <1>2, MountedStep DEF Left

\* A retest notes the blocks that are neither valid nor blank, ...
LEMMA RetestBeginStep ==
  ASSUME WorkAfterCut = FALSE, NEW L \in SUBSET Chunks, Sound(L), RetestBegin
  PROVE  Left(L)
<1>1. FlashParts(L)
  BY InvGives
<1>2. /\ RamTypes /\ Caches /\ job.op = "idle" /\ ~cut
      /\ job' = [op |-> "retest", todo |-> {c \in Invalid : flash[c] # Erased}]
      /\ vol' = [vol EXCEPT !.last = 0] /\ UNCHANGED <<flash, map, cut>>
  BY InvGives DEF RetestBegin, Ready, Idle
<1>3. PICK T \in SUBSET Chunks : T = {c \in Invalid : flash[c] # Erased}
  BY DEF Invalid
<1>4. job' \in RetestJobs /\ job'.op = "retest" /\ job'.todo = T
  BY <1>2, <1>3 DEF RetestJobs
<1>5. RamTypes'
  BY <1>2, <1>4, LastReset DEF RamTypes, JobType
<1>6. FlashParts(L)'
  BY <1>1, <1>2 DEF FlashParts, FlashTypes, Blank
<1>7. \A c \in T : flash[c].magic # "ok"
  <2> SUFFICES ASSUME NEW c \in T PROVE flash[c].magic # "ok"
    OBVIOUS
  <2>1. map[c].magic # "ok" /\ map[c] = Header(flash[c])
    BY <1>2, <1>3 DEF Invalid, Caches
  <2> QED BY <2>1 DEF Header
<1>8. RetestInv'
  BY <1>2, <1>4, <1>7 DEF RetestInv
<1>9. Sound(L)'
  BY <1>4, <1>5, <1>6, <1>8, WhileRetest
<1> QED BY <1>9, <1>2, <1>4 DEF Left

\* ... erases them, ...
LEMMA RetestEraseStep ==
  ASSUME NEW L \in SUBSET Chunks, Sound(L), RetestErase
  PROVE  Left(L)
<1>1. FlashParts(L)
  BY InvGives
<1>2. /\ FlashTypes /\ RamTypes /\ RetestInv /\ job \in RetestJobs /\ job.op = "retest"
      /\ job.todo # {} /\ Erase({First(job.todo)}) /\ ~cut
      /\ job' = [job EXCEPT !.todo = job.todo \ {First(job.todo)}]
      /\ UNCHANGED <<map, vol, cut>>
  BY InvGives, JobIs DEF RetestErase, RetestInv
<1>3. job.todo \in SUBSET Chunks
  BY <1>2 DEF RetestJobs
<1>4. PICK c \in Chunks : c = First(job.todo) /\ c \in job.todo
  BY <1>2, <1>3, FirstIs
<1>5. Erase({c}) /\ flash[c].magic # "ok"
  BY <1>2, <1>4 DEF RetestInv
<1>6. cut = FALSE /\ cut' = FALSE
  BY <1>2 DEF RamTypes
<1>7. FlashParts(L \ {c})'
  <2>1. Live(flash, FALSE, L)
    BY <1>1, <1>6 DEF FlashParts
  <2>2. \A d \in L : flash[d].next # c
    <3>1. c \notin L /\ c # None
      BY <1>5, <2>1 DEF Live, Chunks, None
    <3> QED BY <2>1, <3>1 DEF Live
  <2> QED BY <1>1, <1>5, <1>6, <2>2, ErasedParts
<1>8. job' \in RetestJobs /\ job'.op = "retest" /\ job'.todo = job.todo \ {c}
  BY <1>2, <1>3, <1>4 DEF RetestJobs
<1>9. RamTypes'
  BY <1>2, <1>8 DEF RamTypes, JobType
<1>10. \A d \in Chunks \ {c} : flash'[d] = flash[d]
  BY <1>2, <1>5, EraseIs
<1>11. RetestInv'
  BY <1>2, <1>3, <1>6, <1>8, <1>10 DEF RetestInv
<1>12. Sound(L \ {c})'
  BY <1>7, <1>8, <1>9, <1>11, WhileRetest
<1> QED BY <1>12, <1>8, <1>10 DEF Left

\* ... and gives every block without one a magic number.
LEMMA RetestMagicStep ==
  ASSUME NEW L \in SUBSET Chunks, Sound(L), RetestMagic
  PROVE  Left(L)
<1>1. FlashParts(L)
  BY InvGives
<1>2. /\ FlashTypes /\ RamTypes /\ RetestInv /\ job \in RetestJobs /\ job.op = "retest"
      /\ job.todo = {} /\ WriteMagic(First(Invalid)) /\ Invalid # {}
      /\ UNCHANGED <<vol, job, cut>> /\ ~cut
  BY InvGives, JobIs DEF RetestMagic, RetestInv
<1>3. Invalid \in SUBSET Chunks
  BY DEF Invalid
<1>4. PICK c \in Chunks : c = First(Invalid)
  BY <1>2, <1>3, FirstIs
<1>5. WriteMagic(c)
  BY <1>2, <1>4
<1>6. FlashParts(L)' /\ map' \in [Chunks -> HeaderType] /\ \A d \in L : flash'[d] = flash[d]
  BY <1>1, <1>2, <1>5, MagicParts, WriteMagicIs
<1>7. RamTypes'
  BY <1>2, <1>6 DEF RamTypes
<1>8. RetestInv'
  BY <1>2 DEF RetestInv
<1>9. Sound(L)'
  BY <1>2, <1>6, <1>7, <1>8, WhileRetest
<1> QED BY <1>9, <1>2, <1>6 DEF Left

\* The power may go at any time.
LEMMA PowerLossStep ==
  ASSUME NEW L \in SUBSET Chunks, Sound(L), PowerLoss
  PROVE  Left(L)
<1>1. FlashParts(L) /\ RemoveInv(L) /\ FixAt(L)
  BY InvGives
<1>2. /\ FlashTypes /\ RamTypes /\ Blank /\ job' = Off /\ vol' = NoVol /\ map' = NoMap
      /\ RetestInv /\ cut \in BOOLEAN
  BY InvGives DEF PowerLoss, RamTypes
<1>3. ASSUME cut' \in BOOLEAN PROVE RamTypes'
  <2>1. vol' \in [free : 0..N, files : 0..N, last : Chunks]
    BY <1>2, SizesAssumption DEF NoVol, Chunks
  <2>2. map' \in [Chunks -> HeaderType]
    BY <1>2, BlankChunks DEF NoMap
  <2> QED BY <1>2, <1>3, <2>1, <2>2 DEF RamTypes, JobType
<1>4. CASE UNCHANGED <<flash, cut>>
  <2>1. FlashParts(L)'
    BY <1>1, <1>4 DEF FlashParts, FlashTypes, Blank
  <2>2. Sound(L)'
    BY <1>2, <1>3, <1>4, <2>1, WhileOff
  <2> QED BY <1>2, <1>4, <2>2 DEF Off, Left
<1>5. CASE /\ BeingErased # {}
           /\ flash' = [c \in Chunks |-> IF c \in BeingErased THEN Torn ELSE flash[c]]
           /\ cut' = (cut \/ job.op = "format")
  <2>1. PICK E : E = BeingErased
    OBVIOUS
  <2>2. flash' = [c \in Chunks |-> IF c \in E THEN Torn ELSE flash[c]]
    BY <1>5, <2>1
  <2>3. cut' \in BOOLEAN /\ (cut => cut')
    BY <1>2, <1>5
  <2>4. cut' \/ \A d \in L \ E : flash[d].next \notin E
    <3>1. CASE At("remove", "erase") \/ At("fix", "erase")
      <4>1. E = {job.cur} /\ job.op # "retest"
        BY <2>1, <3>1 DEF BeingErased, At
      <4>2. Unlinked(flash, L, job.cur)
        BY <1>1, <3>1 DEF RemoveInv, FixAt, At
      <4> QED BY <4>1, <4>2 DEF Unlinked
    <3>2. CASE job.op = "retest"
      <4>1. job.todo # {} /\ E = {First(job.todo)}
        BY <1>5, <2>1, <3>2 DEF BeingErased, At
      <4>2. First(job.todo) \in job.todo /\ job.todo \in SUBSET Chunks
        BY <1>2, <3>2, <4>1, JobIs, FirstIs DEF RetestJobs
      <4>3. flash[First(job.todo)].magic # "ok" /\ ~cut
        BY <1>2, <3>2, <4>2 DEF RetestInv
      <4>4. First(job.todo) \notin L /\ First(job.todo) # None /\ Live(flash, cut, L)
        BY <1>1, <4>2, <4>3 DEF FlashParts, Live, Chunks, None
      <4>5. \A d \in L : flash[d].next # First(job.todo)
        BY <4>3, <4>4 DEF Live
      <4> QED BY <4>1, <4>5
    <3>3. CASE At("format", "erase")
      BY <1>5, <3>3 DEF At
    <3>4. CASE ~(At("remove", "erase") \/ At("fix", "erase")) /\ job.op # "retest"
               /\ ~At("format", "erase")
      BY <1>5, <3>4 DEF BeingErased
    <3> QED BY <3>1, <3>2, <3>3, <3>4
  <2>5. FlashParts(L \ E)'
    BY <1>1, <1>2, <2>2, <2>3, <2>4, BlankedParts
  <2>6. Sound(L \ E)'
    BY <1>2, <1>3, <2>3, <2>5, WhileOff
  <2> QED BY <1>2, <2>2, <2>6 DEF Off, Left
<1> QED BY <1>4, <1>5 DEF PowerLoss

-----------------------------------------------------------------------------
(* Repair. *)

\* A chunk with a true header in the map.
LEMMA SameInMap ==
  ASSUME NEW c, map[c] = Header(flash[c])
  PROVE  /\ map[c].next = flash[c].next /\ map[c].type = flash[c].type
         /\ map[c].magic = flash[c].magic
         /\ \A t : Is(c, t) <=> Has(flash, c, t)
BY DEF Header, Is, Has

\* The live chunks a scan starts with: heads, and bodies it has referred to.
LEMMA FixBeginStep ==
  ASSUME NEW L \in SUBSET Chunks, Sound(L), FixBegin
  PROVE  Left(L)
<1>1. FlashParts(L)
  BY InvGives
<1>2. /\ FlashTypes /\ RamTypes /\ Blank /\ Caches /\ job.op = "idle"
      /\ job' = [op |-> "fix", at |-> "visit", refs |-> References, block |-> 0,
                 cur |-> 0, chain |-> FALSE, next |-> None]
      /\ vol' = [vol EXCEPT !.last = 0] /\ UNCHANGED <<flash, map, cut>>
  BY InvGives DEF FixBegin, Idle
<1>3. PICK R \in SUBSET Chunks : R = References
  BY DEF References, Linked
<1>4. PICK M \in SUBSET L : M = {c \in L : flash[c].type = "HEAD" \/ c \in R}
  OBVIOUS
<1>5. /\ job' \in FixJobs /\ job'.op = "fix" /\ job'.at = "visit" /\ job'.refs = R
      /\ job'.block = 0
  BY <1>2, <1>3, SizesAssumption DEF FixJobs, Chunks, Links
<1>6. RamTypes'
  BY <1>2, <1>5, LastReset DEF RamTypes, JobType
<1>7. /\ Live(flash, cut, L) /\ M \in SUBSET Chunks
      /\ \A c \in Chunks : map[c] = Header(flash[c])
  BY <1>1, <1>2, <1>4 DEF FlashParts, Caches
<1>8. ASSUME NEW c \in M, flash[c].next \in L, flash[flash[c].next].type = "BODY"
      PROVE  flash[c].next \in M
  <2>1. PICK n \in L : n = flash[c].next
    BY <1>8
  <2>2. c \in Chunks /\ n \in Chunks /\ flash[n].magic = "ok" /\ flash[n].type = "BODY"
    BY <1>4, <1>7, <1>8, <2>1 DEF Live
  <2>3. map[c].next = n /\ Is(n, "BODY") /\ n # None
    BY <1>7, <2>1, <2>2, SameInMap DEF Has, Chunks, None
  <2>4. LinksToBody(c)
    BY <2>3 DEF LinksToBody
  <2>5. \E h \in Heads : c \in {h} \cup Linked(h)
    <3>1. CASE flash[c].type = "HEAD"
      <4>1. Has(flash, c, "HEAD")
        BY <1>4, <1>7, <3>1 DEF Live, Has
      <4>2. c \in Heads
        BY <1>7, <2>2, <4>1, SameInMap DEF Heads
      <4> QED BY <4>2
    <3>2. CASE c \in R
      BY <1>3, <3>2 DEF References
    <3> QED BY <1>4, <3>1, <3>2
  <2>6. \E h \in Heads : n \in Linked(h)
    BY <2>2, <2>3, <2>4, <2>5, LinkedClosed
  <2>7. n \in References
    BY <2>6 DEF References
  <2> QED BY <1>3, <1>4, <2>1, <2>7
<1>9. Live(flash, cut, M)
  <2>1. \A c \in Chunks : Has(flash, c, "HEAD") => c \in M
    BY <1>4, <1>7 DEF Live, Has
  <2>2. \A c \in M : flash[c].magic = "ok" /\ flash[c].type # "FREE"
    BY <1>4, <1>7 DEF Live
  <2>3. ASSUME NEW c \in M, flash[c].next # None
        PROVE  \/ flash[c].next \in M /\ flash[flash[c].next].type = "BODY"
               \/ cut /\ flash[flash[c].next].magic # "ok"
    BY <1>4, <1>7, <1>8, <2>3 DEF Live
  <2>4. \A c, d \in M : flash[c].next # None /\ flash[c].next = flash[d].next => c = d
    BY <1>4, <1>7 DEF Live
  <2> QED BY <1>7, <2>1, <2>2, <2>3, <2>4 DEF Live
<1>10. FlashParts(M)'
  BY <1>1, <1>2, <1>9 DEF FlashParts, FlashTypes, Blank
<1>11. FixMap(M)'
  <2>1. \A c \in Chunks : map[c].magic # "ok" /\ c # 0 => map[c].type = "FREE"
    <3> SUFFICES ASSUME NEW c \in Chunks, map[c].magic # "ok", c # 0
                 PROVE  map[c].type = "FREE"
      OBVIOUS
    <3>1. flash[c].magic # "ok" /\ map[c].type = flash[c].type
      BY <1>7, SameInMap
    <3>2. flash[c].magic \in {"erased", "junk"}
      BY <1>2, <3>1 DEF FlashTypes, ChunkType, Magics
    <3>3. flash[c] = Erased \/ flash[c] = Torn
      BY <1>2, <3>2 DEF Blank
    <3> QED BY <3>1, <3>3, BlankChunks
  <2>2. \A c \in Chunks : Is(c, "HEAD") => c \in M
    BY <1>7, <1>9, SameInMap DEF Live
  <2>3. \A c \in Chunks : (map[c].magic = "ok") <=> (flash[c].magic = "ok")
    BY <1>7, SameInMap
  <2> QED BY <1>2, <1>5, <1>7, <2>1, <2>2, <2>3 DEF FixMap, Is
<1>12. ASSUME NEW h \in Heads PROVE h \in M /\ Linked(h) \subseteq M
  <2>1. h \in Chunks /\ h \in M
    <3>1. h \in Chunks /\ Has(flash, h, "HEAD")
      BY <1>7, SameInMap DEF Heads
    <3> QED BY <3>1, <1>9 DEF Live
  <2>2. ASSUME NEW c \in {h} \cup L, LinksToBody(c) PROVE map[c].next \in L
    <3>1. c \in L /\ c \in Chunks
      BY <1>4, <2>1
    <3>2. map[c].next = flash[c].next /\ flash[c].next # None /\ Is(flash[c].next, "BODY")
      BY <1>7, <2>2, <3>1, SameInMap DEF LinksToBody
    <3>3. flash[c].next \in Chunks
      BY <1>2, <3>1, <3>2 DEF FlashTypes, ChunkType, Links
    <3>4. flash[flash[c].next].magic = "ok"
      BY <1>7, <3>2, <3>3, SameInMap DEF Has
    <3> QED BY <1>7, <3>1, <3>2, <3>4 DEF Live
  <2>3. Linked(h) \subseteq L
    BY <2>2, LinkedLeast DEF Closed
  <2>4. Linked(h) \subseteq R
    BY <1>3 DEF References
  <2> QED BY <1>4, <2>1, <2>3, <2>4
<1>13. FixFiles(M)'
  <2>1. ASSUME NEW c \in M, flash[c].type = "BODY"
        PROVE  c \in R /\ \E p \in M : flash[p].next = c
    <3>1. c \in R
      BY <1>4, <2>1
    <3>2. PICK h \in Heads : c \in Linked(h)
      BY <1>3, <3>1 DEF References
    <3>3. h \in Chunks /\ map \in [Chunks -> HeaderType]
      BY <1>2 DEF Heads, RamTypes
    <3>4. PICK p \in {h} \cup Linked(h) : map[p].next = c
      BY <3>2, <3>3, LinkedFrom
    <3>5. p \in M /\ p \in Chunks
      BY <1>7, <1>12, <3>2
    <3> QED BY <1>7, <3>1, <3>4, <3>5, SameInMap
  <2>2. \A c \in Chunks : ~(c < 0)
    BY DEF Chunks
  <2>3. \A c \in R : c \in M
    BY <1>3, <1>12 DEF References
  <2> QED BY <1>2, <1>5, <1>7, <2>1, <2>2, <2>3 DEF FixFiles, Unlinked
<1>14. FixAt(M)'
  BY <1>5 DEF FixAt
<1>15. Sound(M)'
  BY <1>5, <1>6, <1>7, <1>10, <1>11, <1>13, <1>14, WhileFix
<1> QED BY <1>15, <1>2, <1>4, <1>5 DEF Left

\* The size of a good file has been written.
LEMMA GoodSize ==
  ASSUME NEW h \in Chunks, Good(h)
  PROVE  flash[h].size # None
<1>1. PICK m : flash[h].size \in 0 .. m
  BY DEF Good
<1> QED BY <1>1 DEF None

\* The repair picks the first block that needs it.
LEMMA FixVisitStep ==
  ASSUME NEW L \in SUBSET Chunks, Sound(L), FixVisit
  PROVE  Left(L)
<1>1. FlashParts(L) /\ FixMap(L) /\ FixFiles(L)
  BY InvGives
<1>2. /\ FlashTypes /\ RamTypes /\ Blank /\ job \in FixJobs /\ job.op = "fix" /\ job.at = "visit"
      /\ Faults # {} /\ UNCHANGED <<flash, map, vol, cut>>
      /\ job' = [job EXCEPT !.at = "erase", !.block = First(Faults), !.cur = First(Faults),
                            !.chain = BadHead(First(Faults))]
  BY InvGives, JobIs DEF FixVisit, At
<1>3. Faults \in SUBSET Chunks
  BY <1>2 DEF Faults, Chunks, FixJobs
<1>4. PICK b \in Faults : b = First(Faults) /\ \A c \in Faults : b <= c
  BY <1>2, <1>3, FirstIs
<1>5. /\ b \in Chunks /\ b >= job.block /\ b < N /\ (BadHead(b) \/ IsLost(b))
      /\ job.block \in 0..N
  <2>1. job.block \in 0..N
    BY <1>2 DEF FixJobs
  <2>2. b \in job.block .. N - 1 /\ (BadHead(b) \/ IsLost(b)) /\ b \in Chunks
    BY <1>3 DEF Faults
  <2> QED BY <2>1, <2>2, SizesAssumption
<1>6. PICK ch \in BOOLEAN : ch = BadHead(b)
  BY DEF BadHead, Is
<1>7. /\ job' \in FixJobs /\ job'.op = "fix" /\ job'.at = "erase" /\ job'.block = b
      /\ job'.cur = b /\ job'.chain = ch /\ job'.refs = job.refs
  <2>1. job' = [job EXCEPT !.at = "erase", !.block = b, !.cur = b, !.chain = ch]
    BY <1>2, <1>4, <1>6
  <2>2. b \in 0..N
    BY <1>5, SizesAssumption DEF Chunks
  <2> QED BY <1>2, <1>5, <2>1, <2>2 DEF FixJobs
<1>8. RamTypes'
  BY <1>2, <1>7 DEF RamTypes, JobType
<1>9. FlashParts(L)'
  BY <1>1, <1>2 DEF FlashParts, FlashTypes, Blank
<1>10. /\ Live(flash, cut, L)
       /\ \A c \in L : map[c] = Header(flash[c]) /\ c \in Chunks
       /\ \A c \in Chunks : (map[c].magic = "ok") <=> (flash[c].magic = "ok")
       /\ \A c \in Chunks : map[c].magic # "ok" /\ c # 0 => map[c].type = "FREE"
       /\ \A c \in Chunks : flash[c].magic = "ok" /\ flash[c].type # "FREE" =>
            map[c] = Header(flash[c])
       /\ \A c \in Chunks : Is(c, "HEAD") /\ c >= job.block => c \in L
  <2>1. Live(flash, cut, L)
    BY <1>1 DEF FlashParts
  <2>2. \A c \in Chunks : Is(c, "HEAD") /\ c >= job.block => c \in L
    BY <1>1, <1>2, <1>5 DEF FixMap, Chunks
  <2> QED BY <1>1, <1>2, <2>1, <2>2 DEF FixMap, Live
<1>11. FixMap(L)'
  <2>1. \A c \in Chunks : c > b => c >= job.block
    BY <1>5 DEF Chunks
  <2> QED BY <1>2, <1>7, <1>10, <2>1 DEF FixMap, Is
<1>12. FixFiles(L)'
  <2>1. \A c \in L : flash[c].type = "BODY" => c \in job.refs /\ ~Unlinked(flash, L, c)
    <3>1. \A c \in L : c # None
      BY DEF Chunks, None
    <3> QED BY <1>1, <1>2, <3>1 DEF FixFiles, NextBad
  <2>2. ASSUME NEW c \in L, flash[c].type = "HEAD", c < b
        PROVE  GoodLinks(c) /\ flash[c].size # None
    <3>1. CASE c < job.block
      BY <1>1, <1>2, <2>2, <3>1 DEF FixFiles
    <3>2. CASE ~(c < job.block)
      <4>1. c \in Chunks /\ c \notin Faults
        BY <1>4, <1>3, <1>5, <1>10, <2>2 DEF Chunks
      <4>2. c \in job.block .. N - 1
        BY <1>5, <3>2, <4>1 DEF Chunks
      <4>3. ~BadHead(c)
        BY <4>1, <4>2 DEF Faults
      <4>4. Is(c, "HEAD")
        BY <1>10, <2>2, SameInMap DEF Live, Has
      <4>5. Good(c)
        BY <4>3, <4>4 DEF BadHead
      <4>6. GoodLinks(c)
        BY <4>5 DEF Good, GoodLinks, LinksToBody
      <4> QED BY <4>1, <4>5, <4>6, GoodSize
    <3> QED BY <3>1, <3>2
  <2>3. \A c \in L : flash[c].type = "HEAD" /\ c < b => GoodLinks(c)'
    BY <1>2, <2>2 DEF GoodLinks, Linked, Closed, LinksToBody, Is
  <2>4. ASSUME NEW c \in Chunks, Has(flash, c, "BODY"), c < b \/ c \in job.refs PROVE c \in L
    <3>1. CASE c < job.block \/ c \in job.refs
      BY <1>1, <1>2, <2>4, <3>1 DEF FixFiles
    <3>2. CASE ~(c < job.block) /\ c \notin job.refs
      <4>1. c \in job.block .. N - 1 /\ c \notin Faults
        BY <1>3, <1>4, <1>5, <2>4, <3>2 DEF Chunks
      <4>2. Is(c, "BODY")
        BY <1>10, <2>4, SameInMap DEF Has
      <4> QED BY <3>2, <4>1, <4>2 DEF Faults, IsLost
    <3> QED BY <3>1, <3>2
  <2>5. \A c \in L : flash[c].type = "HEAD" /\ c < b => flash[c].size # None
    BY <2>2
  <2> QED BY <1>2, <1>7, <2>1, <2>3, <2>4, <2>5 DEF FixFiles, Unlinked
<1>13. Unlinked(flash, L, b)
  <2> SUFFICES ASSUME NEW d \in L, flash[d].next = b PROVE FALSE
    BY DEF Unlinked
  <2>1. b # None
    BY <1>5 DEF Chunks, None
  <2>2. map[b].magic = "ok"
    BY <1>5 DEF BadHead, IsLost, Is
  <2>3. flash[b].magic = "ok"
    BY <1>5, <1>10, <2>2
  <2>4. b \in L /\ flash[b].type = "BODY"
    BY <1>10, <2>1, <2>3 DEF Live
  <2>5. map[b].type = "BODY" /\ b \in job.refs
    BY <1>1, <1>2, <1>10, <2>4, SameInMap DEF FixFiles
  <2> QED BY <1>5, <2>5 DEF BadHead, IsLost, Is
<1>14. FixAt(L)'
  <2>1. ch => b \in L
    BY <1>5, <1>6, <1>10 DEF BadHead
  <2>2. b \in L => ch
    <3>1. ASSUME b \in L, ~BadHead(b) PROVE FALSE
      <4>1. IsLost(b) /\ map[b] = Header(flash[b])
        BY <1>5, <1>10, <3>1
      <4>2. flash[b].type = "BODY"
        BY <4>1, SameInMap DEF IsLost, Has
      <4> QED BY <1>1, <1>2, <3>1, <4>1, <4>2 DEF FixFiles, IsLost
    <3> QED BY <1>6, <3>1
  <2> QED BY <1>2, <1>5, <1>7, <1>13, <2>1, <2>2 DEF FixAt, Unlinked
<1>15. Sound(L)'
  BY <1>7, <1>8, <1>9, <1>11, <1>12, <1>14, WhileFix
<1> QED BY <1>15, <1>2, <1>7 DEF Left

\* It erases a chunk and notes the link the map has.
LEMMA FixEraseStep ==
  ASSUME NEW L \in SUBSET Chunks, Sound(L), FixErase
  PROVE  Left(L)
<1>1. FlashParts(L) /\ FixMap(L) /\ FixFiles(L) /\ FixAt(L)
  BY InvGives
<1>2. /\ FlashTypes /\ RamTypes /\ Blank /\ job \in FixJobs /\ job.op = "fix" /\ job.at = "erase"
      /\ Erase({job.cur}) /\ UNCHANGED <<map, vol, cut>>
      /\ job' = [job EXCEPT !.at = "magic",
                            !.next = IF job.chain /\ map[job.cur].magic = "ok"
                                     THEN map[job.cur].next ELSE None]
  BY InvGives, JobIs DEF FixErase, At
<1>3. PICK c \in Chunks : c = job.cur
  BY <1>2 DEF FixJobs
<1>4. PICK n \in Links : n = IF job.chain /\ map[c].magic = "ok" THEN map[c].next ELSE None
  BY <1>2 DEF RamTypes, HeaderType, Links
<1>5. Erase({c}) /\ job' = [job EXCEPT !.at = "magic", !.next = n]
  BY <1>2, <1>3, <1>4
<1>6. /\ job' \in FixJobs /\ job'.op = "fix" /\ job'.at = "magic" /\ job'.cur = c
      /\ job'.next = n /\ job'.chain = job.chain /\ job'.refs = job.refs /\ job'.block = job.block
  BY <1>2, <1>3, <1>5 DEF FixJobs
<1>7. RamTypes'
  BY <1>2, <1>6 DEF RamTypes, JobType
<1>8. /\ job.block < N /\ Unlinked(flash, L, c)
      /\ flash[job.block].magic = "ok" /\ flash[job.block].type # "FREE" => job.block = c
      /\ c = job.block \/ ~Is(c, "HEAD")
      /\ job.chain => c \in L \/ map[c].magic # "ok"
      /\ c \in L => job.chain
  BY <1>1, <1>2, <1>3 DEF FixAt
<1>9. /\ Live(flash, cut, L) /\ cut \in BOOLEAN
      /\ \A d \in L : map[d] = Header(flash[d])
      /\ \A d \in Chunks : (map[d].magic = "ok") <=> (flash[d].magic = "ok")
  <2>1. Live(flash, cut, L)
    BY <1>1 DEF FlashParts
  <2> QED BY <1>1, <1>2, <2>1 DEF FixMap, Live, RamTypes
<1>10. FlashParts(L \ {c})'
  <2>1. \A d \in L \ {c} : flash[d].next \notin {c}
    BY <1>8 DEF Unlinked
  <2> QED BY <1>1, <1>2, <1>5, <1>9, <2>1, ErasedParts
<1>11. flash'[c] = Erased /\ \A d \in Chunks \ {c} : flash'[d] = flash[d]
  BY <1>2, <1>5, EraseIs
<1>12. FixMap(L \ {c})'
  <2>1. \A d \in Chunks : flash'[d].magic = "ok" /\ flash'[d].type # "FREE" =>
          map[d] = Header(flash'[d])
    <3>1. \A d \in Chunks \ {c} : flash'[d].magic = "ok" /\ flash'[d].type # "FREE" =>
            map[d] = Header(flash'[d])
      BY <1>1, <1>2, <1>11 DEF FixMap
    <3> QED BY <3>1, <1>11, BlankChunks
  <2>2. \A d \in Chunks : (map[d].magic = "ok") # (flash'[d].magic = "ok") => d = c
    BY <1>9, <1>11
  <2>3. \A d \in Chunks : map[d].magic # "ok" /\ d # 0 => map[d].type = "FREE"
    BY <1>1, <1>2 DEF FixMap
  <2>4. ASSUME NEW d \in Chunks, Is(d, "HEAD"), d > job.block PROVE d \in L \ {c}
    <3>1. d \in L
      BY <1>1, <1>2, <2>4 DEF FixMap
    <3>2. d # c
      BY <1>8, <2>4 DEF Chunks
    <3> QED BY <3>1, <3>2
  <2> QED BY <1>2, <1>6, <2>1, <2>2, <2>3, <2>4 DEF FixMap, Is
<1>13. FixFiles(L \ {c})'
  <2>1. \A d \in L \ {c} : flash'[d] = flash[d]
    BY <1>11
  <2>2. \A d \in L : flash[d].type = "HEAD" /\ d < job.block => GoodLinks(d)'
    BY <1>1, <1>2 DEF FixFiles, GoodLinks, Linked, Closed, LinksToBody, Is
  <2>3. ASSUME NEW d \in L \ {c}, flash'[d].type = "BODY"
        PROVE  d \in job.refs /\ (d = n \/ ~Unlinked(flash', L \ {c}, d))
    <3>1. d \in job.refs /\ ~Unlinked(flash, L, d)
      BY <1>1, <1>2, <1>3, <2>1, <2>3 DEF FixFiles, NextBad
    <3>2. PICK p \in L : flash[p].next = d
      BY <3>1 DEF Unlinked
    <3>3. CASE p # c
      BY <2>1, <3>1, <3>2, <3>3 DEF Unlinked
    <3>4. CASE p = c
      <4>1. flash[c].magic = "ok" /\ map[c] = Header(flash[c]) /\ job.chain
        BY <1>8, <1>9, <3>4 DEF Live
      <4>2. n = flash[c].next
        BY <1>4, <4>1, SameInMap
      <4> QED BY <3>1, <3>2, <3>4, <4>2
    <3> QED BY <3>3, <3>4
  <2>4. ASSUME NEW d \in Chunks, Has(flash', d, "BODY"), d < job.block \/ d \in job.refs
        PROVE  d \in L \ {c}
    <3>1. d # c
      BY <1>11, <2>4, BlankChunks DEF Has
    <3>2. Has(flash, d, "BODY")
      BY <1>11, <2>4, <3>1 DEF Has
    <3> QED BY <1>1, <1>2, <2>4, <3>1, <3>2 DEF FixFiles
  <2>5. \A d \in L \ {c} : flash'[d].type = "HEAD" /\ d < job.block =>
          GoodLinks(d)' /\ flash'[d].size # None
    BY <1>1, <1>2, <2>1, <2>2 DEF FixFiles
  <2> QED BY <1>6, <2>3, <2>4, <2>5 DEF FixFiles, NextBad
<1>14. ASSUME n # None
       PROVE  /\ job.chain /\ Unlinked(flash', L \ {c}, n) /\ n # c
              /\ \/ n \in L \ {c} /\ flash'[n].type = "BODY"
                 \/ map[n].magic # "ok"
  <2>1. c \in L /\ n \in Chunks /\ n = flash[c].next
    <3>1. c \in L /\ n = map[c].next
      BY <1>4, <1>8, <1>14
    <3> QED BY <1>4, <1>9, <1>14, <3>1, SameInMap DEF Links
  <2>2. n # c
    BY <1>8, <2>1 DEF Unlinked
  <2>3. \A d \in L \ {c} : flash[d].next # n
    BY <1>9, <1>14, <2>1 DEF Live
  <2>4. Unlinked(flash', L \ {c}, n)
    BY <1>11, <2>3 DEF Unlinked
  <2>5. \/ n \in L /\ flash[n].type = "BODY"
        \/ flash[n].magic # "ok"
    BY <1>9, <1>14, <2>1 DEF Live
  <2>6. job.chain
    BY <1>4, <1>14
  <2> QED BY <1>9, <1>11, <2>1, <2>2, <2>4, <2>5, <2>6
<1>15. Unlinked(flash', L \ {c}, c)
  BY <1>8, <1>11 DEF Unlinked
<1>16. ~(flash'[job.block].magic = "ok" /\ flash'[job.block].type # "FREE")
  <2>1. job.block \in Chunks
    <3>1. job.block \in 0..N /\ job.block < N
      BY <1>2, <1>8 DEF FixJobs
    <3> QED BY <3>1, SizesAssumption DEF Chunks
  <2> QED BY <1>8, <1>11, <2>1, BlankChunks
<1>17. FixAt(L \ {c})'
  BY <1>2, <1>6, <1>8, <1>11, <1>14, <1>15, <1>16 DEF FixAt
<1>18. L \ {c} \in SUBSET Chunks
  OBVIOUS
<1>19. Sound(L \ {c})'
  BY <1>6, <1>7, <1>10, <1>12, <1>13, <1>17, <1>18, WhileFix
<1> QED BY <1>19, <1>6, <1>11 DEF Left

\* The magic number, and the next chunk of the file that is erased.
LEMMA FixMagicStep ==
  ASSUME NEW L \in SUBSET Chunks, Sound(L), FixMagic
  PROVE  Left(L)
<1>1. FlashParts(L) /\ FixMap(L) /\ FixFiles(L) /\ FixAt(L)
  BY InvGives
<1>2. /\ FlashTypes /\ RamTypes /\ Blank /\ job \in FixJobs /\ job.op = "fix" /\ job.at = "magic"
      /\ WriteMagic(job.cur) /\ UNCHANGED <<vol, cut>>
  BY InvGives, JobIs DEF FixMagic, At
<1>3. PICK c \in Chunks, n \in Links : c = job.cur /\ n = job.next
  BY <1>2 DEF FixJobs
<1>4. PICK more \in BOOLEAN :
        more = IF n = None THEN FALSE ELSE map[n].magic = "ok" => map[n].type = "BODY"
  OBVIOUS
<1>5. job' = IF more THEN [job EXCEPT !.at = "erase", !.cur = n, !.next = None]
             ELSE [job EXCEPT !.at = "visit", !.block = job.block + 1,
                              !.cur = 0, !.chain = FALSE, !.next = None]
  BY <1>3, <1>4 DEF FixMagic
<1>6. /\ job.block < N /\ Unlinked(flash, L, c) /\ flash[c] = Erased
      /\ ~(flash[job.block].magic = "ok" /\ flash[job.block].type # "FREE")
      /\ n # None => /\ job.chain /\ Unlinked(flash, L, n) /\ n # c
                     /\ \/ n \in L /\ flash[n].type = "BODY"
                        \/ map[n].magic # "ok"
  BY <1>1, <1>2, <1>3 DEF FixAt
<1>7. PICK k \in 0..N : k = job.block
  BY <1>2 DEF FixJobs
<1>8. WriteMagic(c)
  BY <1>2, <1>3
<1>9. FlashParts(L)' /\ Live(flash, cut, L)
  BY <1>1, <1>2, <1>6, <1>8, MagicParts DEF FlashParts
<1>10. flash[c].magic = "erased" /\ c \notin L
  BY <1>6, <1>9, BlankChunks DEF Live
<1>11. /\ map' \in [Chunks -> HeaderType] /\ Kept(c) /\ flash'[c] = Fresh
       /\ map'[c].magic = "ok" /\ map'[c].type = map[c].type /\ map'[c].next = map[c].next
  BY <1>2, <1>8, <1>10, WriteMagicIs
<1>12. \A d \in Chunks \ {c} : flash'[d] = flash[d] /\ map'[d] = map[d]
  BY <1>11 DEF Kept
<1>13. \A d \in L : flash'[d] = flash[d] /\ d # c
  BY <1>10, <1>12
<1>14. /\ \A d \in Chunks : flash'[d].magic = "ok" /\ flash'[d].type # "FREE" =>
            map'[d] = Header(flash'[d])
       /\ \A d \in Chunks : (map'[d].magic = "ok") <=> (flash'[d].magic = "ok")
       /\ \A d \in Chunks : map'[d].magic # "ok" /\ d # 0 => map'[d].type = "FREE"
  <2>1. \A d \in Chunks \ {c} : /\ flash[d].magic = "ok" /\ flash[d].type # "FREE" =>
                                     map[d] = Header(flash[d])
                                /\ (map[d].magic = "ok") <=> (flash[d].magic = "ok")
                                /\ map[d].magic # "ok" /\ d # 0 => map[d].type = "FREE"
    BY <1>1, <1>2, <1>3 DEF FixMap
  <2>2. flash'[c].magic = "ok" /\ flash'[c].type = "FREE"
    BY <1>11, BlankChunks
  <2> QED BY <1>11, <1>12, <2>1, <2>2
<1>15. \A d \in Chunks : Is(d, "HEAD")' /\ d > k => d \in L
  <2> SUFFICES ASSUME NEW d \in Chunks, Is(d, "HEAD")', d > k PROVE d \in L
    OBVIOUS
  <2>1. CASE d # c
    <3>1. Is(d, "HEAD")
      BY <1>12, <2>1 DEF Is
    <3> QED BY <1>1, <1>2, <1>7, <3>1 DEF FixMap
  <2>2. CASE d = c
    <3>1. map[c].type = "HEAD" /\ c # 0
      BY <1>7, <1>11, <2>2 DEF Is
    <3>2. map[c].magic = "ok"
      BY <1>1, <1>2, <3>1 DEF FixMap
    <3>3. Is(c, "HEAD")
      BY <3>1, <3>2 DEF Is
    <3> QED BY <1>1, <1>2, <1>7, <2>2, <3>3 DEF FixMap
  <2> QED BY <2>1, <2>2
<1>16. \A d \in L : flash'[d].type = "HEAD" /\ d < k + 1 => GoodLinks(d)' /\ flash'[d].size # None
  <2> SUFFICES ASSUME NEW d \in L, flash'[d].type = "HEAD", d < k + 1
               PROVE  GoodLinks(d)' /\ flash'[d].size # None
    OBVIOUS
  <2>1. flash[d].type = "HEAD" /\ d \in Chunks
    BY <1>13
  <2>2. d # k
    BY <1>6, <1>7, <1>9, <2>1 DEF Live
  <2>3. d < k
    BY <1>7, <2>1, <2>2 DEF Chunks
  <2>4. GoodLinks(d) /\ flash'[d].size # None
    BY <1>1, <1>2, <1>7, <1>13, <2>1, <2>3 DEF FixFiles
  <2>5. \A x \in Chunks : /\ map'[x].next = map[x].next /\ map'[x].type = map[x].type
                          /\ map[x].magic = "ok" => map'[x].magic = "ok"
    BY <1>11, <1>12
  <2>6. map \in [Chunks -> HeaderType]
    BY <1>2 DEF RamTypes
  <2> QED BY <2>1, <2>4, <2>5, <2>6, GoodLinksStay
<1>17. \A d \in L : flash'[d].type = "BODY" =>
         d \in job.refs /\ (d = n \/ ~Unlinked(flash', L, d))
  BY <1>1, <1>2, <1>3, <1>13 DEF FixFiles, NextBad, Unlinked
<1>18. ASSUME NEW d \in Chunks, Has(flash', d, "BODY"), d < k + 1 \/ d \in job.refs PROVE d \in L
  <2>1. d # c
    BY <1>11, <1>18, BlankChunks DEF Has
  <2>2. Has(flash, d, "BODY")
    BY <1>12, <1>18, <2>1 DEF Has
  <2>3. d # k
    BY <1>6, <1>7, <2>2 DEF Has
  <2>4. d < k \/ d \in job.refs
    BY <1>7, <1>18, <2>3 DEF Chunks
  <2> QED BY <1>1, <1>2, <1>7, <2>2, <2>4 DEF FixFiles
<1>19. CASE more
  <2>1. /\ n \in Chunks /\ n # c /\ Unlinked(flash, L, n)
        /\ map[n].magic = "ok" => map[n].type = "BODY"
        /\ (n \in L \/ map[n].magic # "ok")
    BY <1>4, <1>6, <1>19 DEF Links
  <2>2. /\ job' \in FixJobs /\ job'.op = "fix" /\ job'.at = "erase" /\ job'.cur = n
        /\ job'.refs = job.refs /\ job'.block = k /\ job'.chain = job.chain
    <3>1. job' = [job EXCEPT !.at = "erase", !.cur = n, !.next = None]
      BY <1>5, <1>19
    <3> QED BY <1>2, <1>7, <2>1, <3>1 DEF FixJobs, Links
  <2>3. RamTypes'
    BY <1>2, <1>11, <2>2 DEF RamTypes, JobType
  <2>4. FixMap(L)'
    BY <1>14, <1>15, <2>2 DEF FixMap
  <2>5. FixFiles(L)'
    <3>1. \A d \in Chunks : d < k => d < k + 1
      BY <1>7 DEF Chunks
    <3> QED BY <1>16, <1>17, <1>18, <2>2, <3>1 DEF FixFiles, NextBad
  <2>6. map'[n] = map[n] /\ ~Is(n, "HEAD")'
    BY <1>12, <2>1 DEF Is
  <2>7. Unlinked(flash', L, n)
    BY <1>13, <2>1 DEF Unlinked
  <2>8. ~(flash'[k].magic = "ok" /\ flash'[k].type # "FREE")
    <3>1. k \in Chunks
      <4>1. k \in 0..N /\ k < N
        BY <1>6, <1>7
      <4> QED BY <4>1, SizesAssumption DEF Chunks
    <3> QED BY <1>6, <1>7, <1>11, <1>12, <3>1, BlankChunks
  <2>9. job.chain
    BY <1>4, <1>6, <1>19
  <2>10. FixAt(L)'
    BY <1>6, <1>7, <2>1, <2>2, <2>6, <2>7, <2>8, <2>9 DEF FixAt
  <2>11. Sound(L)'
    BY <1>9, <2>2, <2>3, <2>4, <2>5, <2>10, WhileFix
  <2> QED BY <1>13, <2>2, <2>11 DEF Left
<1>20. CASE ~more
  <2>1. PICK m \in 0..N : m = k + 1
    BY <1>6, <1>7, SizesAssumption
  <2>2. /\ job' \in FixJobs /\ job'.op = "fix" /\ job'.at = "visit" /\ job'.block = m
        /\ job'.refs = job.refs
    <3>1. job' = [job EXCEPT !.at = "visit", !.block = m, !.cur = 0, !.chain = FALSE,
                             !.next = None]
      BY <1>5, <1>7, <1>20, <2>1
    <3>2. 0 \in Chunks
      BY SizesAssumption DEF Chunks
    <3> QED BY <1>2, <2>1, <3>1, <3>2 DEF FixJobs, Links
  <2>3. RamTypes'
    BY <1>2, <1>11, <2>2 DEF RamTypes, JobType
  <2>4. FixMap(L)'
    <3>1. \A d \in Chunks : d >= m => d > k
      BY <1>7, <2>1 DEF Chunks
    <3>2. \A d \in Chunks : d > m \/ d = m => d >= m
      BY <2>1 DEF Chunks
    <3> QED BY <1>14, <1>15, <2>2, <3>1, <3>2 DEF FixMap
  <2>5. n = None
    <3>1. ASSUME n \in L, flash[n].type = "BODY" PROVE map[n].type = "BODY"
      <4>1. map[n] = Header(flash[n])
        BY <1>1, <1>2, <1>9, <3>1 DEF FixMap, Live
      <4> QED BY <3>1, <4>1, SameInMap
    <3> QED BY <1>4, <1>6, <1>20, <3>1
  <2>6. FixFiles(L)'
    <3>1. \A d \in L : d # None
      BY DEF Chunks, None
    <3> QED BY <1>16, <1>17, <1>18, <2>1, <2>2, <2>5, <3>1 DEF FixFiles, NextBad
  <2>7. FixAt(L)'
    BY <2>2 DEF FixAt
  <2>8. Sound(L)'
    BY <1>9, <2>2, <2>3, <2>4, <2>6, <2>7, WhileFix
  <2> QED BY <1>13, <2>2, <2>8 DEF Left
<1> QED BY <1>19, <1>20

\* When the last block has been visited every file left has good links: its
\* chunks are the live ones, and no cut format is seen any more.
LEMMA FixEndStep ==
  ASSUME NEW L \in SUBSET Chunks, Sound(L), FixEnd
  PROVE  Left(L)
<1>1. FlashParts(L) /\ FixMap(L) /\ FixFiles(L)
  BY InvGives
<1>2. /\ FlashTypes /\ RamTypes /\ Blank /\ job \in FixJobs /\ job.op = "fix" /\ job.at = "visit"
      /\ Faults = {} /\ flash' = flash /\ Mounted /\ cut' = FALSE
  BY InvGives, JobIs DEF FixEnd, At
<1>3. /\ Live(flash, cut, L)
      /\ \A c \in L : map[c] = Header(flash[c]) /\ c \in Chunks
      /\ \A c \in Chunks : (map[c].magic = "ok") <=> (flash[c].magic = "ok")
  <2>1. Live(flash, cut, L)
    BY <1>1 DEF FlashParts
  <2> QED BY <1>1, <1>2, <2>1 DEF FixMap, Live
<1>4. PICK H \in SUBSET L : H = {c \in L : flash[c].type = "HEAD"}
  OBVIOUS
<1>5. ASSUME NEW h \in H PROVE GoodLinks(h)
  <2>1. h \in L /\ h \in Chunks /\ flash[h].type = "HEAD"
    BY <1>3, <1>4
  <2>2. CASE h < job.block
    BY <1>1, <1>2, <2>1, <2>2 DEF FixFiles
  <2>3. CASE ~(h < job.block)
    <3>1. job.block \in 0..N
      BY <1>2 DEF FixJobs
    <3>2. h \in job.block .. N - 1
      BY <2>1, <2>3, <3>1 DEF Chunks
    <3>3. Is(h, "HEAD")
      BY <1>3, <2>1, SameInMap DEF Live, Has
    <3>4. Good(h)
      BY <1>2, <3>2, <3>3 DEF Faults, BadHead
    <3> QED BY <3>4 DEF Good, GoodLinks, LinksToBody
  <2> QED BY <2>2, <2>3
<1>6. PICK B \in SUBSET L : B = {c \in L : flash[c].type = "BODY"}
  OBVIOUS
<1>7. ASSUME NEW h \in H PROVE Linked(h) \subseteq B
  <2>1. B \in SUBSET Chunks
    BY <1>3
  <2>2. ASSUME NEW c \in {h} \cup B, LinksToBody(c) PROVE map[c].next \in B
    <3>1. c \in L /\ map[c].next = flash[c].next /\ flash[c].next # None
      BY <1>3, <2>2, SameInMap DEF LinksToBody
    <3>2. flash[c].next \in Chunks
      BY <1>2, <1>3, <3>1 DEF FlashTypes, ChunkType, Links
    <3>3. flash[flash[c].next].magic = "ok"
      BY <1>3, <2>2, <3>1, <3>2 DEF LinksToBody, Is
    <3>4. flash[c].next \in L /\ flash[flash[c].next].type = "BODY"
      BY <1>3, <3>1, <3>3 DEF Live
    <3> QED BY <1>6, <3>1, <3>4
  <2>3. Closed(B, h)
    BY <2>2 DEF Closed
  <2> QED BY <2>1, <2>3, LinkedLeast
<1>8. PICK M : M = H \cup UNION {Linked(h) : h \in H}
  OBVIOUS
<1>9. M \in SUBSET Chunks /\ M \subseteq L
  BY <1>3, <1>7, <1>8
<1>10. ASSUME NEW c \in M, flash[c].next # None
       PROVE  flash[c].next \in M /\ flash[flash[c].next].type = "BODY"
  <2>1. PICK h \in H : c \in {h} \cup Linked(h)
    BY <1>8
  <2>2. c \in L /\ map[c].next = flash[c].next
    BY <1>3, <1>9, SameInMap
  <2>3. LinksToBody(c)
    BY <1>5, <1>10, <2>1, <2>2 DEF GoodLinks
  <2>4. map[c].next \in Chunks
    BY <1>2, <1>3, <1>10, <2>2 DEF FlashTypes, ChunkType, Links
  <2>5. map[c].next \in Linked(h)
    BY <2>1, <2>3, <2>4, LinkedClosed
  <2>6. map[c].next \in B
    BY <1>7, <2>1, <2>5
  <2> QED BY <1>6, <1>8, <2>2, <2>5, <2>6
<1>11. Live(flash, FALSE, M)
  <2>1. \A c \in Chunks : Has(flash, c, "HEAD") => c \in M
    BY <1>3, <1>4, <1>8 DEF Live, Has
  <2>2. \A c \in M : flash[c].magic = "ok" /\ flash[c].type # "FREE"
    BY <1>3, <1>9 DEF Live
  <2>3. \A c, d \in M : flash[c].next # None /\ flash[c].next = flash[d].next => c = d
    BY <1>3, <1>9 DEF Live
  <2> QED BY <1>9, <1>10, <2>1, <2>2, <2>3 DEF Live
<1>12. FlashParts(M)'
  BY <1>1, <1>2, <1>11 DEF FlashParts, FlashTypes, Blank
<1>13. Sound(M)'
  BY <1>2, <1>9, <1>12, MountedStep
<1> QED BY <1>13, <1>2, <1>9, <1>12, MountedStep DEF Left

-----------------------------------------------------------------------------
(* The files of a repaired flash: the chunks of each make a sequence along  *)
(* the links, which is the one Chain finds.                                 *)

\* Every live body has a live chunk that links to it.
Backed(L, s) ==
  /\ flash \in [Chunks -> ChunkType] /\ L \subseteq Chunks /\ s \in Spots /\ Files(flash, L, s)
  /\ \A c \in L : flash[c].magic = "ok" /\ flash[c].type # "FREE"
  /\ \A c \in L : flash[c].type = "BODY" => ~Unlinked(flash, L, c)

\* That one is of the same file, one link and its own data before.
LEMMA BodyBehind ==
  ASSUME NEW L, NEW s, Backed(L, s), NEW c \in L, s[c].head # c
  PROVE  \E p \in L : /\ flash[p].next = c /\ s[c].head = s[p].head
                      /\ s[c].links = s[p].links + 1
                      /\ s[c].from = s[p].from + Len(flash[p].data)
<1>1. flash[c].type = "BODY"
  <2>1. flash[c].type \in {"HEAD", "BODY"}
    BY DEF Backed, ChunkType, Types
  <2>2. flash[c].type # "HEAD"
    BY DEF Backed, Files
  <2> QED BY <2>1, <2>2
<1>2. PICK p \in L : flash[p].next = c
  BY <1>1 DEF Backed, Unlinked
<1> QED BY <1>2 DEF Backed, Files

\* So each chunk is of a file that has a head.
LEMMA HeadOf ==
  ASSUME NEW L, NEW s, Backed(L, s), NEW c \in L
  PROVE  /\ s[c].head \in L /\ flash[s[c].head].type = "HEAD" /\ s[c].head # None
         /\ s[c].links \in Nat /\ s[c].from \in Nat
<1>0. \A d \in L : d # None /\ s[d].links \in Nat /\ s[d].from \in Nat
  BY DEF Backed, Spots, Chunks, None
<1> DEFINE T == {d \in L : s[d].head = None}
<1>1. ASSUME T # {} PROVE FALSE
  <2>1. PICK g : g = [d \in T |-> s[d].links]
    OBVIOUS
  <2>2. \A d \in T : g[d] \in Nat /\ g[d] = s[d].links
    BY <1>0, <2>1
  <2>3. PICK d \in T : \A e \in T : g[d] <= g[e]
    <3> HIDE DEF T
    <3> QED BY <1>1, <2>2, LeastBy
  <2>4. d \in L /\ s[d].head = None /\ s[d].head # d
    BY <1>0
  <2>5. PICK p \in L : s[d].head = s[p].head /\ s[d].links = s[p].links + 1
    BY <2>4, BodyBehind
  <2> QED BY <1>0, <2>2, <2>3, <2>4, <2>5
<1> QED BY <1>0, <1>1 DEF Backed, Files

\* A file has one chunk so many links from its head.
LEMMA OneAt ==
  ASSUME NEW L, NEW s, Backed(L, s), NEW c \in L, NEW d \in L,
         s[c].head = s[d].head, s[c].links = s[d].links
  PROVE  c = d
<1> DEFINE Two(x, y) == x # y /\ s[x].head = s[y].head /\ s[x].links = s[y].links
           T == {x \in L : \E y \in L : Two(x, y)}
<1>0. \A x \in L : s[x].links \in Nat
  BY HeadOf
<1>1. ASSUME T # {} PROVE FALSE
  <2>1. PICK g : g = [x \in T |-> s[x].links]
    OBVIOUS
  <2>2. \A x \in T : g[x] \in Nat /\ g[x] = s[x].links
    BY <1>0, <2>1
  <2>3. PICK x \in T : \A y \in T : g[x] <= g[y]
    <3> HIDE DEF T
    <3> QED BY <1>1, <2>2, LeastBy
  <2>4. PICK y \in L : Two(x, y)
    OBVIOUS
  <2>5. \A z \in L : s[z].head = z => s[z].links = 0
    BY HeadOf DEF Backed, Files
  <2>6. s[x].head # x /\ s[y].head # y
    <3>1. ASSUME s[x].head = x \/ s[y].head = y PROVE FALSE
      <4>1. s[x].links = 0 /\ s[y].links = 0
        BY <2>4, <2>5, <3>1
      <4>2. s[x].head # x \/ s[y].head # y
        BY <2>4
      <4>3. PICK z \in L : s[z].head # z /\ s[z].links = 0
        BY <4>1, <4>2
      <4>4. PICK p \in L : s[z].links = s[p].links + 1
        BY <4>3, BodyBehind
      <4> QED BY <1>0, <4>3, <4>4
    <3> QED BY <3>1
  <2>7. PICK p \in L : flash[p].next = x /\ s[x].head = s[p].head /\ s[x].links = s[p].links + 1
    BY <2>6, BodyBehind
  <2>8. PICK q \in L : flash[q].next = y /\ s[y].head = s[q].head /\ s[y].links = s[q].links + 1
    BY <2>4, <2>6, BodyBehind
  <2>9. p # q /\ s[p].head = s[q].head /\ s[p].links = s[q].links /\ s[p].links < s[x].links
    <3>1. p # q /\ s[p].head = s[q].head
      BY <2>4, <2>7, <2>8
    <3>2. PICK i \in Nat, j \in Nat : i = s[p].links /\ j = s[q].links
      BY <1>0
    <3>3. s[x].links = i + 1 /\ s[x].links = j + 1
      BY <2>4, <2>7, <2>8, <3>2
    <3> QED BY <3>1, <3>2, <3>3
  <2>10. p \in T
    BY <2>9
  <2>11. s[x].links <= s[p].links
    BY <2>2, <2>3, <2>10
  <2> QED BY <1>0, <2>9, <2>11
<1> QED BY <1>1

\* Its chunks are numbered without a gap by the links from the head, and there
\* are no more of them than chunks.
LEMMA FileLength ==
  ASSUME NEW L, NEW s, Backed(L, s), NEW h \in L, flash[h].type = "HEAD"
  PROVE  \E m \in 1..N : {s[c].links : c \in {d \in L : s[d].head = h}} = 0 .. m - 1
<1> DEFINE S == {d \in L : s[d].head = h}
           Q == {s[c].links : c \in S}
           T == {k \in 0..N : k \notin Q}
<1>0. /\ \A x \in L : s[x].links \in Nat
      /\ s[h].head = h /\ s[h].links = 0 /\ L \subseteq Chunks /\ N \in Nat \ {0}
  BY HeadOf, SizesAssumption DEF Backed, Files
<1>1. Q \in SUBSET Nat /\ 0 \in Q
  BY <1>0
<1>2. ASSUME NEW k \in Q, k # 0 PROVE k - 1 \in Q
  <2>1. PICK c \in S : s[c].links = k
    OBVIOUS
  <2>2. c \in L /\ s[c].head = h /\ c # h
    BY <1>0, <1>2, <2>1
  <2>3. PICK p \in L : s[c].head = s[p].head /\ s[c].links = s[p].links + 1
    BY <2>2, BodyBehind
  <2>4. p \in S /\ s[p].links = k - 1
    BY <1>0, <2>1, <2>2, <2>3
  <2> QED BY <2>4
<1>3. T # {}
  <2> SUFFICES ASSUME 0..N \subseteq Q PROVE FALSE
    OBVIOUS
  <2>1. \A k \in 0..N : \E c \in S : s[c].links = k
    OBVIOUS
  <2>2. PICK f \in [0..N -> S] : \A k \in 0..N : s[f[k]].links = k
    <3> DEFINE f == [k \in 0..N |-> CHOOSE c \in S : s[c].links = k]
    <3>1. \A k \in 0..N : f[k] \in S /\ s[f[k]].links = k
      BY <2>1
    <3> QED BY <3>1
  <2>3. IsFiniteSet(0..N) /\ Cardinality(0..N) = N + 1
    BY <1>0, FS_Interval
  <2>4. IsFiniteSet(S) /\ Cardinality(S) <= N /\ Cardinality(S) \in Nat
    <3>1. S \in SUBSET Chunks
      BY <1>0
    <3> HIDE DEF S
    <3> QED BY <3>1, ChunksFinite, FS_Subset, FS_CardinalityType
  <2>5. \E x, y \in 0..N : x # y /\ f[x] = f[y]
    <3> HIDE DEF S
    <3> QED BY <1>0, <2>2, <2>3, <2>4, FS_PigeonHole
  <2> QED BY <2>2, <2>5
<1>4. PICK m \in T : \A k \in T : m <= k
  <2>1. T \in SUBSET Nat
    BY <1>0
  <2> HIDE DEF T
  <2> QED BY <1>3, <2>1, LeastNumber
<1>5. m \in 1..N /\ m \notin Q /\ \A k \in 0..m - 1 : k \in Q
  <2>1. m \in 0..N /\ m \notin Q
    OBVIOUS
  <2>2. m # 0
    BY <1>1, <2>1
  <2>3. ASSUME NEW k \in 0..m - 1, k \notin Q PROVE FALSE
    <3>1. k \in T
      BY <1>0, <2>1, <2>3
    <3> QED BY <1>0, <1>4, <2>1, <3>1
  <2> QED BY <1>0, <2>1, <2>2, <2>3
<1>6. ASSUME NEW k \in Q, k >= m PROVE FALSE
  <2> DEFINE W == {x \in Q : x >= m}
  <2>1. W \in SUBSET Nat /\ W # {}
    BY <1>1, <1>6
  <2>2. PICK x \in W : \A y \in W : x <= y
    <3> HIDE DEF W
    <3> QED BY <2>1, LeastNumber
  <2>3. x \in Q /\ x \in Nat /\ x > m /\ m \in Nat /\ m # 0
    BY <1>1, <1>5, <2>2, <1>0
  <2>4. x - 1 \in Q /\ x - 1 >= m
    <3> HIDE DEF Q
    <3> QED BY <1>2, <2>3
  <2>5. x - 1 \in W
    BY <2>4
  <2>6. x <= x - 1
    <3> HIDE DEF W
    <3> QED BY <2>2, <2>5
  <2> QED BY <2>3, <2>6
<1>7. Q = 0 .. m - 1
  <2> HIDE DEF Q
  <2>1. m \in Nat /\ \A k \in Q : k \in Nat /\ ~(k >= m)
    BY <1>0, <1>1, <1>5, <1>6
  <2>2. \A k \in Q : k \in 0 .. m - 1
    BY <2>1
  <2> QED BY <1>5, <2>2
<1> QED BY <1>5, <1>7

\* No link leads out of the live chunks, and each file is closed.
Threaded(L, s) ==
  /\ Backed(L, s)
  /\ \A c \in L : flash[c].next # None => flash[c].next \in L
  /\ \A h \in L : flash[h].type = "HEAD" => flash[h].size # None

\* The m chunks of the file of head h, each linked to the next.
Row(L, s, h, m, f) ==
  /\ f \in [0 .. m - 1 -> L] /\ f[0] = h /\ flash[f[m - 1]].next = None
  /\ \A k \in 0 .. m - 1 : s[f[k]].head = h /\ s[f[k]].links = k
  /\ \A k \in 1 .. m - 1 : /\ f[k] = flash[f[k - 1]].next /\ flash[f[k]].type = "BODY"
                           /\ s[f[k]].from = s[f[k - 1]].from + Len(flash[f[k - 1]].data)
  /\ \A c \in L : s[c].head = h => s[c].links \in 0 .. m - 1 /\ c = f[s[c].links]

\* There is such a sequence.
LEMMA FileRow ==
  ASSUME NEW L, NEW s, Threaded(L, s), NEW h \in L, flash[h].type = "HEAD"
  PROVE  \E m \in 1..N : \E f : Row(L, s, h, m, f)
<1> DEFINE S == {d \in L : s[d].head = h}
           Q == {s[c].links : c \in S}
<1>0. /\ Backed(L, s) /\ h \in S /\ s[h].links = 0 /\ N \in Nat
      /\ \A x \in L : s[x].links \in Nat
  <2>1. Backed(L, s)
    BY DEF Threaded
  <2> QED BY <2>1, HeadOf, SizesAssumption DEF Backed, Files
<1>1. PICK m \in 1..N : Q = 0 .. m - 1
  BY <1>0, FileLength
<1>2. PICK f \in [0 .. m - 1 -> S] : \A k \in 0 .. m - 1 : s[f[k]].links = k
  <2> DEFINE f == [k \in 0 .. m - 1 |-> CHOOSE c \in S : s[c].links = k]
  <2>1. \A k \in 0 .. m - 1 : \E c \in S : s[c].links = k
    BY <1>1
  <2>2. \A k \in 0 .. m - 1 : f[k] \in S /\ s[f[k]].links = k
    BY <2>1
  <2> QED BY <2>2
<1>3. \A k \in 0 .. m - 1 : f[k] \in L /\ s[f[k]].head = h /\ s[f[k]].links = k
  BY <1>2
<1>4. ASSUME NEW c \in L, s[c].head = h
      PROVE  s[c].links \in 0 .. m - 1 /\ c = f[s[c].links]
  <2>1. s[c].links \in 0 .. m - 1
    <3>1. s[c].links \in Q
      BY <1>4
    <3> QED BY <1>1, <3>1
  <2> QED BY <1>0, <1>3, <1>4, <2>1, OneAt
<1>5. f[0] = h
  BY <1>0, <1>4
<1>6. ASSUME NEW k \in 1 .. m - 1
      PROVE  /\ f[k] = flash[f[k - 1]].next /\ flash[f[k]].type = "BODY"
             /\ s[f[k]].from = s[f[k - 1]].from + Len(flash[f[k - 1]].data)
  <2>1. f[k] \in L /\ s[f[k]].head = h /\ s[f[k]].links = k /\ f[k] # h /\ k - 1 \in 0 .. m - 1
    BY <1>0, <1>1, <1>3
  <2>2. PICK p \in L : /\ flash[p].next = f[k] /\ s[f[k]].head = s[p].head
                       /\ s[f[k]].links = s[p].links + 1
                       /\ s[f[k]].from = s[p].from + Len(flash[p].data)
    <3>1. PICK c \in L : c = f[k] /\ s[c].head # c
      BY <2>1
    <3>2. \E p \in L : /\ flash[p].next = c /\ s[c].head = s[p].head
                      /\ s[c].links = s[p].links + 1
                      /\ s[c].from = s[p].from + Len(flash[p].data)
      BY <1>0, <3>1, BodyBehind
    <3> QED BY <3>1, <3>2
  <2>3. p = f[k - 1]
    <3>1. s[p].links = k - 1
      BY <1>0, <2>1, <2>2
    <3> QED BY <1>4, <2>1, <2>2, <3>1
  <2>4. flash[f[k]].type = "BODY"
    BY <1>0, <2>1 DEF Backed, Files, ChunkType, Types
  <2> QED BY <2>2, <2>3, <2>4
<1>7. flash[f[m - 1]].next = None
  <2>1. PICK e \in L : e = f[m - 1] /\ s[e].head = h /\ s[e].links = m - 1
    BY <1>1, <1>3
  <2> SUFFICES ASSUME flash[e].next # None PROVE FALSE
    BY <2>1
  <2>2. PICK d \in L : d = flash[e].next
    BY DEF Threaded
  <2>3. s[d].head = h /\ s[d].links = m
    BY <1>0, <1>1, <2>1, <2>2 DEF Backed, Files
  <2> QED BY <1>1, <1>4, <2>3
<1>8. f \in [0 .. m - 1 -> L]
  BY <1>2
<1>9. Row(L, s, h, m, f)
  BY <1>3, <1>4, <1>5, <1>6, <1>7, <1>8 DEF Row
<1> QED BY <1>1, <1>9

\* What the functions in Chain and Room are defined by.
ChainEq(h, a) ==
  a = [k \in 0..N |-> IF k = 0 THEN h
                      ELSE IF a[k - 1] = None THEN None ELSE flash[a[k - 1]].next]
RoomEq(chain, a) ==
  a = [k \in 0..Len(chain) |-> IF k = 0 THEN 0 ELSE a[k - 1] + Len(flash[chain[k]].data)]

\* They are the functions with these equations, if there is one and no other.
LEMMA ChainIs ==
  ASSUME NEW h, NEW a, ChainEq(h, a), \A b : ChainEq(h, b) => b = a
  PROVE  Chain(h) = [k \in 1..Cardinality({k \in 0..N : a[k] # None}) |-> a[k - 1]]
<1>1. a = CHOOSE b : ChainEq(h, b)
  OBVIOUS
<1> QED BY <1>1 DEF Chain, ChainEq

\* As for the links, so for the units before each chunk.
LEMMA RoomIs ==
  ASSUME NEW chain, NEW a, RoomEq(chain, a), \A b : RoomEq(chain, b) => b = a
  PROVE  Room(chain) = a[Len(chain)]
<1>1. a = CHOOSE b : RoomEq(chain, b)
  OBVIOUS
<1> QED BY <1>1 DEF Room, RoomEq

\* The m chunks r of the file of head h, each linked to the next, ...
Chained(f, h, m, r) ==
  /\ r \in [0 .. m - 1 -> Chunks] /\ r[0] = h /\ f[r[m - 1]].next = None
  /\ \A k \in 1 .. m - 1 : r[k] = f[r[k - 1]].next

\* ... and the units before each of them and in all.
Counted(f, m, r, u) ==
  /\ u \in [0..m -> Nat] /\ u[0] = 0
  /\ \A k \in 1..m : u[k] = u[k - 1] + Len(f[r[k - 1]].data)

\* A closed file that can be read to its end.
Readable(f, h, m, r, u) ==
  /\ Chained(f, h, m, r) /\ Counted(f, m, r, u)
  /\ Has(f, h, "HEAD") /\ f[h].size # None /\ f[h].size <= u[m]
  /\ \A k \in 1 .. m - 1 : Has(f, r[k], "BODY")

\* No two functions have the equations of Chain.
LEMMA ChainOne ==
  ASSUME NEW h, NEW a, NEW b, ChainEq(h, a), ChainEq(h, b)
  PROVE  a = b
<1>1. /\ \A k \in 0..N : a[k] = IF k = 0 THEN h
                               ELSE IF a[k - 1] = None THEN None ELSE flash[a[k - 1]].next
      /\ \A k \in 0..N : b[k] = IF k = 0 THEN h
                               ELSE IF b[k - 1] = None THEN None ELSE flash[b[k - 1]].next
  BY DEF ChainEq
<1> DEFINE T == {k \in 0..N : b[k] # a[k]}
<1>2. ASSUME T # {} PROVE FALSE
  <2>1. T \in SUBSET Nat
    OBVIOUS
  <2>2. PICK k \in T : \A j \in T : k <= j
    <3> HIDE DEF T
    <3> QED BY <1>2, <2>1, LeastNumber
  <2>3. k \in 0..N /\ b[k] # a[k] /\ k # 0 /\ k - 1 \in 0..N
    BY <1>1, SizesAssumption
  <2>4. b[k - 1] = a[k - 1]
    <3>1. k - 1 \notin T
      BY <2>2, <2>3
    <3> QED BY <2>3, <3>1
  <2> QED BY <1>1, <2>3, <2>4
<1>3. \A k \in 0..N : b[k] = a[k]
  BY <1>2
<1> QED BY <1>3 DEF ChainEq

\* One has.
LEMMA ChainSome ==
  ASSUME flash \in [Chunks -> ChunkType], NEW h \in Chunks
  PROVE  \E a : ChainEq(h, a) /\ a \in [0..N -> Links]
<1> DEFINE Eq(a, n) == /\ a \in [0..n -> Links] /\ a[0] = h
                       /\ \A k \in 1..n : a[k] = IF a[k - 1] = None THEN None
                                                 ELSE flash[a[k - 1]].next
           T == {n \in 0..N : ~ \E a : Eq(a, n)}
<1>0. N \in Nat /\ h \in Links /\ \A c \in Links : c # None => flash[c].next \in Links
  BY SizesAssumption DEF Links, ChunkType
<1>1. ASSUME T # {} PROVE FALSE
  <2>1. T \in SUBSET Nat
    OBVIOUS
  <2>2. PICK n \in T : \A j \in T : n <= j
    <3> HIDE DEF T
    <3> QED BY <1>1, <2>1, LeastNumber
  <2>3. n \in 0..N /\ ~ \E a : Eq(a, n)
    OBVIOUS
  <2>4. n # 0
    <3> SUFFICES ASSUME n = 0 PROVE FALSE
      OBVIOUS
    <3>1. Eq([k \in 0..0 |-> h], 0)
      BY <1>0
    <3> HIDE DEF Eq
    <3> QED BY <2>3, <3>1
  <2>5. n \in Nat /\ n - 1 \in 0..N /\ n - 1 \notin T
    <3> HIDE DEF T
    <3> QED BY <1>0, <2>2, <2>3, <2>4
  <2>6. PICK b : Eq(b, n - 1)
    BY <2>5
  <2>7. PICK v : v = IF b[n - 1] = None THEN None ELSE flash[b[n - 1]].next
    OBVIOUS
  <2>8. b[n - 1] \in Links /\ v \in Links
    BY <1>0, <2>5, <2>6, <2>7
  <2>9. PICK a : a = [k \in 0..n |-> IF k = n THEN v ELSE b[k]]
    OBVIOUS
  <2>10. a[n] = v /\ \A k \in 0 .. n - 1 : a[k] = b[k]
    BY <2>4, <2>5, <2>9
  <2>11. a \in [0..n -> Links]
    BY <2>5, <2>6, <2>8, <2>9
  <2>12. ASSUME NEW k \in 1..n
         PROVE  a[k] = IF a[k - 1] = None THEN None ELSE flash[a[k - 1]].next
    <3>1. CASE k = n
      BY <2>4, <2>5, <2>7, <2>10, <3>1
    <3>2. CASE k # n
      <4>1. k \in 1 .. n - 1 /\ k \in 0 .. n - 1 /\ k - 1 \in 0 .. n - 1
        BY <2>5, <3>2
      <4> QED BY <2>6, <2>10, <4>1
    <3> QED BY <3>1, <3>2
  <2>13. a[0] = h
    BY <2>4, <2>5, <2>6, <2>10
  <2>14. Eq(a, n)
    BY <2>11, <2>12, <2>13
  <2> HIDE DEF Eq
  <2> QED BY <2>3, <2>14
<1>2. PICK a : Eq(a, N)
  <2>1. N \notin T /\ N \in 0..N
    BY <1>0, <1>1
  <2> QED BY <2>1
<1>3. \A k \in 0..N : a[k] = IF k = 0 THEN h
                             ELSE IF a[k - 1] = None THEN None ELSE flash[a[k - 1]].next
  BY <1>0, <1>2
<1>4. a = [k \in 0..N |-> IF k = 0 THEN h
                          ELSE IF a[k - 1] = None THEN None ELSE flash[a[k - 1]].next]
  BY <1>2, <1>3
<1> QED BY <1>2, <1>4 DEF ChainEq

\* The chunks Chain finds.
LEMMA ChainedIs ==
  ASSUME flash \in [Chunks -> ChunkType], NEW h \in Chunks, NEW m \in 1..N, NEW r,
         Chained(flash, h, m, r)
  PROVE  Chain(h) = [k \in 1..m |-> r[k - 1]]
<1>1. /\ r \in [0 .. m - 1 -> Chunks] /\ r[0] = h /\ flash[r[m - 1]].next = None
      /\ \A k \in 1 .. m - 1 : r[k] = flash[r[k - 1]].next
  BY DEF Chained
<1>2. N \in Nat /\ m \in Nat /\ m >= 1 /\ m <= N /\ \A c \in Chunks : c # None
  BY SizesAssumption DEF Chunks, None
<1>3. PICK a : a = [k \in 0..N |-> IF k < m THEN r[k] ELSE None]
  OBVIOUS
<1>4. /\ \A k \in 0 .. m - 1 : a[k] = r[k] /\ r[k] # None
      /\ \A k \in m .. N : a[k] = None
  BY <1>1, <1>2, <1>3
<1>5. ASSUME NEW k \in 0..N
      PROVE  a[k] = IF k = 0 THEN h
                    ELSE IF a[k - 1] = None THEN None ELSE flash[a[k - 1]].next
  <2>1. CASE k = 0
    BY <1>1, <1>2, <1>4, <2>1
  <2>2. CASE k \in 1 .. m - 1
    <3>1. k # 0 /\ k - 1 \in 0 .. m - 1 /\ k \in 0 .. m - 1
      BY <1>2, <2>2
    <3> QED BY <1>1, <1>4, <2>2, <3>1
  <2>3. CASE k = m
    <3>1. k # 0 /\ k - 1 = m - 1 /\ m - 1 \in 0 .. m - 1 /\ k \in m .. N
      BY <1>2, <2>3
    <3> QED BY <1>1, <1>4, <2>3, <3>1
  <2>4. CASE k > m
    <3>1. k # 0 /\ k - 1 \in m .. N /\ k \in m .. N
      BY <1>2, <2>4
    <3> QED BY <1>4, <3>1
  <2> QED BY <1>2, <2>1, <2>2, <2>3, <2>4
<1>6. ChainEq(h, a)
  BY <1>3, <1>5 DEF ChainEq
<1>7. Chain(h) = [k \in 1..Cardinality({k \in 0..N : a[k] # None}) |-> a[k - 1]]
  BY <1>6, ChainOne, ChainIs
<1>8. Cardinality({k \in 0..N : a[k] # None}) = m
  <2>1. {k \in 0..N : a[k] # None} = 0 .. m - 1
    BY <1>2, <1>4
  <2>2. Cardinality(0 .. m - 1) = m
    BY <1>2, FS_Interval
  <2> QED BY <2>1, <2>2
<1>9. \A k \in 1..m : a[k - 1] = r[k - 1]
  BY <1>2, <1>4
<1> QED BY <1>7, <1>8, <1>9

\* If they are not more than the flash has they are the chunks of a file.
LEMMA ChainEnds ==
  ASSUME flash \in [Chunks -> ChunkType], NEW h \in Chunks, Len(Chain(h)) <= N
  PROVE  \E m \in 1..N : \E r : Chained(flash, h, m, r)
<1>1. PICK a : ChainEq(h, a) /\ a \in [0..N -> Links]
  BY ChainSome
<1>2. \A k \in 0..N : a[k] = IF k = 0 THEN h
                             ELSE IF a[k - 1] = None THEN None ELSE flash[a[k - 1]].next
  BY <1>1 DEF ChainEq
<1>3. Chain(h) = [k \in 1..Cardinality({k \in 0..N : a[k] # None}) |-> a[k - 1]]
  BY <1>1, ChainOne, ChainIs
<1>0. N \in Nat /\ \A c \in Chunks : c # None
  BY SizesAssumption DEF Chunks, None
<1> DEFINE T == {k \in 0..N : a[k] = None}
<1>4. T # {}
  <2> SUFFICES ASSUME T = {} PROVE FALSE
    OBVIOUS
  <2>1. {k \in 0..N : a[k] # None} = 0..N
    OBVIOUS
  <2>2. Cardinality(0..N) = N + 1
    BY <1>0, FS_Interval
  <2>3. Chain(h) = [k \in 1 .. N + 1 |-> a[k - 1]]
    BY <1>3, <2>1, <2>2
  <2>4. Len(Chain(h)) = N + 1
    BY <1>0, <2>3
  <2> QED BY <1>0, <2>4
<1>5. T \in SUBSET Nat
  OBVIOUS
<1>6. PICK m \in T : \A j \in T : m <= j
  <2> HIDE DEF T
  <2> QED BY <1>4, <1>5, LeastNumber
<1>7. m \in 1..N /\ m - 1 \in 0..N /\ a[m] = None
  BY <1>0, <1>2
<1>8. \A k \in 0 .. m - 1 : a[k] # None /\ a[k] \in Chunks
  <2>1. \A k \in 0 .. m - 1 : k \in 0..N /\ k \notin T
    BY <1>0, <1>6, <1>7
  <2>2. \A k \in 0..N : a[k] \in Links
    BY <1>1
  <2> QED BY <2>1, <2>2 DEF Links
<1>9. PICK r : r = [k \in 0 .. m - 1 |-> a[k]]
  OBVIOUS
<1>10. r \in [0 .. m - 1 -> Chunks] /\ \A k \in 0 .. m - 1 : r[k] = a[k]
  BY <1>8, <1>9
<1>11. r[0] = h
  BY <1>0, <1>2, <1>7, <1>10
<1>12. flash[r[m - 1]].next = None
  BY <1>2, <1>7, <1>8, <1>10
<1>13. ASSUME NEW k \in 1 .. m - 1 PROVE r[k] = flash[r[k - 1]].next
  <2>1. k \in 0..N /\ k # 0 /\ k - 1 \in 0 .. m - 1 /\ k \in 0 .. m - 1
    BY <1>0, <1>7
  <2> QED BY <1>2, <1>8, <1>10, <2>1
<1>14. Chained(flash, h, m, r)
  BY <1>10, <1>11, <1>12, <1>13 DEF Chained
<1> QED BY <1>7, <1>14

\* The units before each chunk of a file.
LEMMA CountSome ==
  ASSUME NEW f \in [Chunks -> ChunkType], NEW m \in Nat, NEW r \in [0 .. m - 1 -> Chunks]
  PROVE  \E u : Counted(f, m, r, u)
<1> DEFINE Eq(u, n) == /\ u \in [0..n -> Nat] /\ u[0] = 0
                       /\ \A k \in 1..n : u[k] = u[k - 1] + Len(f[r[k - 1]].data)
           T == {n \in 0..m : ~ \E u : Eq(u, n)}
<1>0. \A k \in 0 .. m - 1 : r[k] \in Chunks /\ Len(f[r[k]].data) \in Nat
  <2>1. \A c \in Chunks : Len(f[c].data) \in Nat
    BY DEF ChunkType
  <2> QED BY <2>1
<1>1. ASSUME T # {} PROVE FALSE
  <2>1. T \in SUBSET Nat
    OBVIOUS
  <2>2. PICK n \in T : \A j \in T : n <= j
    <3> HIDE DEF T
    <3> QED BY <1>1, <2>1, LeastNumber
  <2>3. n \in 0..m /\ ~ \E u : Eq(u, n)
    OBVIOUS
  <2>4. n # 0
    <3> SUFFICES ASSUME n = 0 PROVE FALSE
      OBVIOUS
    <3>1. Eq([k \in 0..0 |-> 0], 0)
      OBVIOUS
    <3> HIDE DEF Eq
    <3> QED BY <2>3, <3>1
  <2>5. n \in Nat /\ n - 1 \in 0..m /\ n - 1 \in 0 .. m - 1 /\ n - 1 \notin T
    <3> HIDE DEF T
    <3> QED BY <2>2, <2>3, <2>4
  <2>6. PICK b : Eq(b, n - 1)
    BY <2>5
  <2>7. PICK v : v = b[n - 1] + Len(f[r[n - 1]].data)
    OBVIOUS
  <2>8. b[n - 1] \in Nat /\ v \in Nat
    BY <1>0, <2>5, <2>6, <2>7
  <2>9. PICK a : a = [k \in 0..n |-> IF k = n THEN v ELSE b[k]]
    OBVIOUS
  <2>10. a[n] = v /\ \A k \in 0 .. n - 1 : a[k] = b[k]
    BY <2>4, <2>5, <2>9
  <2>11. a \in [0..n -> Nat]
    BY <2>5, <2>6, <2>8, <2>9
  <2>12. ASSUME NEW k \in 1..n PROVE a[k] = a[k - 1] + Len(f[r[k - 1]].data)
    <3>1. CASE k = n
      BY <2>4, <2>5, <2>7, <2>10, <3>1
    <3>2. CASE k # n
      <4>1. k \in 1 .. n - 1 /\ k \in 0 .. n - 1 /\ k - 1 \in 0 .. n - 1
        BY <2>5, <3>2
      <4> QED BY <2>6, <2>10, <4>1
    <3> QED BY <3>1, <3>2
  <2>13. a[0] = 0
    BY <2>4, <2>5, <2>6, <2>10
  <2>14. Eq(a, n)
    BY <2>11, <2>12, <2>13
  <2> HIDE DEF Eq
  <2> QED BY <2>3, <2>14
<1>2. PICK u : Eq(u, m)
  <2>1. m \in 0..m
    OBVIOUS
  <2>2. m \notin T
    <3> HIDE DEF T
    <3> QED BY <1>1
  <2> QED BY <2>1, <2>2
<1> QED BY <1>2 DEF Counted

\* Room counts them all.
LEMMA CountedIs ==
  ASSUME NEW m \in Nat, NEW r, NEW u, Counted(flash, m, r, u), NEW ch,
         Len(ch) = m, \A k \in 1..m : ch[k] = r[k - 1]
  PROVE  Room(ch) = u[m]
<1>1. /\ u \in [0..m -> Nat] /\ u[0] = 0
      /\ \A k \in 1..m : u[k] = u[k - 1] + Len(flash[ch[k]].data)
  BY DEF Counted
<1>2. \A k \in 0..m : u[k] = IF k = 0 THEN 0 ELSE u[k - 1] + Len(flash[ch[k]].data)
  BY <1>1
<1>3. RoomEq(ch, u)
  BY <1>1, <1>2 DEF RoomEq
<1>4. ASSUME NEW b, RoomEq(ch, b) PROVE b = u
  <2>1. \A k \in 0..m : b[k] = IF k = 0 THEN 0 ELSE b[k - 1] + Len(flash[ch[k]].data)
    BY <1>4 DEF RoomEq
  <2> DEFINE T == {k \in 0..m : b[k] # u[k]}
  <2>2. ASSUME T # {} PROVE FALSE
    <3>1. T \in SUBSET Nat
      OBVIOUS
    <3>2. PICK k \in T : \A j \in T : k <= j
      <4> HIDE DEF T
      <4> QED BY <2>2, <3>1, LeastNumber
    <3>3. k \in 0..m /\ b[k] # u[k] /\ k # 0 /\ k - 1 \in 0..m
      BY <1>2, <2>1
    <3>4. b[k - 1] = u[k - 1]
      <4>1. k - 1 \notin T
        BY <3>2, <3>3
      <4> QED BY <3>3, <4>1
    <3> QED BY <1>2, <2>1, <3>3, <3>4
  <2>3. \A k \in 0..m : b[k] = u[k]
    BY <2>2
  <2> QED BY <1>1, <1>4, <2>3 DEF RoomEq
<1> QED BY <1>3, <1>4, RoomIs

\* The chunks of a file that can be read are those that are found, ...
LEMMA ReadableIs ==
  ASSUME flash \in [Chunks -> ChunkType], NEW h \in Chunks, NEW m \in 1..N, NEW r, NEW u,
         Readable(flash, h, m, r, u)
  PROVE  Whole(h) /\ Len(Chain(h)) = m /\ \A k \in 1..m : Chain(h)[k] = r[k - 1]
<1>1. PICK ch : ch = Chain(h)
  OBVIOUS
<1>2. N \in Nat /\ m \in Nat /\ m >= 1 /\ m <= N
  BY SizesAssumption
<1>3. ch = [k \in 1..m |-> r[k - 1]]
  BY <1>1, ChainedIs DEF Readable
<1>4. Len(ch) = m /\ \A k \in 1..m : ch[k] = r[k - 1]
  BY <1>2, <1>3
<1>5. Room(ch) = u[m]
  BY <1>2, <1>4, CountedIs DEF Readable
<1>6. \A k \in 2..Len(ch) : flash[ch[k]].magic = "ok" /\ flash[ch[k]].type = "BODY"
  <2>1. \A k \in 2..m : k \in 1..m /\ k - 1 \in 1 .. m - 1
    BY <1>2
  <2> QED BY <1>4, <2>1 DEF Readable, Has
<1>7. Whole(h)
  BY <1>1, <1>2, <1>4, <1>5, <1>6 DEF Whole, Readable, Has
<1> QED BY <1>1, <1>4, <1>7

\* ... and a whole file can be read.
LEMMA WholeReads ==
  ASSUME flash \in [Chunks -> ChunkType], NEW h \in Chunks, Whole(h)
  PROVE  \E m \in 1..N : \E r, u : Readable(flash, h, m, r, u)
<1>1. PICK ch : ch = Chain(h)
  OBVIOUS
<1>2. /\ Has(flash, h, "HEAD") /\ flash[h].size # None /\ Len(ch) <= N /\ flash[h].size <= Room(ch)
      /\ \A k \in 2..Len(ch) : flash[ch[k]].magic = "ok" /\ flash[ch[k]].type = "BODY"
  BY <1>1 DEF Whole, Has
<1>3. PICK m \in 1..N : \E r : Chained(flash, h, m, r)
  BY <1>1, <1>2, ChainEnds
<1>4. PICK r : Chained(flash, h, m, r)
  BY <1>3
<1>5. m \in Nat /\ m >= 1 /\ r \in [0 .. m - 1 -> Chunks]
  BY <1>4, SizesAssumption DEF Chained
<1>6. PICK u : Counted(flash, m, r, u)
  BY <1>5, CountSome
<1>7. ch = [k \in 1..m |-> r[k - 1]]
  BY <1>1, <1>4, ChainedIs
<1>8. Len(ch) = m /\ \A k \in 1..m : ch[k] = r[k - 1]
  BY <1>5, <1>7
<1>9. Room(ch) = u[m]
  BY <1>5, <1>6, <1>8, CountedIs
<1>10. ASSUME NEW k \in 1 .. m - 1 PROVE Has(flash, r[k], "BODY")
  <2>1. k + 1 \in 2..m /\ k + 1 \in 1..m /\ k + 1 - 1 = k
    BY <1>5
  <2>2. ch[k + 1] = r[k]
    BY <1>8, <2>1
  <2>3. flash[ch[k + 1]].magic = "ok" /\ flash[ch[k + 1]].type = "BODY"
    BY <1>2, <1>8, <2>1
  <2> QED BY <2>2, <2>3 DEF Has
<1>11. Readable(flash, h, m, r, u)
  BY <1>2, <1>4, <1>6, <1>9, <1>10 DEF Readable
<1> QED BY <1>3, <1>11

\* So the file is whole and has these chunks.
LEMMA FileWhole ==
  ASSUME NEW L, NEW s, Threaded(L, s), NEW h \in L, flash[h].type = "HEAD"
  PROVE  Whole(h) /\ \A c \in L : s[c].head = h => \E k \in 1..Len(Chain(h)) : c = Chain(h)[k]
<1>1. PICK m \in 1..N : \E f : Row(L, s, h, m, f)
  BY FileRow
<1>2. PICK f : Row(L, s, h, m, f)
  BY <1>1
<1>3. /\ f \in [0 .. m - 1 -> L] /\ f[0] = h /\ flash[f[m - 1]].next = None
      /\ \A k \in 0 .. m - 1 : s[f[k]].head = h /\ s[f[k]].links = k
      /\ \A k \in 1 .. m - 1 : /\ f[k] = flash[f[k - 1]].next /\ flash[f[k]].type = "BODY"
                               /\ s[f[k]].from = s[f[k - 1]].from + Len(flash[f[k - 1]].data)
      /\ \A c \in L : s[c].head = h => s[c].links \in 0 .. m - 1 /\ c = f[s[c].links]
  BY <1>2 DEF Row
<1>4. /\ flash \in [Chunks -> ChunkType] /\ L \subseteq Chunks
      /\ N \in Nat /\ m \in Nat /\ m >= 1 /\ m <= N
      /\ \A c \in L : Len(flash[c].data) \in Nat /\ s[c].from \in Nat /\ flash[c].magic = "ok"
      /\ s[h].from = 0 /\ flash[h].size # None
      /\ \A c \in L : s[c].head = h /\ flash[c].next = None =>
           flash[h].size <= s[c].from + Len(flash[c].data)
  <2>1. Backed(L, s) /\ flash[h].size # None
    BY DEF Threaded
  <2>2. flash \in [Chunks -> ChunkType] /\ L \subseteq Chunks /\ s \in Spots
    BY <2>1 DEF Backed
  <2>3. \A c \in L : Len(flash[c].data) \in Nat /\ s[c].from \in Nat /\ c # None
    BY <2>2, PlaceTypes DEF Chunks, None
  <2>4. \A c \in L : s[c].head = h /\ flash[c].next = None =>
           flash[h].size <= s[c].from + Len(flash[c].data)
    BY <2>1, <2>3 DEF Backed, Files
  <2> QED BY <2>1, <2>2, <2>3, <2>4, SizesAssumption DEF Backed, Files
<1>5. Chained(flash, h, m, f)
  BY <1>3, <1>4 DEF Chained
<1>6. PICK u : u = [k \in 0..m |-> IF k = 0 THEN 0
                                   ELSE s[f[k - 1]].from + Len(flash[f[k - 1]].data)]
  OBVIOUS
<1>7. ASSUME NEW k \in 1..m PROVE u[k] \in Nat /\ u[k] = u[k - 1] + Len(flash[f[k - 1]].data)
  <2>1. k - 1 \in 0 .. m - 1 /\ f[k - 1] \in L
    BY <1>3, <1>4
  <2>2. u[k] = s[f[k - 1]].from + Len(flash[f[k - 1]].data) /\ u[k] \in Nat
    BY <1>4, <1>6, <2>1
  <2>3. CASE k = 1
    <3>1. f[k - 1] = h /\ u[k - 1] = 0
      BY <1>3, <1>4, <1>6, <2>3
    <3> QED BY <1>4, <2>1, <2>2, <3>1
  <2>4. CASE k # 1
    <3>1. k - 1 \in 1 .. m - 1 /\ k - 1 # 0 /\ k - 1 \in 0..m
      BY <1>4, <2>4
    <3>2. s[f[k - 1]].from = s[f[k - 1 - 1]].from + Len(flash[f[k - 1 - 1]].data)
      BY <1>3, <3>1
    <3>3. u[k - 1] = s[f[k - 1 - 1]].from + Len(flash[f[k - 1 - 1]].data)
      BY <1>6, <3>1
    <3> QED BY <2>2, <3>2, <3>3
  <2> QED BY <2>3, <2>4
<1>8. Counted(flash, m, f, u)
  <2>1. u[0] = 0 /\ u \in [0..m -> Nat]
    BY <1>4, <1>6, <1>7
  <2> QED BY <1>7, <2>1 DEF Counted
<1>9. Readable(flash, h, m, f, u)
  <2>1. m - 1 \in 0 .. m - 1 /\ m \in 1..m /\ m # 0
    BY <1>4
  <2>2. u[m] = s[f[m - 1]].from + Len(flash[f[m - 1]].data)
    BY <1>6, <2>1
  <2>3. flash[h].size <= u[m]
    BY <1>3, <1>4, <2>1, <2>2
  <2>4. \A k \in 1 .. m - 1 : Has(flash, f[k], "BODY")
    <3>1. \A k \in 1 .. m - 1 : f[k] \in L
      BY <1>3, <1>4
    <3> QED BY <1>3, <1>4, <3>1 DEF Has
  <2> QED BY <1>4, <1>5, <1>8, <2>3, <2>4 DEF Readable, Has
<1>10. PICK ch : /\ ch = Chain(h) /\ Whole(h) /\ Len(ch) = m
                 /\ \A k \in 1..m : ch[k] = f[k - 1]
  BY <1>4, <1>9, ReadableIs
<1>11. ASSUME NEW c \in L, s[c].head = h PROVE \E k \in 1..Len(Chain(h)) : c = Chain(h)[k]
  <2>1. s[c].links \in 0 .. m - 1 /\ c = f[s[c].links]
    BY <1>3, <1>11
  <2>2. s[c].links + 1 \in 1..m /\ s[c].links + 1 - 1 = s[c].links
    BY <1>4, <2>1
  <2>3. ch[s[c].links + 1] = c
    BY <1>10, <2>1, <2>2
  <2> QED BY <1>10, <2>2, <2>3
<1> QED BY <1>10, <1>11

\* When a repair has gone by all blocks, the live chunks are those of closed
\* files, and all that are not free.
LEMMA RepairDone ==
  ASSUME NEW L \in SUBSET Chunks, NEW s \in Spots, Sound(L), Filed(L, s),
         At("fix", "visit"), Faults = {}
  PROVE  /\ Threaded(L, s)
         /\ \A c \in Chunks : flash[c].magic = "ok" /\ flash[c].type # "FREE" => c \in L
<1>1. FlashParts(L) /\ FixMap(L) /\ FixFiles(L)
  BY InvGives
<1>2. /\ FlashTypes /\ RamTypes /\ job \in FixJobs /\ job.op = "fix" /\ job.at = "visit"
      /\ job.block \in 0..N /\ NextBad = None
  BY InvGives, JobIs DEF At, FixJobs, NextBad
<1>3. /\ Live(flash, cut, L) /\ flash \in [Chunks -> ChunkType] /\ Files(flash, L, s)
      /\ \A c \in L : map[c] = Header(flash[c]) /\ c \in Chunks
      /\ \A c \in Chunks : (map[c].magic = "ok") <=> (flash[c].magic = "ok")
  <2>1. Live(flash, cut, L)
    BY <1>1 DEF FlashParts
  <2> QED BY <1>1, <1>2, <2>1 DEF FixMap, Live, Filed, FlashTypes
<1>4. Backed(L, s)
  <2>1. \A c \in L : flash[c].type = "BODY" => ~Unlinked(flash, L, c)
    BY <1>1, <1>2, <1>3 DEF FixFiles, Chunks, None
  <2> QED BY <1>3, <2>1 DEF Backed, Live
<1>5. ASSUME NEW h \in L, flash[h].type = "HEAD" PROVE GoodLinks(h) /\ flash[h].size # None
  <2>1. h \in Chunks
    BY <1>3
  <2>2. CASE h < job.block
    BY <1>1, <1>2, <1>5, <2>2 DEF FixFiles
  <2>3. CASE ~(h < job.block)
    <3>1. h \in job.block .. N - 1
      BY <1>2, <2>1, <2>3 DEF Chunks
    <3>2. Is(h, "HEAD")
      BY <1>3, <1>5, SameInMap DEF Live, Has
    <3>3. Good(h)
      BY <3>1, <3>2 DEF Faults, BadHead
    <3> QED BY <2>1, <3>3, GoodSize DEF Good, GoodLinks, LinksToBody
  <2> QED BY <2>2, <2>3
<1>6. ASSUME NEW h \in L, flash[h].type = "HEAD"
      PROVE  \A c \in L : s[c].head = h => c \in {h} \cup Linked(h)
  <2> DEFINE T == {c \in L : s[c].head = h /\ c \notin {h} \cup Linked(h)}
  <2>1. ASSUME T # {} PROVE FALSE
    <3>1. PICK g : g = [c \in T |-> s[c].links]
      OBVIOUS
    <3>2. \A c \in T : g[c] \in Nat /\ g[c] = s[c].links
      BY <1>4, <3>1, HeadOf
    <3>3. PICK c \in T : \A d \in T : g[c] <= g[d]
      <4> HIDE DEF T
      <4> QED BY <2>1, <3>2, LeastBy
    <3>4. c \in L /\ s[c].head = h /\ s[c].head # c /\ c \notin Linked(h)
      OBVIOUS
    <3>5. PICK p \in L : /\ flash[p].next = c /\ s[c].head = s[p].head
                         /\ s[c].links = s[p].links + 1
      BY <1>4, <3>4, BodyBehind
    <3>6. p \in {h} \cup Linked(h)
      <4>1. s[p].links \in Nat /\ s[c].links \in Nat
        BY <1>4, HeadOf
      <4>2. p \notin T
        BY <3>2, <3>3, <3>5, <4>1
      <4> QED BY <3>4, <3>5, <4>2
    <3>7. LinksToBody(p) /\ map[p].next = c
      <4>1. map[p].next = c /\ map[c] = Header(flash[c]) /\ flash[c].magic = "ok"
        BY <1>3, <3>5, SameInMap DEF Live
      <4>2. flash[c].type = "BODY"
        BY <1>4, <3>4 DEF Backed, Files, ChunkType, Types
      <4>3. c # None
        BY <1>3 DEF Chunks, None
      <4> QED BY <4>1, <4>2, <4>3 DEF LinksToBody, Is, Header
    <3>8. c \in Linked(h)
      BY <1>3, <3>6, <3>7, LinkedClosed
    <3> QED BY <3>4, <3>8
  <2> QED BY <2>1
<1>7. ASSUME NEW c \in L, flash[c].next # None PROVE flash[c].next \in L
  <2>1. PICK h \in L : h = s[c].head /\ flash[h].type = "HEAD"
    BY <1>4, HeadOf
  <2>2. LinksToBody(c)
    <3>1. c \in {h} \cup Linked(h) /\ map[c].next # None
      BY <1>3, <1>6, <1>7, <2>1, SameInMap
    <3> QED BY <1>5, <2>1, <3>1 DEF GoodLinks
  <2>3. map[c].next = flash[c].next /\ flash[c].next \in Chunks
    BY <1>3, <1>7, SameInMap DEF ChunkType, Links
  <2>4. flash[flash[c].next].magic = "ok"
    BY <1>3, <2>2, <2>3 DEF LinksToBody, Is
  <2> QED BY <1>3, <1>7, <2>4 DEF Live
<1>8. ASSUME NEW c \in Chunks, flash[c].magic = "ok", flash[c].type # "FREE" PROVE c \in L
  <2>1. CASE flash[c].type = "HEAD"
    BY <1>3, <1>8, <2>1 DEF Live, Has
  <2>2. CASE flash[c].type = "BODY"
    <3>1. map[c] = Header(flash[c])
      BY <1>1, <1>2, <1>8 DEF FixMap
    <3>2. c < job.block \/ c \in job.refs
      <4> SUFFICES ASSUME ~(c < job.block) PROVE c \in job.refs
        OBVIOUS
      <4>1. c \in job.block .. N - 1
        BY <1>2 DEF Chunks
      <4>2. Is(c, "BODY")
        BY <1>8, <2>2, <3>1 DEF Is, Header
      <4> QED BY <4>1, <4>2 DEF Faults, IsLost
    <3> QED BY <1>1, <1>2, <1>8, <2>2, <3>2 DEF FixFiles, Has
  <2> QED BY <1>3, <1>8, <2>1, <2>2 DEF ChunkType, Types
<1> QED BY <1>4, <1>5, <1>7, <1>8 DEF Threaded

\* So whatever is not free is of a file that can be read.
LEMMA IInvReclaims == IInv => FixReclaims
<1> SUFFICES ASSUME IInv, At("fix", "visit"), Faults = {},
                    NEW c \in Chunks, flash[c].magic = "ok", flash[c].type # "FREE"
             PROVE  c \in OwnedChunks
  BY DEF FixReclaims
<1>1. PICK L \in SUBSET Chunks, s \in Spots : Sound(L) /\ Filed(L, s)
  BY DEF IInv
<1>2. Threaded(L, s) /\ c \in L
  BY <1>1, RepairDone
<1>3. PICK h \in L : h = s[c].head /\ flash[h].type = "HEAD"
  BY <1>2, HeadOf DEF Threaded
<1>4. Whole(h) /\ \E k \in 1..Len(Chain(h)) : c = Chain(h)[k]
  BY <1>2, <1>3, FileWhole
<1>5. h \in WholeFiles /\ c \in {Chain(h)[k] : k \in 1..Len(Chain(h))}
  BY <1>4 DEF WholeFiles
<1> QED BY <1>5 DEF OwnedChunks

-----------------------------------------------------------------------------
(* The theorems. *)

\* The steps of repair and retest.
LEMMA CheckStep ==
  ASSUME WorkAfterCut = FALSE, NEW L \in SUBSET Chunks, Sound(L), Check
  PROVE  Left(L)
<1>1. CASE FixBegin
  BY <1>1, FixBeginStep
<1>2. CASE FixVisit
  BY <1>2, FixVisitStep
<1>3. CASE FixErase
  BY <1>3, FixEraseStep
<1>4. CASE FixMagic
  BY <1>4, FixMagicStep
<1>5. CASE FixEnd
  BY <1>5, FixEndStep
<1>6. CASE RetestBegin
  BY <1>6, RetestBeginStep
<1>7. CASE RetestErase
  BY <1>7, RetestEraseStep
<1>8. CASE RetestMagic
  BY <1>8, RetestMagicStep
<1>9. CASE RetestEnd
  BY <1>9, MountAgain DEF RetestEnd
<1> QED BY <1>1, <1>2, <1>3, <1>4, <1>5, <1>6, <1>7, <1>8, <1>9 DEF Check

\* The steps of a copy.
LEMMA CopyStep ==
  ASSUME WorkAfterCut = FALSE, NEW L \in SUBSET Chunks, NEW s \in Spots, Sound(L),
         Filed(L, s), Copy
  PROVE  IInv'
<1>1. CASE \E n \in Names, z \in Sizes : CopyBegin(n, z)
  BY <1>1, CopyBeginStep, LeftIs DEF Filed
<1>2. CASE PutTake
  BY <1>2, PutTakeStep
<1>3. CASE PutHdr
  BY <1>3, PutHdrStep
<1>4. CASE PutName
  BY <1>4, PutNameStep
<1>5. CASE PutData
  BY <1>5, PutDataStep
<1>6. CASE PutGrow
  BY <1>6, PutGrowStep
<1>7. CASE PutLink
  BY <1>7, PutLinkStep
<1>8. CASE SdError
  BY <1>8, SdErrorStep
<1>9. CASE PutEnd
  BY <1>9, PutEndStep
<1>10. CASE PutFail
  BY <1>10, PutFailStep
<1> QED BY <1>1, <1>2, <1>3, <1>4, <1>5, <1>6, <1>7, <1>8, <1>9, <1>10 DEF Copy

\* Every step keeps the invariant.
LEMMA InvStep == WorkAfterCut = FALSE /\ IInv /\ [Next]_vars => IInv'
<1> SUFFICES ASSUME WorkAfterCut = FALSE, IInv, [Next]_vars PROVE IInv'
  OBVIOUS
<1>0. PICK L \in SUBSET Chunks, s \in Spots : Sound(L) /\ Filed(L, s)
  BY DEF IInv
<1>1. CASE UNCHANGED vars
  <2>1. flash' = flash /\ map' = map /\ vol' = vol /\ job' = job /\ cut' = cut
    BY <1>1 DEF vars
  <2>2. FlashTypes' /\ RamTypes'
    BY <1>0, <2>1 DEF Sound, FlashTypes, RamTypes
  <2>3. (Blank /\ Caches /\ PutStart /\ PutFile /\ FormatInv /\ RetestInv)'
    BY <1>0, <2>1 DEF Sound, FlashInv, Blank, Caches, PutStart, PutFile, FormatInv, RetestInv
  <2>4. (Live(flash, cut, L) /\ PutEnds(L) /\ RemoveInv(L))'
    BY <1>0, <2>1 DEF Sound, FlashInv, PutEnds, RemoveInv
  <2>5. FixMap(L)' /\ FixAt(L)'
    BY <1>0, <2>1 DEF Sound, FlashInv, FixMap, FixAt, Is
  <2>6. FixFiles(L)'
    BY <1>0, <2>1 DEF Sound, FlashInv, FixFiles, NextBad, GoodLinks, Linked, Closed,
       LinksToBody, Is
  <2>7. Sound(L)'
    BY <2>2, <2>3, <2>4, <2>5, <2>6 DEF Sound, FlashInv
  <2>8. Filed(L, s)'
    BY <1>0, <2>1 DEF Filed, PutTail, LastLinked
  <2> QED BY <2>7, <2>8 DEF IInv
<1>2. CASE PowerOn
  BY <1>0, <1>2, PowerOnStep, LeftIs DEF Filed
<1>3. CASE Copy
  BY <1>0, <1>3, CopyStep
<1>4. CASE Delete
  <2>1. Left(L)
    BY <1>0, <1>4, RemoveBeginStep, RemoveEraseStep, RemoveMagicStep DEF Delete
  <2> QED BY <1>0, <2>1, LeftIs DEF Filed
<1>5. CASE Format
  <2>1. FormatEnd => Left(L)
    BY <1>0, MountAgain DEF FormatEnd
  <2>2. Left(L)
    BY <1>0, <1>5, <2>1, FormatBeginStep, FormatProbeStep, FormatEraseStep, FormatMagicStep
       DEF Format
  <2> QED BY <1>0, <2>2, LeftIs DEF Filed
<1>6. CASE Check
  BY <1>0, <1>6, CheckStep, LeftIs DEF Filed
<1>7. CASE Cancel
  BY <1>0, <1>7, MountAgain, LeftIs DEF Cancel, Filed
<1>8. CASE PowerLoss
  BY <1>0, <1>8, PowerLossStep, LeftIs DEF Filed
<1> QED BY <1>1, <1>2, <1>3, <1>4, <1>5, <1>6, <1>7, <1>8 DEF Next

\* The invariant of the runs from the inductive one.
LEMMA IInvGives == IInv => Inv
<1> SUFFICES ASSUME IInv PROVE Inv
  OBVIOUS
<1>1. FlashTypes /\ RamTypes /\ Caches /\ PutStart /\ PutFile
  BY InvGives DEF IInv
<1>2. TypeOK
  <2>1. \A c \in Chunks : flash[c] \in ChunkType /\ Len(flash[c].data) <= Cap(flash[c])
    BY <1>1 DEF FlashTypes
  <2>2. job.op \in {"off", "idle", "put", "remove", "format", "fix", "retest"}
    BY <1>1 DEF RamTypes, JobType, Idle, Off, PutJobs, RemoveJobs, FormatJobs, FixJobs,
       RetestJobs
  <2>3. \A c \in Chunks : Header(flash[c]) \in HeaderType
    BY <2>1 DEF ChunkType, HeaderType, Header, Magics, Types, Links
  <2> QED BY <1>1, <2>1, <2>2, <2>3 DEF TypeOK, RamTypes, ChunkType, Cap
<1>3. CachesTrue
  BY <1>1 DEF Caches, CachesTrue, Idle
<1>4. SpaceSuffices
  <2>1. CASE At("put", "take")
    <3>1. job \in PutJobs /\ job.op = "put" /\ Required(job.size) <= vol.free /\ vol.free \in Nat
      BY <1>1, <2>1, JobIs DEF At, PutStart, RamTypes
    <3>2. job.size \in Sizes
      BY <3>1 DEF PutJobs
    <3>3. vol.free # 0
      BY <3>1, <3>2, RequiredIs
    <3> QED BY <1>1, <2>1, <3>1, <3>3, CanTakeIs DEF SpaceSuffices, At
  <2>2. CASE At("put", "data") /\ job.done < job.size /\ job.room = 0
    <3>1. job \in PutJobs /\ job.op = "put" /\ job.at = "data" /\ vol.free \in Nat
      BY <1>1, <2>2, JobIs DEF At, RamTypes
    <3>2. job.size - job.done - job.room <= BodyRoom * vol.free
      BY <1>1, <3>1 DEF PutFile
    <3>3. job.size \in Nat /\ job.done \in Nat /\ BodyRoom \in Nat
      <4>1. job.size \in Sizes /\ job.done \in Nat
        BY <3>1 DEF PutJobs
      <4> QED BY <4>1, SizesAssumption
    <3>4. vol.free # 0
      <4> SUFFICES ASSUME vol.free = 0 PROVE FALSE
        OBVIOUS
      <4>1. BodyRoom * vol.free = 0
        BY <3>3
      <4> QED BY <2>2, <3>2, <3>3, <4>1
    <3>5. CanTake
      BY <1>1, <3>1, <3>4, CanTakeIs
    <3> QED BY <3>5 DEF SpaceSuffices
  <2>3. CASE ~At("put", "take") /\ ~(At("put", "data") /\ job.done < job.size /\ job.room = 0)
    BY <2>3 DEF SpaceSuffices
  <2> QED BY <2>1, <2>2, <2>3
<1> QED BY <1>2, <1>3, <1>4 DEF Inv

\* IInv holds at all times: a copy, a deletion, a format, a repair and a retest
\* keep it at every step, and so does the loss of power before each of them.
THEOREM Inductive == ASSUME WorkAfterCut = FALSE PROVE Spec => []IInv
<1>1. Init => IInv
  BY InitStep
<1>2. IInv /\ [Next]_vars => IInv'
  BY InvStep
<1> QED BY <1>1, <1>2, PTL DEF Spec

\* For every flash, every size of the chunks and whatever files come and go, the
\* map and the counts in RAM (tsf_read_int, tsf_write_int) are those of the flash
\* whenever no check or format runs, and a copy setup_tsf_required_space let
\* begin never runs out of chunks; as long as, after a format was cut short, no
\* file is copied or deleted and no block retested before a repair.
THEOREM CachesAndRoom == ASSUME WorkAfterCut = FALSE PROVE Spec => []Inv
BY Inductive, IInvGives, PTL

\* When a repair (setup_tsf_check) has gone through all blocks of any flash, each
\* block with a magic number is free or belongs to a file that can be read to
\* its end, whatever power failures, failed copies and cut formats have left; as
\* long as no file was copied or deleted and no block retested after a format
\* was cut short.
THEOREM RepairReclaims == ASSUME WorkAfterCut = FALSE PROVE Spec => []FixReclaims
BY Inductive, IInvReclaims, PTL

-----------------------------------------------------------------------------
(* The files that can be read, and what a write leaves of them. *)

\* Unit i of the file with the chunks r, and the file.
UnitOf(f, r, i) ==
  LET j == i - HeadRoom - 1
  IN IF i <= HeadRoom THEN f[r[0]].data[i]
     ELSE f[r[1 + (j \div BodyRoom)]].data[1 + (j % BodyRoom)]
FileOf(f, r) ==
  [name |-> f[r[0]].name, data |-> [i \in 1..f[r[0]].size |-> UnitOf(f, r, i)]]

\* A file of the flash f, by its chunks.
IsFile(f, x) ==
  \E h \in Chunks, m \in 1..N : \E r, u : Readable(f, h, m, r, u) /\ x = FileOf(f, r)

\* The flash as the store sees it.
AllFiles == {FileAt(h) : h \in WholeFiles}

\* No chunk has more data than room.
Filled(f) == f \in [Chunks -> ChunkType] /\ \A c \in Chunks : Len(f[c].data) <= Cap(f[c])

\* What is before a chunk fits in those before.
LEMMA CountBound ==
  ASSUME NEW f, Filled(f), NEW h \in Chunks, NEW m \in 1..N, NEW r, NEW u,
         Readable(f, h, m, r, u), NEW n \in 1..m
  PROVE  u[n] <= HeadRoom + BodyRoom * (n - 1)
<1>0. /\ N \in Nat /\ HeadRoom \in Nat /\ BodyRoom \in Nat /\ m \in Nat /\ m >= 1 /\ m <= N
  BY SizesAssumption
<1>1. /\ r \in [0 .. m - 1 -> Chunks] /\ r[0] = h /\ u \in [0..m -> Nat] /\ u[0] = 0
      /\ \A k \in 1..m : u[k] = u[k - 1] + Len(f[r[k - 1]].data)
  BY DEF Readable, Chained, Counted
<1>2. \A c \in Chunks : Len(f[c].data) \in Nat
  BY DEF Filled, ChunkType
<1>3. /\ Len(f[r[0]].data) <= HeadRoom
      /\ \A k \in 1 .. m - 1 : Len(f[r[k]].data) <= BodyRoom
  <2>1. f[h].type = "HEAD" /\ \A k \in 1 .. m - 1 : f[r[k]].type = "BODY"
    BY DEF Readable, Has
  <2>2. \A k \in 1 .. m - 1 : r[k] \in Chunks
    BY <1>0, <1>1
  <2> QED BY <1>1, <2>1, <2>2 DEF Filled, Cap
<1> DEFINE T == {k \in 1..m : ~(u[k] <= HeadRoom + BodyRoom * (k - 1))}
<1>4. ASSUME T # {} PROVE FALSE
  <2>1. T \in SUBSET Nat
    BY <1>0
  <2>2. PICK k \in T : \A j \in T : k <= j
    <3> HIDE DEF T
    <3> QED BY <1>4, <2>1, LeastNumber
  <2>3. k \in 1..m /\ k \in Nat /\ ~(u[k] <= HeadRoom + BodyRoom * (k - 1))
    BY <1>0
  <2>4. CASE k = 1
    <3>1. u[1] = u[0] + Len(f[r[0]].data) /\ Len(f[r[0]].data) \in Nat
      BY <1>0, <1>1, <1>2
    <3>2. BodyRoom * (k - 1) = 0
      BY <1>0, <2>4
    <3> QED BY <1>0, <1>1, <1>3, <2>3, <2>4, <3>1, <3>2
  <2>5. CASE k # 1
    <3>1. /\ k - 1 \in 1 .. m - 1 /\ k - 1 \in 0 .. m - 1 /\ k - 1 \in 1..m
          /\ k - 1 \in Nat /\ k - 1 >= 1
      BY <1>0, <2>3, <2>5
    <3>2. k - 1 \notin T
      <4> HIDE DEF T
      <4> QED BY <2>2, <2>3
    <3>3. u[k - 1] <= HeadRoom + BodyRoom * (k - 1 - 1) /\ u[k - 1] \in Nat
      BY <1>0, <1>1, <3>1, <3>2
    <3>4. u[k] = u[k - 1] + Len(f[r[k - 1]].data) /\ Len(f[r[k - 1]].data) \in Nat
      BY <1>1, <1>2, <2>3, <3>1
    <3>5. BodyRoom * (k - 1) = BodyRoom * (k - 1 - 1) + BodyRoom /\ BodyRoom * (k - 1 - 1) \in Nat
      BY <3>1, OneLess
    <3> QED BY <1>0, <1>3, <2>3, <3>1, <3>3, <3>4, <3>5
  <2> QED BY <2>4, <2>5
<1>5. n \notin T
  <2> HIDE DEF T
  <2> QED BY <1>4
<1> QED BY <1>0, <1>5

\* Where a unit behind the first chunk is.
LEMMA UnitPlace ==
  ASSUME NEW i \in Nat, NEW m \in Nat, m >= 1, i > HeadRoom, i <= HeadRoom + BodyRoom * (m - 1),
         NEW j, j = i - HeadRoom - 1
  PROVE  /\ 1 + (j \div BodyRoom) \in 1 .. m - 1 /\ j % BodyRoom \in 0 .. BodyRoom - 1
         /\ i = HeadRoom + BodyRoom * (j \div BodyRoom) + 1 + (j % BodyRoom)
<1>0. HeadRoom \in Nat /\ BodyRoom \in Nat /\ BodyRoom >= 1 /\ j \in Nat
  BY SizesAssumption
<1>1. PICK q, w : q = j \div BodyRoom /\ w = j % BodyRoom
  OBVIOUS
<1>2. q \in Nat /\ w \in 0 .. BodyRoom - 1 /\ j = BodyRoom * q + w
  BY <1>0, <1>1
<1>3. q < m - 1
  <2> SUFFICES ASSUME q >= m - 1 PROVE FALSE
    BY <1>2
  <2>1. PICK x \in Nat : q = m - 1 + x
    <3>1. q - (m - 1) \in Nat /\ q = m - 1 + (q - (m - 1))
      BY <1>2
    <3> QED BY <3>1
  <2>2. BodyRoom * q = BodyRoom * (m - 1) + BodyRoom * x /\ BodyRoom * x \in Nat
    BY <1>0, <2>1
  <2>3. j < BodyRoom * (m - 1) /\ BodyRoom * (m - 1) \in Nat
    BY <1>0
  <2> QED BY <1>0, <1>2, <2>2, <2>3
<1>4. BodyRoom * q \in Nat
  BY <1>0, <1>2
<1> QED BY <1>0, <1>1, <1>2, <1>3, <1>4

\* The chunk a unit of a file is in.
LEMMA UnitChunk ==
  ASSUME NEW f, Filled(f), NEW h \in Chunks, NEW m \in 1..N, NEW r, NEW u,
         Readable(f, h, m, r, u), NEW i \in 1..f[h].size, i > HeadRoom
  PROVE  1 + ((i - HeadRoom - 1) \div BodyRoom) \in 1 .. m - 1
<1>0. m \in Nat /\ m >= 1 /\ m \in 1..m /\ HeadRoom \in Nat /\ BodyRoom \in Nat
  BY SizesAssumption
<1>1. f[h].size \in Nat /\ f[h].size <= u[m] /\ u[m] \in Nat
  BY <1>0 DEF Readable, Counted, Filled, ChunkType
<1>2. u[m] <= HeadRoom + BodyRoom * (m - 1)
  BY <1>0, CountBound
<1>3. BodyRoom * (m - 1) \in Nat
  BY <1>0
<1>4. i \in Nat /\ i <= HeadRoom + BodyRoom * (m - 1)
  BY <1>0, <1>1, <1>2, <1>3
<1>5. PICK j : j = i - HeadRoom - 1
  OBVIOUS
<1>6. 1 + (j \div BodyRoom) \in 1 .. m - 1
  BY <1>0, <1>4, <1>5, UnitPlace
<1> QED BY <1>5, <1>6

\* A file that can be read is what its chunks hold.
LEMMA FileAtIs ==
  ASSUME Filled(flash), NEW h \in Chunks, NEW m \in 1..N, NEW r, NEW u,
         Readable(flash, h, m, r, u)
  PROVE  Whole(h) /\ FileAt(h) = FileOf(flash, r)
<1>0. m \in Nat /\ m >= 1 /\ r[0] = h
  BY SizesAssumption DEF Readable, Chained
<1>1. PICK ch : ch = Chain(h)
  OBVIOUS
<1>2. Whole(h) /\ \A k \in 1..m : ch[k] = r[k - 1]
  BY <1>1, ReadableIs DEF Filled
<1>3. ASSUME NEW i \in 1..flash[h].size PROVE Unit(ch, i) = UnitOf(flash, r, i)
  <2>1. CASE i <= HeadRoom
    <3>1. ch[1] = r[0]
      BY <1>0, <1>2
    <3> QED BY <2>1, <3>1 DEF Unit, UnitOf
  <2>2. CASE ~(i <= HeadRoom)
    <3>0. flash[h].size \in Int
      BY DEF Filled, ChunkType, None
    <3>1. PICK q \in Int : q = (i - HeadRoom - 1) \div BodyRoom
      BY <3>0, SizesAssumption
    <3>2. i > HeadRoom
      BY <2>2, <3>0, SizesAssumption
    <3>3. 1 + q \in 1 .. m - 1
      BY <3>1, <3>2, UnitChunk
    <3>4. PICK k \in 1..m : k = 2 + q /\ k - 1 = 1 + q
      BY <1>0, <3>3
    <3>5. ch[2 + q] = r[1 + q]
      BY <1>2, <3>4
    <3> QED BY <2>2, <3>1, <3>5 DEF Unit, UnitOf
  <2> QED BY <2>1, <2>2
<1> QED BY <1>0, <1>1, <1>2, <1>3 DEF FileAt, FileOf

\* So the whole files are those whose chunks can be read.
LEMMA FilesAre == Filled(flash) => \A x : x \in AllFiles <=> IsFile(flash, x)
<1> SUFFICES ASSUME Filled(flash), NEW x PROVE x \in AllFiles <=> IsFile(flash, x)
  OBVIOUS
<1>1. ASSUME x \in AllFiles PROVE IsFile(flash, x)
  <2>1. PICK h \in Chunks : Whole(h) /\ x = FileAt(h)
    BY <1>1 DEF AllFiles, WholeFiles
  <2>2. PICK m \in 1..N : \E r, u : Readable(flash, h, m, r, u)
    BY <2>1, WholeReads DEF Filled
  <2>3. PICK r, u : Readable(flash, h, m, r, u)
    BY <2>2
  <2>4. x = FileOf(flash, r)
    BY <2>1, <2>3, FileAtIs
  <2> QED BY <2>3, <2>4 DEF IsFile
<1>2. ASSUME IsFile(flash, x) PROVE x \in AllFiles
  <2>1. PICK h \in Chunks, m \in 1..N :
          \E r, u : Readable(flash, h, m, r, u) /\ x = FileOf(flash, r)
    BY <1>2 DEF IsFile
  <2>2. PICK r, u : Readable(flash, h, m, r, u) /\ x = FileOf(flash, r)
    BY <2>1
  <2>3. Whole(h) /\ FileAt(h) = FileOf(flash, r)
    BY <2>2, FileAtIs
  <2> QED BY <2>2, <2>3 DEF AllFiles, WholeFiles
<1> QED BY <1>1, <1>2

\* In the next state too.
LEMMA FilesNext == Filled(flash') => \A x : x \in AllFiles' <=> IsFile(flash', x)
<1>1. Filled(flash) => \A x : x \in AllFiles <=> IsFile(flash, x)
  BY FilesAre
<1>2. (Filled(flash) => \A x : x \in AllFiles <=> IsFile(flash, x))'
  BY <1>1, PTL
<1> QED BY <1>2

\* A chunk is of no file that can be read.
Clear(f, c) ==
  \A h \in Chunks, m \in 1..N : \A r, u :
    Readable(f, h, m, r, u) => \A k \in 0 .. m - 1 : r[k] # c

\* A file is the same where its chunks are.
LEMMA FileAway ==
  ASSUME NEW f, NEW g, Filled(f), Filled(g), NEW h \in Chunks, NEW m \in 1..N, NEW r, NEW u,
         Readable(f, h, m, r, u), \A k \in 0 .. m - 1 : g[r[k]] = f[r[k]]
  PROVE  Readable(g, h, m, r, u) /\ FileOf(g, r) = FileOf(f, r)
<1>0. m \in Nat /\ m >= 1 /\ m - 1 \in 0 .. m - 1 /\ 0 \in 0 .. m - 1
  BY SizesAssumption
<1>1. /\ r \in [0 .. m - 1 -> Chunks] /\ r[0] = h /\ f[r[m - 1]].next = None
      /\ \A k \in 1 .. m - 1 : r[k] = f[r[k - 1]].next
      /\ Counted(f, m, r, u)
      /\ Has(f, h, "HEAD") /\ f[h].size # None /\ f[h].size <= u[m]
      /\ \A k \in 1 .. m - 1 : Has(f, r[k], "BODY")
  BY DEF Readable, Chained
<1>2. \A k \in 1..m : k - 1 \in 0 .. m - 1
  BY <1>0
<1>3. \A k \in 1 .. m - 1 : k - 1 \in 0 .. m - 1 /\ k \in 0 .. m - 1
  BY <1>0
<1>4. Chained(g, h, m, r)
  BY <1>0, <1>1, <1>3 DEF Chained
<1>5. Counted(g, m, r, u)
  BY <1>1, <1>2 DEF Counted
<1>6. g[h] = f[h]
  BY <1>0, <1>1
<1>7. \A k \in 1 .. m - 1 : Has(g, r[k], "BODY")
  BY <1>1, <1>3 DEF Has
<1>8. Readable(g, h, m, r, u)
  BY <1>1, <1>4, <1>5, <1>6, <1>7 DEF Readable, Has
<1>9. ASSUME NEW i \in 1..f[h].size PROVE UnitOf(g, r, i) = UnitOf(f, r, i)
  <2>1. CASE i <= HeadRoom
    BY <1>0, <2>1 DEF UnitOf
  <2>2. CASE ~(i <= HeadRoom)
    <3>1. PICK q : q = 1 + ((i - HeadRoom - 1) \div BodyRoom)
      OBVIOUS
    <3>2. f[h].size \in Int
      BY DEF Filled, ChunkType, None
    <3>3. q \in 0 .. m - 1
      <4>1. i > HeadRoom
        BY <2>2, <3>2, SizesAssumption
      <4> QED BY <3>1, <4>1, UnitChunk
    <3>4. g[r[q]] = f[r[q]]
      BY <3>3
    <3> QED BY <2>2, <3>1, <3>4 DEF UnitOf
  <2> QED BY <2>1, <2>2
<1>10. FileOf(g, r) = FileOf(f, r)
  BY <1>1, <1>6, <1>9 DEF FileOf
<1> QED BY <1>8, <1>10

\* Files stay the same when no chunk of one changes.
LEMMA FilesSame ==
  ASSUME NEW f, NEW g, Filled(f), Filled(g),
         \A c \in Chunks : g[c] = f[c] \/ (Clear(f, c) /\ Clear(g, c)), NEW x
  PROVE  IsFile(g, x) <=> IsFile(f, x)
<1>1. ASSUME IsFile(f, x) PROVE IsFile(g, x)
  <2>1. PICK h \in Chunks, m \in 1..N : \E r, u : Readable(f, h, m, r, u) /\ x = FileOf(f, r)
    BY <1>1 DEF IsFile
  <2>2. PICK r, u : Readable(f, h, m, r, u) /\ x = FileOf(f, r)
    BY <2>1
  <2>3. \A k \in 0 .. m - 1 : r[k] \in Chunks /\ ~Clear(f, r[k])
    BY <2>2 DEF Clear, Readable, Chained
  <2>4. \A k \in 0 .. m - 1 : g[r[k]] = f[r[k]]
    BY <2>3
  <2>5. Readable(g, h, m, r, u) /\ FileOf(g, r) = FileOf(f, r)
    BY <2>2, <2>4, FileAway
  <2> QED BY <2>2, <2>5 DEF IsFile
<1>2. ASSUME IsFile(g, x) PROVE IsFile(f, x)
  <2>1. PICK h \in Chunks, m \in 1..N : \E r, u : Readable(g, h, m, r, u) /\ x = FileOf(g, r)
    BY <1>2 DEF IsFile
  <2>2. PICK r, u : Readable(g, h, m, r, u) /\ x = FileOf(g, r)
    BY <2>1
  <2>3. \A k \in 0 .. m - 1 : r[k] \in Chunks /\ ~Clear(g, r[k])
    BY <2>2 DEF Clear, Readable, Chained
  <2>4. \A k \in 0 .. m - 1 : f[r[k]] = g[r[k]]
    BY <2>3
  <2>5. Readable(f, h, m, r, u) /\ FileOf(f, r) = FileOf(g, r)
    BY <2>2, <2>4, FileAway
  <2> QED BY <2>2, <2>5 DEF IsFile
<1> QED BY <1>1, <1>2

\* A head that is not closed, or a chunk without a file, can be in none.
LEMMA ClearDead ==
  ASSUME NEW f, NEW c \in Chunks, ~Has(f, c, "BODY"),
         ~(Has(f, c, "HEAD") /\ f[c].size # None)
  PROVE  Clear(f, c)
<1> SUFFICES ASSUME NEW h \in Chunks, NEW m \in 1..N, NEW r, NEW u, Readable(f, h, m, r, u),
                    NEW k \in 0 .. m - 1, r[k] = c
             PROVE  FALSE
  BY DEF Clear
<1>1. CASE k = 0
  BY <1>1 DEF Readable, Chained
<1>2. CASE k # 0
  <2>1. k \in 1 .. m - 1
    BY <1>2, SizesAssumption
  <2> QED BY <2>1 DEF Readable
<1> QED BY <1>1, <1>2

\* The live chunks L of a flash, with their places s in the files.
Placed(f, L, s) ==
  /\ L \subseteq Chunks /\ s \in Spots /\ f \in [Chunks -> ChunkType]
  /\ Files(f, L, s) /\ \E k : Live(f, k, L)

\* The chunks of a file that can be read are live and have their places in it.
LEMMA RowLive ==
  ASSUME NEW f, NEW L, NEW s, Placed(f, L, s), NEW h \in Chunks, NEW m \in 1..N, NEW r, NEW u,
         Readable(f, h, m, r, u), NEW n \in 0 .. m - 1
  PROVE  r[n] \in L /\ s[r[n]].head = h /\ s[r[n]].links = n
<1>0. /\ N \in Nat /\ m \in Nat /\ m >= 1 /\ L \subseteq Chunks /\ s \in Spots
      /\ f \in [Chunks -> ChunkType] /\ Files(f, L, s)
  BY SizesAssumption DEF Placed
<1>1. PICK v : Live(f, v, L)
  BY DEF Placed
<1>2. /\ r \in [0 .. m - 1 -> Chunks] /\ r[0] = h /\ Has(f, h, "HEAD")
      /\ \A k \in 1 .. m - 1 : r[k] = f[r[k - 1]].next /\ Has(f, r[k], "BODY")
  BY DEF Readable, Chained
<1>3. h \in L /\ s[h].head = h /\ s[h].links = 0
  BY <1>0, <1>1, <1>2 DEF Live, Files, Has
<1> DEFINE T == {k \in 0 .. m - 1 : ~(r[k] \in L /\ s[r[k]].head = h /\ s[r[k]].links = k)}
<1>4. ASSUME T # {} PROVE FALSE
  <2>1. T \in SUBSET Nat
    BY <1>0
  <2>2. PICK k \in T : \A j \in T : k <= j
    <3> HIDE DEF T
    <3> QED BY <1>4, <2>1, LeastNumber
  <2>3. k \in 0 .. m - 1 /\ ~(r[k] \in L /\ s[r[k]].head = h /\ s[r[k]].links = k) /\ k # 0
    BY <1>2, <1>3
  <2>4. k \in 1 .. m - 1 /\ k - 1 \in 0 .. m - 1 /\ k \in Nat
    BY <1>0, <2>3
  <2>5. k - 1 \notin T
    <3> HIDE DEF T
    <3> QED BY <2>2, <2>4
  <2>6. PICK p : p = r[k - 1]
    OBVIOUS
  <2>7. p \in L /\ s[p].head = h /\ s[p].links = k - 1
    BY <2>4, <2>5, <2>6
  <2>8. PICK c \in Chunks : c = r[k] /\ c = f[p].next /\ Has(f, c, "BODY") /\ c # None
    <3>1. r[k] \in Chunks /\ r[k] = f[r[k - 1]].next /\ Has(f, r[k], "BODY")
      BY <1>2, <2>3, <2>4
    <3> QED BY <2>6, <3>1 DEF Chunks, None
  <2>9. c \in L
    BY <1>1, <2>7, <2>8 DEF Live, Has
  <2>10. s[c].head = h /\ s[c].links = k
    BY <1>0, <2>4, <2>7, <2>8, <2>9 DEF Files
  <2> QED BY <2>3, <2>8, <2>9, <2>10
<1>5. n \notin T
  <2> HIDE DEF T
  <2> QED BY <1>4
<1> QED BY <1>5

\* So a chunk that is not live is in none, ...
LEMMA ClearUnlive ==
  ASSUME NEW f, NEW L, NEW s, Placed(f, L, s), NEW c, c \notin L
  PROVE  Clear(f, c)
<1> SUFFICES ASSUME NEW h \in Chunks, NEW m \in 1..N, NEW r, NEW u, Readable(f, h, m, r, u),
                    NEW k \in 0 .. m - 1, r[k] = c
             PROVE  FALSE
  BY DEF Clear
<1> QED BY RowLive

\* ... nor one of a file that is not closed, ...
LEMMA ClearOpen ==
  ASSUME NEW f, NEW L, NEW s, Placed(f, L, s), NEW c, NEW h, s[c].head = h, f[h].size = None
  PROVE  Clear(f, c)
<1> SUFFICES ASSUME NEW d \in Chunks, NEW m \in 1..N, NEW r, NEW u, Readable(f, d, m, r, u),
                    NEW k \in 0 .. m - 1, r[k] = c
             PROVE  FALSE
  BY DEF Clear
<1>1. s[c].head = d
  BY RowLive
<1>2. f[d].size # None
  BY DEF Readable
<1> QED BY <1>1, <1>2

\* ... nor a body nothing links to.
LEMMA ClearUnlinked ==
  ASSUME NEW f, NEW L, NEW s, Placed(f, L, s), NEW c, Unlinked(f, L, c), ~Has(f, c, "HEAD")
  PROVE  Clear(f, c)
<1> SUFFICES ASSUME NEW h \in Chunks, NEW m \in 1..N, NEW r, NEW u, Readable(f, h, m, r, u),
                    NEW k \in 0 .. m - 1, r[k] = c
             PROVE  FALSE
  BY DEF Clear
<1>1. k # 0
  BY DEF Readable, Chained
<1>2. k \in 1 .. m - 1 /\ k - 1 \in 0 .. m - 1
  BY <1>1, SizesAssumption
<1>3. r[k - 1] \in L
  BY <1>2, RowLive
<1>4. f[r[k - 1]].next = c
  BY <1>2 DEF Readable, Chained
<1> QED BY <1>3, <1>4 DEF Unlinked

\* The files of a flash that has lost one of a given name, whose head was c.
LEMMA FilesDrop ==
  ASSUME NEW f, NEW g, Filled(f), Filled(g), NEW c \in Chunks,
         \A d \in Chunks \ {c} : g[d] = f[d], Clear(g, c), Has(f, c, "HEAD"), NEW n,
         \A d \in Chunks : Has(f, d, "HEAD") /\ f[d].size # None => (f[d].name = n <=> d = c), NEW x
  PROVE  IsFile(g, x) <=> IsFile(f, x) /\ x.name # n
<1>1. ASSUME IsFile(f, x), x.name # n PROVE IsFile(g, x)
  <2>1. PICK h \in Chunks, m \in 1..N : \E r, u : Readable(f, h, m, r, u) /\ x = FileOf(f, r)
    BY <1>1 DEF IsFile
  <2>2. PICK r, u : Readable(f, h, m, r, u) /\ x = FileOf(f, r)
    BY <2>1
  <2>3. r[0] = h /\ \A k \in 0 .. m - 1 : r[k] \in Chunks
    BY <2>2 DEF Readable, Chained
  <2>4. h # c
    <3>1. x.name = f[h].name
      BY <2>2, <2>3 DEF FileOf
    <3>2. Has(f, h, "HEAD") /\ f[h].size # None
      BY <2>2 DEF Readable
    <3> QED BY <1>1, <3>1, <3>2
  <2>5. ASSUME NEW k \in 0 .. m - 1 PROVE r[k] # c
    <3>1. CASE k = 0
      BY <2>3, <2>4, <3>1
    <3>2. CASE k # 0
      <4>1. k \in 1 .. m - 1
        BY <3>2, SizesAssumption
      <4>2. Has(f, r[k], "BODY")
        BY <2>2, <4>1 DEF Readable
      <4> QED BY <4>2 DEF Has
    <3> QED BY <3>1, <3>2
  <2>6. \A k \in 0 .. m - 1 : g[r[k]] = f[r[k]]
    BY <2>3, <2>5
  <2>7. Readable(g, h, m, r, u) /\ FileOf(g, r) = FileOf(f, r)
    BY <2>2, <2>6, FileAway
  <2> QED BY <2>2, <2>7 DEF IsFile
<1>2. ASSUME IsFile(g, x) PROVE IsFile(f, x) /\ x.name # n
  <2>1. PICK h \in Chunks, m \in 1..N : \E r, u : Readable(g, h, m, r, u) /\ x = FileOf(g, r)
    BY <1>2 DEF IsFile
  <2>2. PICK r, u : Readable(g, h, m, r, u) /\ x = FileOf(g, r)
    BY <2>1
  <2>3. r[0] = h /\ \A k \in 0 .. m - 1 : r[k] \in Chunks /\ r[k] # c
    <3>1. r[0] = h /\ \A k \in 0 .. m - 1 : r[k] \in Chunks
      BY <2>2 DEF Readable, Chained
    <3>2. \A k \in 0 .. m - 1 : r[k] # c
      BY <2>2 DEF Clear
    <3> QED BY <3>1, <3>2
  <2>4. \A k \in 0 .. m - 1 : f[r[k]] = g[r[k]]
    BY <2>3
  <2>5. Readable(f, h, m, r, u) /\ FileOf(f, r) = FileOf(g, r)
    BY <2>2, <2>4, FileAway
  <2>6. h # c
    <3>1. 0 \in 0 .. m - 1
      BY SizesAssumption
    <3> QED BY <2>3, <3>1
  <2>7. Has(f, h, "HEAD") /\ f[h].size # None
    BY <2>5 DEF Readable
  <2>8. x.name = f[h].name
    BY <2>2, <2>3, <2>5 DEF FileOf
  <2> QED BY <2>2, <2>5, <2>6, <2>7, <2>8 DEF IsFile
<1> QED BY <1>1, <1>2

\* Of one that has lost chunks all files that are left were there.
LEMMA FilesLost ==
  ASSUME NEW f, NEW g, Filled(f), Filled(g), \A c \in Chunks : g[c] = f[c] \/ Clear(g, c),
         NEW x, IsFile(g, x)
  PROVE  IsFile(f, x)
<1>1. PICK h \in Chunks, m \in 1..N : \E r, u : Readable(g, h, m, r, u) /\ x = FileOf(g, r)
  BY DEF IsFile
<1>2. PICK r, u : Readable(g, h, m, r, u) /\ x = FileOf(g, r)
  BY <1>1
<1>3. \A k \in 0 .. m - 1 : r[k] \in Chunks /\ ~Clear(g, r[k])
  BY <1>2 DEF Clear, Readable, Chained
<1>4. \A k \in 0 .. m - 1 : f[r[k]] = g[r[k]]
  BY <1>3
<1>5. Readable(f, h, m, r, u) /\ FileOf(f, r) = FileOf(g, r)
  BY <1>2, <1>4, FileAway
<1> QED BY <1>2, <1>5 DEF IsFile

\* A head has one file.
LEMMA OneFile ==
  Filled(flash) =>
    \A h \in Chunks, m \in 1..N, n \in 1..N : \A r, u, q, v :
      Readable(flash, h, m, r, u) /\ Readable(flash, h, n, q, v) =>
        FileOf(flash, r) = FileOf(flash, q)
<1> SUFFICES ASSUME Filled(flash), NEW h \in Chunks, NEW m \in 1..N, NEW n \in 1..N, NEW r, NEW u,
                    NEW q, NEW v, Readable(flash, h, m, r, u), Readable(flash, h, n, q, v)
             PROVE  FileOf(flash, r) = FileOf(flash, q)
  OBVIOUS
<1>1. FileAt(h) = FileOf(flash, r)
  BY FileAtIs
<1>2. FileAt(h) = FileOf(flash, q)
  BY FileAtIs
<1> QED BY <1>1, <1>2

\* In the next state too.
LEMMA OneFileNext ==
  Filled(flash') =>
    \A h \in Chunks, m \in 1..N, n \in 1..N : \A r, u, q, v :
      Readable(flash', h, m, r, u) /\ Readable(flash', h, n, q, v) =>
        FileOf(flash', r) = FileOf(flash', q)
<1>1. (Filled(flash) =>
         \A h \in Chunks, m \in 1..N, n \in 1..N : \A r, u, q, v :
           Readable(flash, h, m, r, u) /\ Readable(flash, h, n, q, v) =>
             FileOf(flash, r) = FileOf(flash, q))'
  BY OneFile, PTL
<1> QED BY <1>1

\* The files of a flash in which that of the head c has been closed.
LEMMA FilesAdd ==
  ASSUME Filled(flash), Filled(flash'), NEW c \in Chunks,
         \A d \in Chunks \ {c} : flash'[d] = flash[d], Clear(flash, c),
         NEW m \in 1..N, NEW r, NEW u, Readable(flash', c, m, r, u), NEW x
  PROVE  IsFile(flash', x) <=> IsFile(flash, x) \/ x = FileOf(flash', r)
<1>1. ASSUME IsFile(flash, x) PROVE IsFile(flash', x)
  <2>1. PICK h \in Chunks, n \in 1..N :
          \E q, v : Readable(flash, h, n, q, v) /\ x = FileOf(flash, q)
    BY <1>1 DEF IsFile
  <2>2. PICK q, v : Readable(flash, h, n, q, v) /\ x = FileOf(flash, q)
    BY <2>1
  <2>3. \A k \in 0 .. n - 1 : q[k] \in Chunks /\ q[k] # c
    <3>1. \A k \in 0 .. n - 1 : q[k] # c
      BY <2>2 DEF Clear
    <3> QED BY <2>2, <3>1 DEF Readable, Chained
  <2>4. Readable(flash', h, n, q, v) /\ FileOf(flash', q) = FileOf(flash, q)
    BY <2>2, <2>3, FileAway
  <2> QED BY <2>2, <2>4 DEF IsFile
<1>2. ASSUME IsFile(flash', x), x # FileOf(flash', r) PROVE IsFile(flash, x)
  <2>1. PICK h \in Chunks, n \in 1..N :
          \E q, v : Readable(flash', h, n, q, v) /\ x = FileOf(flash', q)
    BY <1>2 DEF IsFile
  <2>2. PICK q, v : Readable(flash', h, n, q, v) /\ x = FileOf(flash', q)
    BY <2>1
  <2>3. h # c
    BY <1>2, <2>2, OneFileNext
  <2>4. ASSUME NEW k \in 0 .. n - 1 PROVE q[k] \in Chunks \ {c}
    <3>1. q[k] \in Chunks /\ q[0] = h
      BY <2>2 DEF Readable, Chained
    <3>2. CASE k = 0
      BY <2>3, <3>1, <3>2
    <3>3. CASE k # 0
      <4>1. k \in 1 .. n - 1
        BY <3>3, SizesAssumption
      <4>2. Has(flash', q[k], "BODY") /\ Has(flash', c, "HEAD")
        BY <2>2, <4>1 DEF Readable
      <4> QED BY <3>1, <4>2 DEF Has
    <3> QED BY <3>2, <3>3
  <2>5. \A k \in 0 .. n - 1 : flash[q[k]] = flash'[q[k]]
    BY <2>4
  <2>6. Readable(flash, h, n, q, v) /\ FileOf(flash, q) = FileOf(flash', q)
    BY <2>2, <2>5, FileAway
  <2> QED BY <2>2, <2>6 DEF IsFile
<1>3. IsFile(flash', FileOf(flash', r))
  BY DEF IsFile
<1> QED BY <1>1, <1>2, <1>3

-----------------------------------------------------------------------------
(* Steps of the store. *)

\* What the store sees of the job.
LEMMA TaskIs ==
  /\ job.op = "put" => Task = [op |-> "put", name |-> job.name, size |-> job.size]
  /\ job.op = "remove" => Task = [op |-> "remove", name |-> job.name]
  /\ job.op = "format" => Task = [op |-> "format"]
  /\ job.op \notin {"put", "remove", "format"} => Task = [op |-> "none"]
<1>1. job.op = "put" => Task = [op |-> "put", name |-> job.name, size |-> job.size]
  BY DEF Task
<1>2. job.op = "remove" => Task = [op |-> "remove", name |-> job.name]
  BY DEF Task
<1>3. job.op = "format" => Task = [op |-> "format"]
  BY DEF Task
<1>4. job.op \notin {"put", "remove", "format"} => Task = [op |-> "none"]
  BY DEF Task
<1> QED BY <1>1, <1>2, <1>3, <1>4

\* After a step.
LEMMA TaskNext ==
  /\ job'.op = "put" => Task' = [op |-> "put", name |-> job'.name, size |-> job'.size]
  /\ job'.op = "remove" => Task' = [op |-> "remove", name |-> job'.name]
  /\ job'.op = "format" => Task' = [op |-> "format"]
  /\ job'.op \notin {"put", "remove", "format"} => Task' = [op |-> "none"]
<1>1. (/\ job.op = "put" => Task = [op |-> "put", name |-> job.name, size |-> job.size]
       /\ job.op = "remove" => Task = [op |-> "remove", name |-> job.name]
       /\ job.op = "format" => Task = [op |-> "format"]
       /\ job.op \notin {"put", "remove", "format"} => Task = [op |-> "none"])'
  BY TaskIs, PTL
<1> QED BY <1>1

\* A step of the store, or none.
FStep == [Store!FNext]_(Store!fvars)

\* It does nothing when the files and the task stay, ...
LEMMA StepNone ==
  ASSUME AllFiles' = AllFiles, Task' = Task
  PROVE  FStep
BY DEF FStep, Store!fvars, AllFiles

\* ... or ends the task.
LEMMA StepEnd ==
  ASSUME AllFiles' = AllFiles, Task' = [op |-> "none"]
  PROVE  FStep
BY DEF FStep, Store!FNext, Store!End, Store!NoTask, AllFiles

\* A copy of a file that has none of its name begins, ...
LEMMA StepPutBegin ==
  ASSUME AllFiles' = AllFiles, Task = [op |-> "none"], NEW n \in Names, NEW z \in Sizes,
         \A x \in AllFiles : x.name # n, Task' = [op |-> "put", name |-> n, size |-> z]
  PROVE  FStep
<1>1. Store!Named(n) = {}
  BY DEF Store!Named, AllFiles
<1>2. Store!Begin
  BY <1>1 DEF Store!Begin, Store!NoTask, AllFiles
<1> QED BY <1>2 DEF FStep, Store!FNext

\* ... a deletion ...
LEMMA StepRemoveBegin ==
  ASSUME AllFiles' = AllFiles, Task = [op |-> "none"], NEW n \in Names \cup {NoName},
         Task' = [op |-> "remove", name |-> n]
  PROVE  FStep
<1>1. Store!Begin
  BY DEF Store!Begin, Store!NoTask, AllFiles
<1> QED BY <1>1 DEF FStep, Store!FNext

\* ... or a format.
LEMMA StepFormatBegin ==
  ASSUME AllFiles' = AllFiles, Task = [op |-> "none"], Task' = [op |-> "format"]
  PROVE  FStep
<1>1. Store!Begin
  BY DEF Store!Begin, Store!NoTask, AllFiles
<1> QED BY <1>1 DEF FStep, Store!FNext

\* The file is there when its copy ends, ...
LEMMA StepPut ==
  ASSUME NEW n, NEW z, Task = [op |-> "put", name |-> n, size |-> z],
         AllFiles' = AllFiles \cup {Store!File(n, z)}, Task' = [op |-> "none"]
  PROVE  FStep
<1>1. Store!Put
  BY DEF Store!Put, Store!NoTask, AllFiles
<1> QED BY <1>1 DEF FStep, Store!FNext

\* ... its beginning when it fails, ...
LEMMA StepFail ==
  ASSUME NEW n, NEW z, Task = [op |-> "put", name |-> n, size |-> z], NEW d \in 0..z,
         AllFiles' = AllFiles \cup {Store!File(n, d)}, Task' = [op |-> "remove", name |-> n]
  PROVE  FStep
<1>1. Store!Fail
  BY DEF Store!Fail, AllFiles
<1> QED BY <1>1 DEF FStep, Store!FNext

\* ... and no file of the name when one has been deleted.
LEMMA StepRemove ==
  ASSUME NEW n, Task = [op |-> "remove", name |-> n],
         \A x : x \in AllFiles' <=> x \in AllFiles /\ x.name # n, Task' \in {Task, [op |-> "none"]}
  PROVE  FStep
<1>1. AllFiles' = AllFiles \ {x \in AllFiles : x.name = n}
  OBVIOUS
<1>2. Store!Named(n) = {x \in AllFiles : x.name = n}
  BY DEF Store!Named, AllFiles
<1>3. AllFiles' = AllFiles \ Store!Named(n)
  BY <1>1, <1>2
<1>4. Store!Remove
  BY <1>3 DEF Store!Remove, Store!NoTask, AllFiles
<1> QED BY <1>4 DEF FStep, Store!FNext

\* A format takes any.
LEMMA StepWipe ==
  ASSUME Task = [op |-> "format"], AllFiles' \subseteq AllFiles, Task' \in {Task, [op |-> "none"]}
  PROVE  FStep
<1>1. Store!Wipe
  BY DEF Store!Wipe, Store!NoTask, AllFiles
<1> QED BY <1>1 DEF FStep, Store!FNext

\* What is a head keeps what it shows.
HeadsKept ==
  \A c \in Chunks : Has(flash', c, "HEAD") =>
    Has(flash, c, "HEAD") /\ flash'[c].name = flash[c].name /\ flash'[c].size = flash[c].size

\* No file changes.
Quiet ==
  \A c \in Chunks : flash'[c] = flash[c] \/ (Clear(flash, c) /\ Clear(flash', c))

\* The names of files that can be found are names, and no two are the same.
NamesOnce(f) ==
  /\ \A c \in Chunks : Has(f, c, "HEAD") /\ f[c].size # None => f[c].name \in Names
  /\ \A c, d \in Chunks : Has(f, c, "HEAD") /\ Has(f, d, "HEAD") /\ f[c].name = f[d].name
       /\ f[c].name \in Names => c = d

\* Heads that stay as they are keep their names apart.
LEMMA NamesKept ==
  ASSUME NamesOnce(flash), HeadsKept
  PROVE  NamesOnce(flash')
BY DEF NamesOnce, HeadsKept

\* Then the store sees the same files.
LEMMA QuietSame ==
  ASSUME FlashTypes, FlashTypes', Quiet
  PROVE  AllFiles' = AllFiles
<1>1. Filled(flash) /\ Filled(flash')
  BY DEF FlashTypes, Filled
<1>2. \A x : IsFile(flash', x) <=> IsFile(flash, x)
  BY <1>1, FilesSame DEF Quiet
<1> QED BY <1>1, <1>2, FilesAre, FilesNext

\* No file changes when nothing is written.
LEMMA StillQuiet ==
  ASSUME flash' = flash
  PROVE  Quiet /\ HeadsKept
BY DEF Quiet, HeadsKept, Has

\* A magic number makes no file.
LEMMA MagicQuiet ==
  ASSUME FlashTypes, RamTypes, Blank, NEW c \in Chunks, WriteMagic(c)
  PROVE  Quiet /\ HeadsKept
<1>1. /\ \A d \in Chunks \ {c} : flash'[d] = flash[d]
      /\ flash[c].magic # "erased" => flash'[c] = flash[c]
      /\ flash[c].magic = "erased" => flash'[c] = Fresh
  BY WriteMagicIs DEF Kept
<1>2. CASE flash[c].magic # "erased"
  <2>1. \A d \in Chunks : flash'[d] = flash[d]
    BY <1>1, <1>2
  <2> QED BY <2>1 DEF Quiet, HeadsKept, Has
<1>3. CASE flash[c].magic = "erased"
  <2>1. ~Has(flash, c, "BODY") /\ ~Has(flash, c, "HEAD")
    BY <1>3 DEF Has
  <2>2. ~Has(flash', c, "BODY") /\ ~Has(flash', c, "HEAD")
    BY <1>1, <1>3, BlankChunks DEF Has
  <2>3. Clear(flash, c) /\ Clear(flash', c)
    BY <2>1, <2>2, ClearDead
  <2>4. HeadsKept
    BY <1>1, <2>2 DEF HeadsKept, Has
  <2> QED BY <1>1, <2>3, <2>4 DEF Quiet
<1> QED BY <1>2, <1>3

\* Blank chunks are of no file.
LEMMA BlankLost ==
  ASSUME FlashTypes, NEW E, NEW b \in {Erased, Torn},
         flash' = [c \in Chunks |-> IF c \in E THEN b ELSE flash[c]]
  PROVE  HeadsKept /\ \A c \in Chunks : (c \notin E /\ flash'[c] = flash[c]) \/ Clear(flash', c)
<1>1. /\ \A c \in Chunks : flash'[c] = IF c \in E THEN b ELSE flash[c]
      /\ \A c \in Chunks \cap E : flash'[c].magic # "ok"
  BY BlankPart
<1>2. ASSUME NEW c \in Chunks, c \in E PROVE Clear(flash', c)
  BY <1>1, <1>2, ClearDead DEF Has
<1>3. HeadsKept
  BY <1>1 DEF HeadsKept, Has
<1> QED BY <1>1, <1>2, <1>3

-----------------------------------------------------------------------------
(* The data of the file that is copied. *)

\* The units before chunk k of a file that is full so far.
Start(k) == IF k = 0 THEN 0 ELSE HeadRoom + BodyRoom * (k - 1)

\* The d units copied of file n are, in order, in the m chunks r from head h on.
CopyRow(f, h, m, r, n, d) ==
  /\ m \in Nat \ {0} /\ Chained(f, h, m, r)
  /\ \A i, j \in 0 .. m - 1 : r[i] = r[j] => i = j
  /\ Has(f, h, "HEAD") /\ \A k \in 1 .. m - 1 : Has(f, r[k], "BODY")
  /\ \A k \in 0 .. m - 2 : Len(f[r[k]].data) = Cap(f[r[k]])
  /\ \A k \in 0 .. m - 1 : \A j \in 1..Len(f[r[k]].data) : f[r[k]].data[j] = <<n, Start(k) + j>>
  /\ d = Start(m - 1) + Len(f[r[m - 1]].data)

\* Starts are numbers, and one chunk's data apart.
LEMMA StartIs ==
  ASSUME NEW k \in Nat
  PROVE  /\ Start(k) \in Nat /\ Start(0) = 0
         /\ Start(k + 1) = Start(k) + (IF k = 0 THEN HeadRoom ELSE BodyRoom)
<1>0. HeadRoom \in Nat /\ BodyRoom \in Nat
  BY SizesAssumption
<1>1. CASE k = 0
  <2>1. BodyRoom * (0 + 1 - 1) = 0
    BY <1>0
  <2> QED BY <1>0, <1>1, <2>1 DEF Start
<1>2. CASE k # 0
  <2>1. BodyRoom * (k - 1) \in Nat /\ BodyRoom * (k + 1 - 1) = BodyRoom * (k - 1) + BodyRoom
    BY <1>0, <1>2, OneLess
  <2> QED BY <1>0, <1>2, <2>1 DEF Start
<1> QED BY <1>1, <1>2

\* What a copy has is kept with the headers and the data of its chunks.
LEMMA CopyKept ==
  ASSUME NEW f, NEW g, NEW h, NEW m, NEW r, NEW n, NEW d, CopyRow(f, h, m, r, n, d),
         \A k \in 0 .. m - 1 : SameHeader(g, f, r[k]) /\ g[r[k]].data = f[r[k]].data
  PROVE  CopyRow(g, h, m, r, n, d)
<1>0. /\ m \in Nat /\ m >= 1 /\ m - 1 \in 0 .. m - 1 /\ 0 \in 0 .. m - 1
      /\ \A k \in 1 .. m - 1 : k - 1 \in 0 .. m - 1 /\ k \in 0 .. m - 1
      /\ \A k \in 0 .. m - 2 : k \in 0 .. m - 1
  BY DEF CopyRow
<1>1. /\ r \in [0 .. m - 1 -> Chunks] /\ r[0] = h /\ f[r[m - 1]].next = None
      /\ \A k \in 1 .. m - 1 : r[k] = f[r[k - 1]].next
  BY DEF CopyRow, Chained
<1>2. Chained(g, h, m, r)
  BY <1>0, <1>1 DEF Chained, SameHeader
<1>3. Has(g, h, "HEAD") /\ \A k \in 1 .. m - 1 : Has(g, r[k], "BODY")
  BY <1>0, <1>1 DEF CopyRow, SameHeader, Has
<1>4. \A k \in 0 .. m - 2 : Len(g[r[k]].data) = Cap(g[r[k]])
  BY <1>0 DEF CopyRow, SameHeader, Cap
<1>5. \A k \in 0 .. m - 1 : \A j \in 1..Len(g[r[k]].data) : g[r[k]].data[j] = <<n, Start(k) + j>>
  BY DEF CopyRow
<1>6. d = Start(m - 1) + Len(g[r[m - 1]].data)
  BY <1>0 DEF CopyRow
<1> QED BY <1>2, <1>3, <1>4, <1>5, <1>6 DEF CopyRow

\* It starts with an empty head, ...
LEMMA CopyTake ==
  ASSUME NEW f, NEW h \in Chunks, Has(f, h, "HEAD"), f[h].next = None, Len(f[h].data) = 0, NEW n
  PROVE  \E r : CopyRow(f, h, 1, r, n, 0) /\ r[0] = h
<1>1. PICK r : r = [k \in 0..0 |-> h]
  OBVIOUS
<1>2. r \in [0..0 -> Chunks] /\ \A k \in 0..0 : k = 0 /\ r[k] = h
  BY <1>1
<1>3. Chained(f, h, 1, r)
  BY <1>2 DEF Chained
<1>4. Start(0) = 0
  BY DEF Start
<1> QED BY <1>2, <1>3, <1>4 DEF CopyRow

\* q holds the units of file n that follow the first s, up to the d-th; a is q with the next one.
InOrder(q, n, s, d) == d = s + Len(q) /\ \A j \in 1..Len(q) : q[j] = <<n, s + j>>
WithUnit(a, q, n, d) == a = Append(q, <<n, d + 1>>)

\* A write appends a unit: if those before are in order so are all, ...
LEMMA Appended ==
  ASSUME NEW q \in Seq(Units), NEW n, NEW s \in Nat, NEW d, NEW a,
         InOrder(q, n, s, d), WithUnit(a, q, n, d)
  PROVE  InOrder(a, n, s, d + 1)
<1>0. d = s + Len(q) /\ a = Append(q, <<n, d + 1>>) /\ \A j \in 1..Len(q) : q[j] = <<n, s + j>>
  BY DEF InOrder, WithUnit
<1>1. PICK e : e = <<n, d + 1>>
  OBVIOUS
<1>2. /\ Len(q) \in Nat /\ Len(Append(q, e)) = Len(q) + 1
      /\ \A j \in 1..Len(q) + 1 : Append(q, e)[j] = IF j = Len(q) + 1 THEN e ELSE q[j]
  OBVIOUS
<1>3. PICK l \in Nat : /\ l = Len(q) /\ Len(a) = l + 1
                       /\ \A j \in 1 .. l + 1 : a[j] = IF j = l + 1 THEN e ELSE q[j]
  BY <1>0, <1>1, <1>2
<1>4. d + 1 = s + (l + 1)
  BY <1>0, <1>3
<1>5. ASSUME NEW j \in 1 .. l + 1 PROVE a[j] = <<n, s + j>>
  <2>1. CASE j = l + 1
    <3>1. a[j] = e
      BY <1>3, <2>1
    <3> QED BY <1>1, <1>4, <2>1, <3>1
  <2>2. CASE j # l + 1
    <3>1. j \in 1..Len(q)
      BY <1>3, <2>2
    <3>2. a[j] = q[j]
      BY <1>3, <2>2
    <3> QED BY <1>0, <3>1, <3>2
  <2> QED BY <2>1, <2>2
<1> QED BY <1>3, <1>4, <1>5 DEF InOrder

\* The places of a row of m chunks: the last, those before it, and each one's predecessor.
LEMMA RowPlaces ==
  ASSUME NEW m \in Nat \ {0}
  PROVE  /\ m - 1 \in Nat /\ m - 1 \in 0 .. m - 1 /\ 0 \in 0 .. m - 1
         /\ \A k \in 1 .. m - 1 : k - 1 \in 0 .. m - 1 /\ k \in 0 .. m - 1
         /\ \A k \in 0 .. m - 2 : k \in 0 .. m - 1 /\ k # m - 1
<1>1. m - 1 \in Nat /\ m - 1 \in 0 .. m - 1 /\ 0 \in 0 .. m - 1
  OBVIOUS
<1>2. ASSUME NEW k \in 1 .. m - 1 PROVE k - 1 \in 0 .. m - 1 /\ k \in 0 .. m - 1
  OBVIOUS
<1>3. ASSUME NEW k \in 0 .. m - 2 PROVE k \in 0 .. m - 1 /\ k # m - 1
  OBVIOUS
<1> QED BY <1>1, <1>2, <1>3

\* ... in its last chunk, and so in the file, ...
LEMMA CopyData ==
  ASSUME NEW f \in [Chunks -> ChunkType], NEW g, NEW h, NEW m, NEW r, NEW n, NEW d,
         CopyRow(f, h, m, r, n, d), SameHeader(g, f, r[m - 1]),
         g[r[m - 1]].data = Append(f[r[m - 1]].data, <<n, d + 1>>),
         \A c \in Chunks \ {r[m - 1]} : g[c] = f[c]
  PROVE  CopyRow(g, h, m, r, n, d + 1)
<1>1. m \in Nat \ {0}
  BY DEF CopyRow
<1>2. /\ m - 1 \in Nat /\ m - 1 \in 0 .. m - 1 /\ 0 \in 0 .. m - 1
      /\ \A k \in 1 .. m - 1 : k - 1 \in 0 .. m - 1 /\ k \in 0 .. m - 1
      /\ \A k \in 0 .. m - 2 : k \in 0 .. m - 1 /\ k # m - 1
  BY <1>1, RowPlaces
<1>3. /\ r \in [0 .. m - 1 -> Chunks] /\ r[0] = h /\ f[r[m - 1]].next = None
      /\ \A k \in 1 .. m - 1 : r[k] = f[r[k - 1]].next
  BY DEF CopyRow, Chained
<1>4. \A i, j \in 0 .. m - 1 : r[i] = r[j] => i = j
  BY DEF CopyRow
<1>5. \A k \in 0 .. m - 1 : SameHeader(g, f, r[k]) /\ (k # m - 1 => g[r[k]] = f[r[k]])
  BY <1>2, <1>3, <1>4 DEF SameHeader
<1>6. Chained(g, h, m, r)
  BY <1>2, <1>3, <1>5 DEF Chained, SameHeader
<1>7. Has(g, h, "HEAD") /\ \A k \in 1 .. m - 1 : Has(g, r[k], "BODY")
  <2>1. Has(f, h, "HEAD") /\ \A k \in 1 .. m - 1 : Has(f, r[k], "BODY")
    BY DEF CopyRow
  <2> QED BY <1>2, <1>3, <1>5, <2>1 DEF SameHeader, Has
<1>8. \A k \in 0 .. m - 2 : Len(g[r[k]].data) = Cap(g[r[k]])
  <2>1. \A k \in 0 .. m - 2 : Len(f[r[k]].data) = Cap(f[r[k]])
    BY DEF CopyRow
  <2> QED BY <1>2, <1>5, <2>1
<1>9. \A k \in 0 .. m - 1 : \A j \in 1..Len(f[r[k]].data) : f[r[k]].data[j] = <<n, Start(k) + j>>
  BY DEF CopyRow
<1>10. PICK q \in Seq(Units) : q = f[r[m - 1]].data
  BY <1>2, <1>3 DEF ChunkType
<1>11. PICK a : a = g[r[m - 1]].data /\ WithUnit(a, q, n, d)
  BY <1>10 DEF WithUnit
<1>12. PICK s \in Nat : s = Start(m - 1)
  BY <1>2, StartIs
<1>13. InOrder(q, n, s, d)
  <2>1. d = Start(m - 1) + Len(f[r[m - 1]].data)
    BY DEF CopyRow
  <2> QED BY <1>2, <1>9, <1>10, <1>12, <2>1 DEF InOrder
<1>14. d + 1 = s + Len(a) /\ \A j \in 1..Len(a) : a[j] = <<n, s + j>>
  <2>1. InOrder(a, n, s, d + 1)
    BY <1>11, <1>13, Appended
  <2> QED BY <2>1 DEF InOrder
<1>15. \A k \in 0 .. m - 1 : \A j \in 1..Len(g[r[k]].data) : g[r[k]].data[j] = <<n, Start(k) + j>>
  <2> SUFFICES ASSUME NEW k \in 0 .. m - 1, NEW j \in 1..Len(g[r[k]].data)
               PROVE  g[r[k]].data[j] = <<n, Start(k) + j>>
    OBVIOUS
  <2>1. CASE k = m - 1
    BY <1>11, <1>12, <1>14, <2>1
  <2>2. CASE k # m - 1
    <3>1. g[r[k]] = f[r[k]]
      BY <1>5, <2>2
    <3> QED BY <1>9, <3>1
  <2> QED BY <2>1, <2>2
<1>16. d + 1 = Start(m - 1) + Len(g[r[m - 1]].data)
  BY <1>11, <1>12, <1>14
<1> QED BY <1>1, <1>4, <1>6, <1>7, <1>8, <1>15, <1>16 DEF CopyRow

\* ... and when that is full an empty body comes next.
LEMMA CopyLink ==
  ASSUME NEW f, NEW g, NEW h, NEW m, NEW r, NEW n, NEW d, NEW b \in Chunks,
         CopyRow(f, h, m, r, n, d), Len(f[r[m - 1]].data) = Cap(f[r[m - 1]]),
         Has(f, b, "BODY"), f[b].next = None, Len(f[b].data) = 0, b # r[m - 1],
         g[r[m - 1]] = [f[r[m - 1]] EXCEPT !.next = b],
         f \in [Chunks -> ChunkType], \A c \in Chunks \ {r[m - 1]} : g[c] = f[c]
  PROVE  \E q : CopyRow(g, h, m + 1, q, n, d) /\ q[m] = b
<1>0. /\ m \in Nat /\ m >= 1 /\ m - 1 \in 0 .. m - 1 /\ 0 \in 0 .. m - 1 /\ m + 1 - 1 = m
      /\ m + 1 - 2 = m - 1
      /\ \A k \in 1 .. m - 1 : k - 1 \in 0 .. m - 1 /\ k \in 0 .. m - 1 /\ k - 1 # m - 1
      /\ \A k \in 0 .. m - 2 :
           k \in 0 .. m - 1 /\ k # m - 1 /\ k + 1 \in 1 .. m - 1 /\ k + 1 - 1 = k
      /\ \A k \in 0 .. m - 1 : k \in 0 .. m - 2 \/ k = m - 1
  BY DEF CopyRow
<1>1. /\ r \in [0 .. m - 1 -> Chunks] /\ r[0] = h /\ f[r[m - 1]].next = None
      /\ \A k \in 1 .. m - 1 : r[k] = f[r[k - 1]].next /\ Has(f, r[k], "BODY")
      /\ \A i, j \in 0 .. m - 1 : r[i] = r[j] => i = j
      /\ d = Start(m - 1) + Len(f[r[m - 1]].data)
      /\ Has(f, h, "HEAD")
  BY DEF CopyRow, Chained
<1>2. PICK p \in Chunks : p = r[m - 1]
  BY <1>0, <1>1
<1>3. /\ g[p].next = b /\ g[p].magic = f[p].magic /\ g[p].type = f[p].type
      /\ g[p].data = f[p].data
  BY <1>2 DEF ChunkType
<1>4. \A k \in 0 .. m - 2 : g[r[k]] = f[r[k]] /\ r[k] # p /\ r[k] # b
  <2>1. ASSUME NEW k \in 0 .. m - 2 PROVE r[k] # p /\ r[k] # b /\ r[k] \in Chunks
    <3>1. r[k] # p
      BY <1>0, <1>1, <1>2
    <3>2. f[r[k]].next = r[k + 1] /\ r[k + 1] \in Chunks
      BY <1>0, <1>1
    <3>3. r[k] # b
      BY <3>2 DEF Chunks, None
    <3> QED BY <1>0, <1>1, <3>1, <3>3
  <2> QED BY <1>2, <2>1
<1>5. PICK q : q = [k \in 0..m |-> IF k = m THEN b ELSE r[k]]
  OBVIOUS
<1>6. /\ q[m] = b /\ \A k \in 0 .. m - 1 : q[k] = r[k] /\ k # m
      /\ q \in [0..m -> Chunks]
  <2>1. q[m] = b
    BY <1>0, <1>5
  <2>2. \A k \in 0 .. m - 1 : q[k] = r[k] /\ k # m
    BY <1>0, <1>5
  <2>3. \A k \in 0..m : k = m \/ k \in 0 .. m - 1
    BY <1>0
  <2> QED BY <1>1, <1>5, <2>1, <2>2, <2>3
<1>7. g[b] = f[b]
  BY <1>2
<1>8. \A k \in 1..m : q[k] = g[q[k - 1]].next /\ Has(g, q[k], "BODY")
  <2> SUFFICES ASSUME NEW k \in 1..m PROVE q[k] = g[q[k - 1]].next /\ Has(g, q[k], "BODY")
    OBVIOUS
  <2>1. CASE k = m
    <3>1. q[k - 1] = p
      BY <1>0, <1>2, <1>6, <2>1
    <3> QED BY <1>3, <1>6, <1>7, <2>1, <3>1 DEF Has
  <2>2. CASE k # m
    <3>1. k \in 1 .. m - 1 /\ k - 1 \in 0 .. m - 2
      BY <1>0, <2>2
    <3>2. q[k - 1] = r[k - 1] /\ g[r[k - 1]] = f[r[k - 1]] /\ q[k] = r[k]
      BY <1>0, <1>4, <1>6, <3>1
    <3>3. Has(g, r[k], "BODY")
      <4>1. k \in 0 .. m - 2 \/ k = m - 1
        BY <1>0, <3>1
      <4> QED BY <1>1, <1>2, <1>3, <1>4, <3>1, <4>1 DEF Has
    <3> QED BY <1>1, <3>1, <3>2, <3>3
  <2> QED BY <2>1, <2>2
<1>9. Chained(g, h, m + 1, q)
  <2>1. q[0] = h
    BY <1>0, <1>1, <1>6
  <2>2. g[q[m]].next = None
    BY <1>6, <1>7
  <2> QED BY <1>0, <1>6, <1>8, <2>1, <2>2 DEF Chained
<1>10. \A i, j \in 0..m : q[i] = q[j] => i = j
  <2>1. \A k \in 0 .. m - 1 : r[k] # b
    BY <1>0, <1>2, <1>4
  <2>2. \A k \in 0..m : k = m \/ k \in 0 .. m - 1
    BY <1>0
  <2> QED BY <1>1, <1>6, <2>1, <2>2
<1>11. Has(g, h, "HEAD")
  <2>1. h = r[0] /\ (0 \in 0 .. m - 2 \/ 0 = m - 1)
    BY <1>0, <1>1
  <2> QED BY <1>1, <1>2, <1>3, <1>4, <2>1 DEF Has
<1>12. ASSUME NEW k \in 0 .. m - 1
       PROVE  /\ Len(g[q[k]].data) = Cap(g[q[k]])
              /\ \A j \in 1..Len(g[q[k]].data) : g[q[k]].data[j] = <<n, Start(k) + j>>
  <2>1. /\ k \in 0 .. m - 2 => Len(f[r[k]].data) = Cap(f[r[k]])
        /\ \A j \in 1..Len(f[r[k]].data) : f[r[k]].data[j] = <<n, Start(k) + j>>
    BY DEF CopyRow
  <2>2. CASE k = m - 1
    <3>1. q[k] = p /\ r[k] = p
      BY <1>2, <1>6, <2>2
    <3> QED BY <1>3, <2>1, <2>2, <3>1 DEF Cap
  <2>3. CASE k \in 0 .. m - 2
    <3>1. q[k] = r[k] /\ g[r[k]] = f[r[k]]
      BY <1>4, <1>6, <2>3
    <3> QED BY <2>1, <2>3, <3>1
  <2> QED BY <1>0, <2>2, <2>3
<1>13. /\ \A k \in 0..m : \A j \in 1..Len(g[q[k]].data) : g[q[k]].data[j] = <<n, Start(k) + j>>
  <2>1. \A j \in 1..Len(g[q[m]].data) : FALSE
    BY <1>6, <1>7
  <2>2. \A k \in 0..m : k = m \/ k \in 0 .. m - 1
    BY <1>0
  <2> QED BY <1>12, <2>1, <2>2
<1>14. d = Start(m) + Len(g[q[m]].data)
  <2>1. /\ Start(m - 1) \in Nat
        /\ Start(m - 1 + 1) = Start(m - 1) + (IF m - 1 = 0 THEN HeadRoom ELSE BodyRoom)
    BY <1>0, StartIs
  <2>2. Cap(f[p]) = IF m - 1 = 0 THEN HeadRoom ELSE BodyRoom
    <3>1. CASE m = 1
      BY <1>1, <1>2, <3>1 DEF Has, Cap
    <3>2. CASE m # 1
      <4>1. m - 1 \in 1 .. m - 1
        BY <1>0, <3>2
      <4>2. f[p].type = "BODY"
        BY <1>1, <1>2, <4>1 DEF Has
      <4> QED BY <1>0, <3>2, <4>2 DEF Cap
    <3> QED BY <3>1, <3>2
  <2>3. m - 1 + 1 = m /\ HeadRoom \in Nat /\ BodyRoom \in Nat
    BY <1>0, SizesAssumption
  <2> QED BY <1>1, <1>2, <1>6, <1>7, <2>1, <2>2, <2>3
<1>15. CopyRow(g, h, m + 1, q, n, d)
  <2>1. PICK e \in Nat \ {0} : e = m + 1 /\ e - 1 = m /\ e - 2 = m - 1
    BY <1>0
  <2>2. /\ Chained(g, h, e, q) /\ \A i, j \in 0 .. e - 1 : q[i] = q[j] => i = j
        /\ Has(g, h, "HEAD") /\ \A k \in 1 .. e - 1 : Has(g, q[k], "BODY")
    BY <1>8, <1>9, <1>10, <1>11, <2>1
  <2>3. \A k \in 0 .. e - 2 : Len(g[q[k]].data) = Cap(g[q[k]])
    BY <1>12, <2>1
  <2>4. \A k \in 0 .. e - 1 : \A j \in 1..Len(g[q[k]].data) : g[q[k]].data[j] = <<n, Start(k) + j>>
    BY <1>13, <2>1
  <2>5. d = Start(e - 1) + Len(g[q[e - 1]].data)
    BY <1>14, <2>1
  <2>6. CopyRow(g, h, e, q, n, d)
    BY <2>2, <2>3, <2>4, <2>5 DEF CopyRow
  <2> QED BY <2>1, <2>6
<1> QED BY <1>6, <1>15

\* It has no more chunks than the flash.
LEMMA CopyLength ==
  ASSUME NEW f, NEW h, NEW m, NEW r, NEW n, NEW d, CopyRow(f, h, m, r, n, d)
  PROVE  m \in 1..N
<1>1. /\ m \in Nat /\ m >= 1 /\ r \in [0 .. m - 1 -> Chunks] /\ N \in Nat
      /\ \A i, j \in 0 .. m - 1 : r[i] = r[j] => i = j
  BY SizesAssumption DEF CopyRow, Chained
<1> SUFFICES ASSUME m > N PROVE FALSE
  BY <1>1
<1>2. IsFiniteSet(0 .. m - 1) /\ Cardinality(0 .. m - 1) = m
  BY <1>1, FS_Interval
<1>3. \E x, y \in 0 .. m - 1 : x # y /\ r[x] = r[y]
  BY <1>1, <1>2, ChunksFinite, FS_PigeonHole
<1> QED BY <1>1, <1>3

\* When its size has been written a copy is a file with what was copied.
LEMMA CopyFile ==
  ASSUME NEW f, Filled(f), NEW h \in Chunks, NEW m \in 1..N, NEW r, NEW n, NEW d,
         CopyRow(f, h, m, r, n, d), f[h].name = n, f[h].size = d
  PROVE  /\ \E u : Readable(f, h, m, r, u)
         /\ FileOf(f, r) = [name |-> n, data |-> [i \in 1..d |-> <<n, i>>]]
<1>0. /\ m \in Nat /\ m >= 1 /\ m - 1 \in 0 .. m - 1 /\ 0 \in 0 .. m - 1 /\ HeadRoom \in Nat
      /\ BodyRoom \in Nat /\ \A k \in Nat : Start(k) \in Nat
  BY SizesAssumption, StartIs
<1>1. /\ r \in [0 .. m - 1 -> Chunks] /\ r[0] = h
      /\ Has(f, h, "HEAD") /\ \A k \in 1 .. m - 1 : Has(f, r[k], "BODY")
      /\ d = Start(m - 1) + Len(f[r[m - 1]].data)
      /\ \A k \in 0 .. m - 2 : Len(f[r[k]].data) = Cap(f[r[k]])
      /\ \A k \in 0 .. m - 1 : \A j \in 1..Len(f[r[k]].data) : f[r[k]].data[j] = <<n, Start(k) + j>>
  BY DEF CopyRow, Chained
<1>2. \A c \in Chunks : Len(f[c].data) \in Nat /\ Len(f[c].data) <= Cap(f[c])
  BY DEF Filled, ChunkType
<1>3. /\ Cap(f[h]) = HeadRoom /\ \A k \in 1 .. m - 1 : Cap(f[r[k]]) = BodyRoom
  BY <1>1 DEF Has, Cap
<1>4. \A k \in 0 .. m - 1 : Len(f[r[k]].data) \in Nat
  BY <1>1, <1>2
<1>5. d \in Nat
  <2>1. m - 1 \in Nat
    BY <1>0
  <2>2. Start(m - 1) \in Nat
    BY <2>1, StartIs
  <2>3. Len(f[r[m - 1]].data) \in Nat
    BY <1>0, <1>4
  <2> QED BY <1>1, <2>2, <2>3
<1>6. PICK u : u = [k \in 0..m |-> IF k = m THEN d ELSE Start(k)]
  OBVIOUS
<1>7. u[m] = d /\ \A k \in 0 .. m - 1 : u[k] = Start(k)
  BY <1>0, <1>6
<1>8. u \in [0..m -> Nat]
  BY <1>0, <1>5, <1>6
<1>9. ASSUME NEW k \in 1..m PROVE u[k] = u[k - 1] + Len(f[r[k - 1]].data)
  <2>1. CASE k = m
    BY <1>0, <1>1, <1>7, <2>1
  <2>2. CASE k # m
    <3>1. /\ k \in 0 .. m - 1 /\ k - 1 \in 0 .. m - 2 /\ k - 1 \in 0 .. m - 1
          /\ k - 1 \in Nat /\ k - 1 + 1 = k
      BY <1>0, <2>2
    <3>2. Start(k) = Start(k - 1) + (IF k - 1 = 0 THEN HeadRoom ELSE BodyRoom)
      <4>1. Start(k - 1 + 1) = Start(k - 1) + (IF k - 1 = 0 THEN HeadRoom ELSE BodyRoom)
        BY <3>1, StartIs
      <4> QED BY <3>1, <4>1
    <3>3. Len(f[r[k - 1]].data) = IF k - 1 = 0 THEN HeadRoom ELSE BodyRoom
      <4>1. Len(f[r[k - 1]].data) = Cap(f[r[k - 1]])
        BY <1>1, <3>1
      <4>2. k - 1 # 0 => k - 1 \in 1 .. m - 1
        BY <3>1
      <4> QED BY <1>1, <1>3, <4>1, <4>2
    <3> QED BY <1>7, <3>1, <3>2, <3>3
  <2> QED BY <2>1, <2>2
<1>10. u[0] = 0
  <2>1. Start(0) = 0
    BY DEF Start
  <2> QED BY <1>0, <1>7, <2>1
<1>11. Readable(f, h, m, r, u)
  <2>1. Counted(f, m, r, u)
    BY <1>8, <1>9, <1>10 DEF Counted
  <2>2. d # None /\ d <= u[m]
    BY <1>5, <1>7 DEF None
  <2> QED BY <1>1, <2>1, <2>2 DEF Readable, CopyRow
<1>12. ASSUME NEW i \in 1..d PROVE UnitOf(f, r, i) = <<n, i>>
  <2>0. i \in Nat /\ i >= 1 /\ i <= d
    BY <1>5
  <2>1. CASE i <= HeadRoom
    <3>1. i \in 1..Len(f[r[0]].data)
      <4>1. CASE m = 1
        <5>1. Start(m - 1) = 0
          BY <1>10, <1>7, <4>1
        <5> QED BY <1>0, <1>1, <1>4, <2>0, <4>1, <5>1
      <4>2. CASE m # 1
        <5>1. 0 \in 0 .. m - 2
          BY <1>0, <4>2
        <5>2. Len(f[r[0]].data) = HeadRoom
          BY <1>1, <1>3, <5>1
        <5> QED BY <1>0, <2>0, <2>1, <5>2
      <4> QED BY <4>1, <4>2
    <3>2. f[r[0]].data[i] = <<n, Start(0) + i>>
      BY <1>0, <1>1, <3>1
    <3>3. Start(0) + i = i
      BY <2>0 DEF Start
    <3> QED BY <2>1, <3>2, <3>3 DEF UnitOf
  <2>2. CASE i > HeadRoom
    <3>1. PICK j : j = i - HeadRoom - 1
      OBVIOUS
    <3>2. PICK q, w : q = 1 + (j \div BodyRoom) /\ w = 1 + (j % BodyRoom)
      OBVIOUS
    <3>3. u[m] <= HeadRoom + BodyRoom * (m - 1) /\ BodyRoom * (m - 1) \in Nat
      BY <1>0, <1>11, CountBound
    <3>4. /\ 1 + (j \div BodyRoom) \in 1 .. m - 1 /\ j % BodyRoom \in 0 .. BodyRoom - 1
          /\ i = HeadRoom + BodyRoom * (j \div BodyRoom) + 1 + (j % BodyRoom)
      <4>1. i <= HeadRoom + BodyRoom * (m - 1)
        BY <1>0, <1>5, <1>7, <2>0, <3>3
      <4> QED BY <1>0, <2>0, <2>2, <3>1, <4>1, UnitPlace
    <3>5. q \in 1 .. m - 1 /\ w \in 1..BodyRoom /\ i = Start(q) + w
      <4>1. /\ q \in Nat /\ q # 0 /\ q - 1 = j \div BodyRoom
            /\ j % BodyRoom \in Nat /\ j \div BodyRoom \in Int
        BY <1>0, <2>0, <3>1, <3>2, <3>4, SizesAssumption
      <4>2. BodyRoom * (q - 1) \in Nat
        BY <1>0, <4>1
      <4> QED BY <1>0, <2>0, <3>2, <3>4, <4>1, <4>2 DEF Start
    <3>6. w \in 1..Len(f[r[q]].data)
      <4>1. CASE q = m - 1
        <5>1. Start(q) \in Nat /\ d = Start(q) + Len(f[r[q]].data) /\ Len(f[r[q]].data) \in Nat
          BY <1>0, <1>1, <1>4, <3>5, <4>1
        <5> QED BY <1>5, <2>0, <3>5, <5>1
      <4>2. CASE q # m - 1
        <5>1. q \in 0 .. m - 2
          BY <1>0, <3>5, <4>2
        <5>2. Len(f[r[q]].data) = BodyRoom
          BY <1>1, <1>3, <3>5, <5>1
        <5> QED BY <3>5, <5>2
      <4> QED BY <4>1, <4>2
    <3>7. q \in 0 .. m - 1
      BY <3>5
    <3>8. f[r[q]].data[w] = <<n, i>>
      BY <1>1, <3>5, <3>6, <3>7
    <3>9. ~(i <= HeadRoom)
      BY <1>0, <2>0, <2>2
    <3>10. UnitOf(f, r, i) = f[r[q]].data[w]
      BY <3>1, <3>2, <3>9 DEF UnitOf
    <3> QED BY <3>8, <3>10
  <2> QED BY <1>0, <2>0, <2>1, <2>2
<1> QED BY <1>1, <1>11, <1>12 DEF FileOf

-----------------------------------------------------------------------------
(* What is known of the file that is copied, deleted or repaired. *)

\* Until a copy ends its head is the only one with the name, and not closed.
PutHead ==
  job.op = "put" =>
    /\ \A c \in Chunks : Has(flash, c, "HEAD") /\ flash[c].name = job.name =>
         job.at # "take" /\ c = job.head
    /\ job.at # "take" => flash[job.head].size = None

\* What was copied is in order in the chunks from the head to the last linked.
PutRow ==
  job.op = "put" /\ job.at # "take" =>
    /\ \E m \in 1..N : \E r : /\ CopyRow(flash, job.head, m, r, job.name, job.done)
                              /\ r[m - 1] = LastLinked
    /\ job.at = "link" => Len(flash[job.prev].data) = Cap(flash[job.prev])

\* A deletion takes the file of its name, a repair the chunks of a bad one.
RemoveHead ==
  At("remove", "erase") /\ Has(flash, job.cur, "HEAD") => flash[job.cur].name = job.name
FixBad == At("fix", "erase") /\ Has(flash, job.cur, "HEAD") => BadHead(job.cur)

\* What has to be known of the names and of the job, besides IInv.
Extra == NamesOnce(flash) /\ PutHead /\ PutRow /\ RemoveHead /\ FixBad
RInv == IInv /\ Extra

\* What is to be shown of a step.
Done == Extra' /\ FStep

\* The types after a step that keeps IInv.
LEMMA NextTypes ==
  ASSUME IInv'
  PROVE  FlashTypes' /\ RamTypes'
BY DEF IInv, Sound

\* A write changes one field of one chunk: its type, ...
LEMMA WrittenType ==
  ASSUME FlashTypes, NEW c \in Chunks, NEW v, Write(c, "type", v)
  PROVE  flash'[c] = [flash[c] EXCEPT !.type = v] /\ \A d \in Chunks \ {c} : flash'[d] = flash[d]
<1>1. flash' = [flash EXCEPT ![c] = [flash[c] EXCEPT !.type = v]]
  BY DEF Write, FlashTypes, ChunkType
<1> QED BY <1>1 DEF FlashTypes

\* ... its name, ...
LEMMA WrittenName ==
  ASSUME FlashTypes, NEW c \in Chunks, NEW v, Write(c, "name", v)
  PROVE  flash'[c] = [flash[c] EXCEPT !.name = v] /\ \A d \in Chunks \ {c} : flash'[d] = flash[d]
<1>1. flash' = [flash EXCEPT ![c] = [flash[c] EXCEPT !.name = v]]
  BY DEF Write, FlashTypes, ChunkType
<1> QED BY <1>1 DEF FlashTypes

\* ... its link, ...
LEMMA WrittenNext ==
  ASSUME FlashTypes, NEW c \in Chunks, NEW v, Write(c, "next", v)
  PROVE  flash'[c] = [flash[c] EXCEPT !.next = v] /\ \A d \in Chunks \ {c} : flash'[d] = flash[d]
<1>1. flash' = [flash EXCEPT ![c] = [flash[c] EXCEPT !.next = v]]
  BY DEF Write, FlashTypes, ChunkType
<1> QED BY <1>1 DEF FlashTypes

\* ... its size ...
LEMMA WrittenSize ==
  ASSUME FlashTypes, NEW c \in Chunks, NEW v, Write(c, "size", v)
  PROVE  flash'[c] = [flash[c] EXCEPT !.size = v] /\ \A d \in Chunks \ {c} : flash'[d] = flash[d]
<1>1. flash' = [flash EXCEPT ![c] = [flash[c] EXCEPT !.size = v]]
  BY DEF Write, FlashTypes, ChunkType
<1> QED BY <1>1 DEF FlashTypes

\* ... or its data.
LEMMA WrittenData ==
  ASSUME FlashTypes, NEW c \in Chunks, NEW v, Write(c, "data", v)
  PROVE  flash'[c] = [flash[c] EXCEPT !.data = v] /\ \A d \in Chunks \ {c} : flash'[d] = flash[d]
<1>1. flash' = [flash EXCEPT ![c] = [flash[c] EXCEPT !.data = v]]
  BY DEF Write, FlashTypes, ChunkType
<1> QED BY <1>1 DEF FlashTypes

\* IInv places the live chunks.
LEMMA PlacedIs ==
  ASSUME NEW L \in SUBSET Chunks, NEW s \in Spots, Sound(L), Filed(L, s)
  PROVE  Placed(flash, L, s)
BY DEF Sound, FlashInv, FlashTypes, Filed, Placed

\* While a file is copied its last chunks are of no file that can be read.
OpenClear ==
  job.op = "put" /\ job.at # "take" =>
    Clear(flash, LastLinked) /\ (job.at = "link" => Clear(flash, job.cur))

\* They are of the file that is not closed, or not linked yet.
LEMMA OpenIs == IInv /\ PutHead => OpenClear
<1> SUFFICES ASSUME IInv, PutHead, job.op = "put", job.at # "take"
             PROVE  Clear(flash, LastLinked) /\ (job.at = "link" => Clear(flash, job.cur))
  BY DEF OpenClear
<1>1. PICK L \in SUBSET Chunks, s \in Spots : Sound(L) /\ Filed(L, s)
  BY DEF IInv
<1>2. Placed(flash, L, s)
  BY <1>1, PlacedIs
<1>3. s[LastLinked].head = job.head /\ flash[job.head].size = None
  BY <1>1 DEF Filed, PutTail, PutHead
<1>4. Clear(flash, LastLinked)
  BY <1>2, <1>3, ClearOpen
<1>5. ASSUME job.at = "link" PROVE Clear(flash, job.cur)
  <2>1. job.cur \notin L
    BY <1>1, <1>5, InvGives DEF PutEnds
  <2> QED BY <1>2, <2>1, ClearUnlive
<1> QED BY <1>4, <1>5

\* After a step too.
LEMMA OpenNext == (IInv /\ PutHead)' => OpenClear'
<1>1. (IInv /\ PutHead => OpenClear)'
  BY OpenIs, PTL
<1> QED BY <1>1

\* What links to a chunk of no file is of none.
LEMMA ClearBefore ==
  ASSUME NEW f, NEW b \in Chunks, Clear(f, b), NEW p, f[p].next = b
  PROVE  Clear(f, p)
<1> SUFFICES ASSUME NEW h \in Chunks, NEW m \in 1..N, NEW r, NEW u, Readable(f, h, m, r, u),
                    NEW k \in 0 .. m - 1, r[k] = p
             PROVE  FALSE
  BY DEF Clear
<1>0. b # None /\ N \in Nat
  BY SizesAssumption DEF Chunks, None
<1>1. k # m - 1
  BY <1>0 DEF Readable, Chained
<1>2. k + 1 \in 1 .. m - 1 /\ k + 1 \in 0 .. m - 1 /\ k + 1 - 1 = k
  BY <1>0, <1>1
<1>3. r[k + 1] = b
  BY <1>2 DEF Readable, Chained
<1> QED BY <1>2, <1>3 DEF Clear

\* Where the job is not one the invariant speaks of.
LEMMA ExtraPlain ==
  ASSUME NamesOnce(flash'), job'.op \notin {"put", "remove", "fix"}
  PROVE  Extra'
BY DEF Extra, PutHead, PutRow, RemoveHead, FixBad, At

\* The head of the copy stays the only one with the name while heads are kept.
LEMMA PutHeadStays ==
  ASSUME RInv, IInv', HeadsKept, PutRow', job.op = "put", job.at # "take",
         job'.op = "put", job'.at # "take", job'.name = job.name, job'.head = job.head
  PROVE  PutHead'
<1>1. PICK L \in SUBSET Chunks : Sound(L)
  BY DEF RInv, IInv
<1>2. job \in PutJobs
  BY <1>1, InvGives, JobIs
<1>3. Has(flash', job.head, "HEAD") /\ job.head \in Chunks
  BY <1>2 DEF PutRow, CopyRow, PutJobs
<1> QED BY <1>3 DEF PutHead, HeadsKept, RInv, Extra

\* A write to the file that is copied is none to a file of the store.
LEMMA PutStays ==
  ASSUME RInv, IInv', HeadsKept, Quiet, PutRow', job.op = "put", job.at # "take",
         job'.op = "put", job'.at # "take", job'.name = job.name, job'.size = job.size,
         job'.head = job.head
  PROVE  Done
<1>1. PICK L \in SUBSET Chunks : Sound(L)
  BY DEF RInv, IInv
<1>2. FlashTypes /\ FlashTypes'
  BY <1>1, InvGives, NextTypes
<1>3. AllFiles' = AllFiles
  BY <1>2, QuietSame
<1>4. FStep
  <2>1. Task' = Task
    BY TaskIs, TaskNext
  <2> QED BY <1>3, <2>1, StepNone
<1>5. NamesOnce(flash')
  BY NamesKept DEF RInv, Extra
<1> QED BY <1>4, <1>5, PutHeadStays DEF Done, Extra, RemoveHead, FixBad, At

\* The head is taken.
LEMMA PutTakeDone ==
  ASSUME RInv, IInv', PutTake
  PROVE  Done
<1>1. PICK L \in SUBSET Chunks : Sound(L)
  BY DEF RInv, IInv
<1>2. /\ FlashTypes /\ RamTypes /\ Blank /\ Caches /\ job \in PutJobs /\ job.op = "put"
      /\ job.at = "take" /\ job.done = 0 /\ FlashTypes' /\ job.name \in Names
  BY <1>1, InvGives, JobIs, NextTypes DEF PutTake, At, PutStart, PutJobs
<1>3. CASE ~CanTake
  <2>1. job' = Idle /\ flash' = flash
    BY <1>3 DEF PutTake
  <2>2. Quiet /\ HeadsKept /\ job'.op = "idle"
    BY <2>1, StillQuiet DEF Idle
  <2>3. AllFiles' = AllFiles /\ Task' = [op |-> "none"]
    BY <1>2, <2>2, QuietSame, TaskNext
  <2> QED BY <2>2, <2>3, StepEnd, ExtraPlain, NamesKept DEF Done, RInv, Extra
<1>4. CASE CanTake
  <2>1. PICK h \in Chunks : h = NextFree /\ Is(h, "FREE")
    BY <1>2, <1>4, NextFreeIs DEF CanTake
  <2>2. /\ Take(h, "HEAD")
        /\ job' = [job EXCEPT !.at = "hdr", !.head = h, !.cur = h, !.prev = h, !.room = HeadRoom]
    BY <1>4, <2>1 DEF PutTake
  <2>3. vol.free >= 1
    BY <1>2, <1>4, SizesAssumption DEF CanTake, RamTypes
  <2>4. /\ Has(flash, h, "FREE") /\ Has(flash', h, "HEAD")
        /\ flash'[h].next = None /\ flash'[h].size = None /\ Len(flash'[h].data) = 0
        /\ \A d \in Chunks \ {h} : flash'[d] = flash[d]
    BY <1>2, <2>1, <2>2, <2>3, TakeIs
  <2>5. flash'[h].name = NoHdr
    <3>1. flash[h] = Fresh
      BY <1>2, <2>4 DEF Blank
    <3>2. flash'[h] = [flash[h] EXCEPT !.type = "HEAD"]
      BY <1>2, <2>2, WrittenType DEF Take
    <3> QED BY <3>1, <3>2 DEF Fresh, Erased
  <2>6. /\ job'.op = "put" /\ job'.at = "hdr" /\ job'.head = h /\ job'.cur = h
        /\ job'.name = job.name /\ job'.size = job.size /\ job'.done = 0
    BY <1>2, <2>2 DEF PutJobs
  <2>7. Quiet
    <3>1. Clear(flash, h) /\ Clear(flash', h)
      BY <2>4, ClearDead DEF Has
    <3> QED BY <2>4, <3>1 DEF Quiet
  <2>8. FStep
    <3>1. AllFiles' = AllFiles
      BY <1>2, <2>7, QuietSame
    <3>2. Task' = Task
      BY <1>2, <2>6, TaskIs, TaskNext
    <3> QED BY <3>1, <3>2, StepNone
  <2>9. NamesOnce(flash')
    BY <2>4, <2>5, NamesAssumption DEF RInv, Extra, NamesOnce, Has
  <2>10. PutHead'
    <3>1. \A c \in Chunks : ~(Has(flash, c, "HEAD") /\ flash[c].name = job.name)
      BY <1>2 DEF RInv, Extra, PutHead
    <3> QED BY <2>4, <2>6, <3>1 DEF PutHead, Has
  <2>11. PutRow'
    <3>1. PICK r : CopyRow(flash', h, 1, r, job.name, 0) /\ r[0] = h
      BY <2>4, CopyTake
    <3>2. 1 \in 1..N /\ 1 - 1 = 0
      BY SizesAssumption
    <3> QED BY <2>6, <3>1, <3>2 DEF PutRow, LastLinked
  <2> QED BY <2>6, <2>8, <2>9, <2>10, <2>11 DEF Done, Extra, RemoveHead, FixBad, At
<1> QED BY <1>3, <1>4

\* The header of the head and its name are written.
LEMMA PutNamesDone ==
  ASSUME RInv, IInv', NEW v \in {NoName, job.name}, NEW b \in {"name", "data"},
         job.op = "put", job.at \in {"hdr", "name"},
         Write(job.head, "name", v), job' = [job EXCEPT !.at = b]
  PROVE  Done
<1>1. PICK L \in SUBSET Chunks : Sound(L)
  BY DEF RInv, IInv
<1>2. /\ FlashTypes /\ RamTypes /\ PutFile /\ job \in PutJobs /\ FlashTypes'
      /\ job.head \in Chunks /\ job.name \in Names
  BY <1>1, InvGives, JobIs, NextTypes DEF PutJobs
<1>3. PICK h \in Chunks : h = job.head
  BY <1>2
<1>4. /\ Has(flash, h, "HEAD") /\ flash[h].size = None
      /\ flash[h] \in ChunkType
  BY <1>2, <1>3 DEF PutFile, RInv, Extra, PutHead, FlashTypes
<1>5. flash'[h] = [flash[h] EXCEPT !.name = v] /\ \A d \in Chunks \ {h} : flash'[d] = flash[d]
  BY <1>2, <1>3, WrittenName
<1>6. /\ SameHeader(flash', flash, h) /\ flash'[h].data = flash[h].data /\ flash'[h].name = v
      /\ flash'[h].size = None
  BY <1>4, <1>5 DEF ChunkType, SameHeader
<1>7. Has(flash', h, "HEAD")
  BY <1>4, <1>6 DEF SameHeader, Has
<1>8. /\ job'.op = "put" /\ job'.at = b /\ job'.head = h /\ job'.cur = job.cur
      /\ job'.name = job.name /\ job'.size = job.size /\ job'.done = job.done
  BY <1>2, <1>3 DEF PutJobs
<1>9. Quiet
  <2>1. Clear(flash, h) /\ Clear(flash', h)
    BY <1>4, <1>6, <1>7, ClearDead DEF Has
  <2> QED BY <1>5, <2>1 DEF Quiet
<1>10. FStep
  <2>1. AllFiles' = AllFiles
    BY <1>2, <1>9, QuietSame
  <2>2. Task' = Task
    BY <1>2, <1>8, TaskIs, TaskNext
  <2> QED BY <2>1, <2>2, StepNone
<1>11. \A c \in Chunks : Has(flash, c, "HEAD") /\ flash[c].name = job.name => c = h
  BY <1>3 DEF RInv, Extra, PutHead
<1>12. NamesOnce(flash')
  <2>1. \A c \in Chunks \ {h} : Has(flash', c, "HEAD") =>
          Has(flash, c, "HEAD") /\ flash'[c].name = flash[c].name /\ flash[c].name # job.name
          /\ flash'[c].size = flash[c].size
    BY <1>5, <1>11 DEF Has
  <2>2. \A c \in Chunks : Has(flash', c, "HEAD") /\ flash'[c].size # None =>
          flash'[c].name \in Names
    BY <1>6, <2>1 DEF RInv, Extra, NamesOnce
  <2>3. v \in Names => v = job.name
    BY NamesAssumption
  <2>4. ASSUME NEW c \in Chunks, NEW d \in Chunks, Has(flash', c, "HEAD"), Has(flash', d, "HEAD"),
               flash'[c].name = flash'[d].name, flash'[c].name \in Names
        PROVE  c = d
    BY <1>6, <2>1, <2>3, <2>4 DEF RInv, Extra, NamesOnce
  <2> QED BY <2>2, <2>4 DEF NamesOnce
<1>13. PutHead'
  <2>1. \A c \in Chunks : Has(flash', c, "HEAD") /\ flash'[c].name = job.name => c = h
    BY <1>5, <1>11 DEF Has
  <2> QED BY <1>6, <1>8, <2>1 DEF PutHead
<1>14. PutRow'
  <2>1. PICK m, r :
          m \in 1..N /\ CopyRow(flash, h, m, r, job.name, job.done) /\ r[m - 1] = job.cur
    BY <1>3 DEF RInv, Extra, PutRow, LastLinked
  <2>2. \A k \in 0 .. m - 1 :
          SameHeader(flash', flash, r[k]) /\ flash'[r[k]].data = flash[r[k]].data
    <3>1. \A k \in 0 .. m - 1 : r[k] \in Chunks
      BY <2>1 DEF CopyRow, Chained
    <3> QED BY <1>5, <1>6, <3>1 DEF SameHeader
  <2>3. CopyRow(flash', h, m, r, job.name, job.done)
    BY <2>1, <2>2, CopyKept
  <2> QED BY <1>8, <2>1, <2>3 DEF PutRow, LastLinked
<1> QED BY <1>8, <1>10, <1>12, <1>13, <1>14 DEF Done, Extra, RemoveHead, FixBad, At

\* A unit of data.
LEMMA PutDataDone ==
  ASSUME RInv, IInv', PutData
  PROVE  Done
<1>1. PICK L \in SUBSET Chunks : Sound(L)
  BY DEF RInv, IInv
<1>2. /\ FlashTypes /\ job \in PutJobs /\ job.op = "put" /\ job.at = "data" /\ PutFile
      /\ job.cur \in Chunks
  BY <1>1, InvGives, JobIs DEF PutData, At, PutJobs
<1>3. PICK c \in Chunks : c = job.cur
  BY <1>2
<1>4. PICK v : v = Append(flash[c].data, <<job.name, job.done + 1>>)
  OBVIOUS
<1>5. /\ flash'[c] = [flash[c] EXCEPT !.data = v] /\ \A d \in Chunks \ {c} : flash'[d] = flash[d]
      /\ flash[c] \in ChunkType
  BY <1>2, <1>3, <1>4, WrittenData DEF PutData, FlashTypes
<1>6. /\ SameHeader(flash', flash, c) /\ flash'[c].data = v /\ flash'[c].name = flash[c].name
      /\ flash'[c].size = flash[c].size
  BY <1>5 DEF ChunkType, SameHeader
<1>7. /\ job'.op = "put" /\ job'.at = "data" /\ job'.head = job.head /\ job'.cur = c
      /\ job'.name = job.name /\ job'.size = job.size /\ job'.done = job.done + 1
  BY <1>2, <1>3 DEF PutData, PutJobs
<1>8. HeadsKept
  BY <1>5, <1>6 DEF HeadsKept, SameHeader, Has
<1>9. PutRow'
  <2>1. PICK m, r :
          m \in 1..N /\ CopyRow(flash, job.head, m, r, job.name, job.done) /\ r[m - 1] = c
    BY <1>2, <1>3 DEF RInv, Extra, PutRow, LastLinked
  <2>2. PICK f \in [Chunks -> ChunkType] : f = flash
    BY <1>2 DEF FlashTypes
  <2>3. CopyRow(flash', job.head, m, r, job.name, job.done + 1)
    BY <1>4, <1>5, <1>6, <2>1, <2>2, CopyData
  <2> QED BY <1>7, <2>1, <2>3 DEF PutRow, LastLinked
<1>10. PutHead'
  BY <1>2, <1>7, <1>8, <1>9, PutHeadStays
<1>11. Clear(flash, c) /\ Clear(flash', c)
  <2>1. OpenClear /\ OpenClear'
    BY <1>10, OpenIs, OpenNext DEF RInv, Extra
  <2> QED BY <1>2, <1>3, <1>7, <2>1 DEF OpenClear, LastLinked
<1>12. Quiet
  BY <1>5, <1>11 DEF Quiet
<1> QED BY <1>2, <1>7, <1>8, <1>9, <1>12, PutStays

\* The next chunk.
LEMMA PutGrowDone ==
  ASSUME RInv, IInv', PutGrow
  PROVE  Done
<1>1. PICK L \in SUBSET Chunks : Sound(L)
  BY DEF RInv, IInv
<1>2. /\ FlashTypes /\ RamTypes /\ Blank /\ Caches /\ job \in PutJobs /\ job.op = "put"
      /\ job.at = "data" /\ PutFile /\ job.room = 0 /\ job.cur \in Chunks /\ job.prev = job.cur
  BY <1>1, InvGives, JobIs DEF PutGrow, At, PutJobs, PutEnds
<1>3. PICK m, r :
        m \in 1..N /\ CopyRow(flash, job.head, m, r, job.name, job.done) /\ r[m - 1] = job.cur
  BY <1>2 DEF RInv, Extra, PutRow, LastLinked
<1>4. CASE ~CanTake
  <2>1. flash' = flash /\ job' = [job EXCEPT !.at = "fail"]
    BY <1>4 DEF PutGrow
  <2>2. /\ job'.op = "put" /\ job'.at = "fail" /\ job'.head = job.head /\ job'.cur = job.cur
        /\ job'.name = job.name /\ job'.size = job.size /\ job'.done = job.done
    BY <1>2, <2>1 DEF PutJobs
  <2>3. PutRow'
    BY <1>3, <2>1, <2>2 DEF PutRow, LastLinked
  <2> QED BY <1>2, <2>1, <2>2, <2>3, StillQuiet, PutStays
<1>5. CASE CanTake
  <2>1. PICK h \in Chunks : h = NextFree /\ Is(h, "FREE")
    BY <1>2, <1>5, NextFreeIs DEF CanTake
  <2>2. /\ Take(h, "BODY")
        /\ job' = [job EXCEPT !.at = "link", !.cur = h, !.room = BodyRoom]
    BY <1>5, <2>1 DEF PutGrow
  <2>3. vol.free >= 1
    BY <1>2, <1>5, SizesAssumption DEF CanTake, RamTypes
  <2>4. /\ Has(flash, h, "FREE") /\ Has(flash', h, "BODY")
        /\ \A d \in Chunks \ {h} : flash'[d] = flash[d]
    BY <1>2, <2>1, <2>2, <2>3, TakeIs
  <2>5. /\ job'.op = "put" /\ job'.at = "link" /\ job'.head = job.head /\ job'.cur = h
        /\ job'.prev = job.cur
        /\ job'.name = job.name /\ job'.size = job.size /\ job'.done = job.done
    BY <1>2, <2>2 DEF PutJobs
  <2>6. HeadsKept
    BY <2>4 DEF HeadsKept, Has
  <2>7. \A k \in 0 .. m - 1 : r[k] \in Chunks \ {h}
    <3> SUFFICES ASSUME NEW k \in 0 .. m - 1 PROVE r[k] \in Chunks \ {h}
      OBVIOUS
    <3>1. CASE k = 0
      BY <1>3, <2>4, <3>1 DEF CopyRow, Chained, Has
    <3>2. CASE k # 0
      <4>1. k \in 1 .. m - 1
        BY <3>2, SizesAssumption
      <4> QED BY <1>3, <2>4, <4>1 DEF CopyRow, Chained, Has
    <3> QED BY <3>1, <3>2
  <2>8. CopyRow(flash', job.head, m, r, job.name, job.done)
    <3>1. \A k \in 0 .. m - 1 :
            SameHeader(flash', flash, r[k]) /\ flash'[r[k]].data = flash[r[k]].data
      BY <2>4, <2>7 DEF SameHeader
    <3> QED BY <1>3, <3>1, CopyKept
  <2>9. Len(flash'[job.cur].data) = Cap(flash'[job.cur])
    <3>1. flash'[job.cur] = flash[job.cur]
      <4>1. m - 1 \in 0 .. m - 1
        BY <1>3, SizesAssumption
      <4> QED BY <1>3, <2>4, <2>7, <4>1
    <3>2. Len(flash[job.cur].data) + 0 = Cap(flash[job.cur]) /\ Len(flash[job.cur].data) \in Nat
      BY <1>2 DEF PutFile, FlashTypes, ChunkType
    <3> QED BY <3>1, <3>2
  <2>10. PutRow'
    BY <1>3, <2>5, <2>8, <2>9 DEF PutRow, LastLinked
  <2>11. PutHead'
    BY <1>2, <2>5, <2>6, <2>10, PutHeadStays
  <2>12. Clear(flash, h) /\ Clear(flash', h)
    <3>1. Clear(flash, h)
      BY <2>4, ClearDead DEF Has
    <3>2. OpenClear'
      BY <2>11, OpenNext
    <3> QED BY <2>5, <3>1, <3>2 DEF OpenClear
  <2>13. Quiet
    BY <2>4, <2>12 DEF Quiet
  <2> QED BY <1>2, <2>5, <2>6, <2>10, <2>13, PutStays
<1> QED BY <1>4, <1>5

\* The link to it.
LEMMA PutLinkDone ==
  ASSUME RInv, IInv', PutLink
  PROVE  Done
<1>1. PICK L \in SUBSET Chunks : Sound(L)
  BY DEF RInv, IInv
<1>2. /\ FlashTypes /\ RamTypes /\ job \in PutJobs /\ job.op = "put"
      /\ job.at = "link" /\ PutFile /\ job.room = BodyRoom /\ vol.last = job.cur
      /\ job.cur \in Chunks /\ job.prev \in Chunks /\ job.prev \in L /\ job.cur \notin L
  BY <1>1, InvGives, JobIs DEF PutLink, At, PutJobs, PutEnds
<1>3. PICK p \in Chunks, b \in Chunks : p = job.prev /\ b = job.cur
  BY <1>2
<1>4. PICK m, r :
        m \in 1..N /\ CopyRow(flash, job.head, m, r, job.name, job.done) /\ r[m - 1] = p
  BY <1>2, <1>3 DEF RInv, Extra, PutRow, LastLinked
<1>5. /\ flash'[p] = [flash[p] EXCEPT !.next = b] /\ \A d \in Chunks \ {p} : flash'[d] = flash[d]
      /\ flash[p] \in ChunkType
  BY <1>2, <1>3, WrittenNext DEF PutLink, FlashTypes
<1>6. /\ flash'[p].next = b /\ flash'[p].data = flash[p].data /\ flash'[p].name = flash[p].name
      /\ flash'[p].size = flash[p].size /\ flash'[p].magic = flash[p].magic
      /\ flash'[p].type = flash[p].type
  BY <1>5 DEF ChunkType
<1>7. /\ job'.op = "put" /\ job'.at = "data" /\ job'.head = job.head /\ job'.cur = b
      /\ job'.name = job.name /\ job'.size = job.size /\ job'.done = job.done
  BY <1>2, <1>3 DEF PutLink, PutJobs
<1>8. HeadsKept
  BY <1>5, <1>6 DEF HeadsKept, Has
<1>9. PutRow'
  <2>1. b # p /\ b # job.head
    <3>1. Has(flash, job.head, "HEAD") /\ job.head \in Chunks
      BY <1>2 DEF PutFile, PutJobs
    <3>2. job.head \in L
      BY <1>1, <3>1, InvGives DEF FlashParts, Live
    <3> QED BY <1>2, <1>3, <3>2
  <2>2. Has(flash, b, "BODY") /\ flash[b].next = None
    BY <1>2, <1>3, <2>1 DEF PutFile
  <2>3. Len(flash[b].data) = 0
    <3>1. Len(flash[b].data) + BodyRoom = Cap(flash[b]) /\ Len(flash[b].data) \in Nat
      BY <1>2, <1>3 DEF PutFile, FlashTypes, ChunkType
    <3>2. Cap(flash[b]) = BodyRoom /\ BodyRoom \in Nat
      BY <2>2, SizesAssumption DEF Has, Cap
    <3> QED BY <3>1, <3>2
  <2>4. Len(flash[p].data) = Cap(flash[p])
    BY <1>2, <1>3 DEF RInv, Extra, PutRow
  <2>5. flash \in [Chunks -> ChunkType]
    BY <1>2 DEF FlashTypes
  <2>6. PICK q : CopyRow(flash', job.head, m + 1, q, job.name, job.done) /\ q[m] = b
    BY <1>4, <1>5, <2>1, <2>2, <2>3, <2>4, <2>5, CopyLink
  <2>7. PICK e \in 1..N : e = m + 1
    BY <2>6, CopyLength
  <2>8. CopyRow(flash', job.head, e, q, job.name, job.done) /\ q[e - 1] = b
    BY <1>4, <2>6, <2>7, SizesAssumption
  <2> QED BY <1>7, <2>8 DEF PutRow, LastLinked
<1>10. PutHead'
  BY <1>2, <1>7, <1>8, <1>9, PutHeadStays
<1>11. Clear(flash, p) /\ Clear(flash', p)
  <2>1. OpenClear /\ OpenClear'
    BY <1>10, OpenIs, OpenNext DEF RInv, Extra
  <2>2. Clear(flash, p) /\ Clear(flash', b)
    BY <1>2, <1>3, <1>7, <2>1 DEF OpenClear, LastLinked
  <2> QED BY <1>6, <2>2, ClearBefore
<1>12. Quiet
  BY <1>5, <1>11 DEF Quiet
<1> QED BY <1>2, <1>7, <1>8, <1>9, <1>12, PutStays

\* A read from the SD card fails.
LEMMA SdErrorDone ==
  ASSUME RInv, IInv', SdError
  PROVE  Done
<1>1. PICK L \in SUBSET Chunks : Sound(L)
  BY DEF RInv, IInv
<1>2. job \in PutJobs /\ job.op = "put" /\ job.at = "data"
  BY <1>1, InvGives, JobIs DEF SdError, At
<1>3. flash' = flash /\ job' = [job EXCEPT !.at = "fail"]
  BY DEF SdError
<1>4. /\ job'.op = "put" /\ job'.at = "fail" /\ job'.head = job.head /\ job'.cur = job.cur
      /\ job'.name = job.name /\ job'.size = job.size /\ job'.done = job.done
  BY <1>2, <1>3 DEF PutJobs
<1>5. PutRow'
  BY <1>2, <1>3, <1>4 DEF RInv, Extra, PutRow, LastLinked
<1> QED BY <1>2, <1>3, <1>4, <1>5, StillQuiet, PutStays

\* The size makes the file one that can be read.
LEMMA CloseFiles ==
  ASSUME RInv, IInv', job.op = "put", job.at \in {"data", "fail"}, Close
  PROVE  /\ AllFiles' = AllFiles \cup {Store!File(job.name, job.done)}
         /\ NamesOnce(flash') /\ \A c \in Chunks : flash'[c].name = flash[c].name
<1>1. PICK L \in SUBSET Chunks : Sound(L)
  BY DEF RInv, IInv
<1>2. /\ FlashTypes /\ RamTypes /\ job \in PutJobs /\ PutFile /\ FlashTypes'
      /\ job.head \in Chunks /\ job.name \in Names /\ job.done \in Nat
  BY <1>1, InvGives, JobIs, NextTypes DEF PutJobs
<1>3. PICK h \in Chunks : h = job.head
  BY <1>2
<1>4. /\ Has(flash, h, "HEAD") /\ flash[h].size = None /\ flash[h] \in ChunkType
      /\ flash[h].name = job.name
  BY <1>2, <1>3 DEF PutFile, RInv, Extra, PutHead, FlashTypes
<1>5. /\ flash'[h] = [flash[h] EXCEPT !.size = job.done]
      /\ \A d \in Chunks \ {h} : flash'[d] = flash[d]
  BY <1>2, <1>3, WrittenSize DEF Close
<1>6. /\ SameHeader(flash', flash, h) /\ flash'[h].data = flash[h].data
      /\ flash'[h].size = job.done /\ flash'[h].name = job.name
  BY <1>4, <1>5 DEF ChunkType, SameHeader
<1>7. PICK m, r :
        m \in 1..N /\ CopyRow(flash, h, m, r, job.name, job.done)
  BY <1>3 DEF RInv, Extra, PutRow
<1>8. CopyRow(flash', h, m, r, job.name, job.done)
  <2>1. \A k \in 0 .. m - 1 :
          SameHeader(flash', flash, r[k]) /\ flash'[r[k]].data = flash[r[k]].data
    <3>1. \A k \in 0 .. m - 1 : r[k] \in Chunks
      BY <1>7 DEF CopyRow, Chained
    <3> QED BY <1>5, <1>6, <3>1 DEF SameHeader
  <2> QED BY <1>7, <2>1, CopyKept
<1>9. Filled(flash) /\ Filled(flash')
  BY <1>2 DEF FlashTypes, Filled
<1>10. PICK u : Readable(flash', h, m, r, u)
  BY <1>6, <1>7, <1>8, <1>9, CopyFile
<1>11. FileOf(flash', r) = Store!File(job.name, job.done)
  <2>1. FileOf(flash', r) = [name |-> job.name, data |-> [i \in 1..job.done |-> <<job.name, i>>]]
    BY <1>6, <1>7, <1>8, <1>9, CopyFile
  <2> QED BY <2>1 DEF Store!File
<1>12. Clear(flash, h)
  BY <1>4, ClearDead DEF Has
<1>13. \A x : IsFile(flash', x) <=> IsFile(flash, x) \/ x = FileOf(flash', r)
  BY <1>5, <1>7, <1>9, <1>10, <1>12, FilesAdd
<1>14. AllFiles' = AllFiles \cup {Store!File(job.name, job.done)}
  BY <1>9, <1>11, <1>13, FilesAre, FilesNext
<1>15. \A c \in Chunks :
         flash'[c].name = flash[c].name /\ (Has(flash', c, "HEAD") <=> Has(flash, c, "HEAD"))
  <2>1. flash'[h].name = flash[h].name /\ (Has(flash', h, "HEAD") <=> Has(flash, h, "HEAD"))
    BY <1>4, <1>6 DEF SameHeader, Has
  <2>2. \A c \in Chunks \ {h} :
          flash'[c].name = flash[c].name /\ (Has(flash', c, "HEAD") <=> Has(flash, c, "HEAD"))
    BY <1>5 DEF Has
  <2> QED BY <2>1, <2>2
<1>16. NamesOnce(flash')
  BY <1>2, <1>5, <1>6, <1>15 DEF RInv, Extra, NamesOnce
<1> QED BY <1>14, <1>15, <1>16

\* The end of a copy.
LEMMA PutEndDone ==
  ASSUME RInv, IInv', PutEnd
  PROVE  Done
<1>1. job.op = "put" /\ job.at = "data" /\ job.done = job.size /\ Close /\ job'.op = "idle"
  BY DEF PutEnd, At, Idle
<1>2. /\ AllFiles' = AllFiles \cup {Store!File(job.name, job.size)} /\ NamesOnce(flash')
  BY <1>1, CloseFiles
<1>3. Task = [op |-> "put", name |-> job.name, size |-> job.size] /\ Task' = [op |-> "none"]
  BY <1>1, TaskIs, TaskNext
<1> QED BY <1>1, <1>2, <1>3, StepPut, ExtraPlain DEF Done

\* A copy that fails is deleted by its name.
LEMMA PutFailDone ==
  ASSUME RInv, IInv', PutFail
  PROVE  Done
<1>1. PICK L \in SUBSET Chunks : Sound(L)
  BY DEF RInv, IInv
<1>2. /\ job.op = "put" /\ job.at = "fail" /\ Close /\ job' = RemoveJob(job.name)
      /\ job \in PutJobs /\ PutFile /\ Caches /\ RamTypes
  BY <1>1, InvGives, JobIs DEF PutFail, At
<1>3. /\ AllFiles' = AllFiles \cup {Store!File(job.name, job.done)} /\ NamesOnce(flash')
      /\ \A c \in Chunks : flash'[c].name = flash[c].name
  BY <1>2, CloseFiles
<1>4. job'.op = "remove" /\ job'.name = job.name /\ job'.cur = Search(job.name)
  BY <1>2 DEF RemoveJob
<1>5. Search(job.name) \in Chunks /\ flash[Search(job.name)].name = job.name
  <2>1. PICK h \in Chunks : h = job.head /\ Has(flash, h, "HEAD") /\ flash[h].name = job.name
    BY <1>2 DEF PutFile, PutJobs
  <2>2. map[h] = Header(flash[h])
    BY <1>2, <2>1 DEF Caches
  <2>3. Is(h, "HEAD")
    BY <2>1, <2>2, SameInMap
  <2> QED BY <2>1, <2>3, SearchIs
<1>6. RemoveHead'
  BY <1>3, <1>4, <1>5 DEF RemoveHead
<1>7. FStep
  <2>1. Task = [op |-> "put", name |-> job.name, size |-> job.size]
    BY <1>2, TaskIs
  <2>2. Task' = [op |-> "remove", name |-> job.name]
    BY <1>4, TaskNext
  <2>3. job.done \in 0..job.size
    BY <1>2, SizesAssumption DEF PutFile, PutJobs
  <2> QED BY <1>3, <2>1, <2>2, <2>3, StepFail
<1> QED BY <1>3, <1>4, <1>6, <1>7 DEF Done, Extra, PutHead, PutRow, FixBad, At

-----------------------------------------------------------------------------
(* Jobs that change no file but by a deletion, a format or a repair. *)

\* What changes no file and is no copy, deletion or format.
LEMMA EndQuiet ==
  ASSUME RInv, IInv', Quiet, HeadsKept, job'.op \notin {"put", "remove", "format"}, FixBad'
  PROVE  Done
<1>1. PICK L \in SUBSET Chunks : Sound(L)
  BY DEF RInv, IInv
<1>2. FlashTypes /\ FlashTypes'
  BY <1>1, InvGives, NextTypes
<1>3. AllFiles' = AllFiles /\ Task' = [op |-> "none"]
  BY <1>2, QuietSame, TaskNext
<1>4. NamesOnce(flash')
  BY NamesKept DEF RInv, Extra
<1> QED BY <1>3, <1>4, StepEnd DEF Done, Extra, PutHead, PutRow, RemoveHead, At

\* A mount, the loss of power, and what only begins.
LEMMA EndStill ==
  ASSUME RInv, IInv', flash' = flash, job'.op \in {"idle", "off", "retest"}
  PROVE  Done
<1>1. FixBad'
  BY DEF FixBad, At
<1> QED BY <1>1, StillQuiet, EndQuiet

\* While no operation runs the directory shows every head.
LEMMA ListedIs ==
  ASSUME RamTypes, Caches, job = Idle, NEW h \in Chunks, Has(flash, h, "HEAD")
  PROVE  h \in Listed
<1>1. /\ \A c \in Chunks : map[c] = Header(flash[c])
      /\ vol.files = Count(flash, "HEAD")
  BY DEF Caches, Idle
<1>2. \A c \in Chunks : Is(c, "HEAD") <=> Has(flash, c, "HEAD")
  BY <1>1, SameInMap
<1>3. Heads = {c \in Chunks : Has(flash, c, "HEAD")}
  BY <1>2 DEF Heads
<1>4. vol.files = Cardinality(Heads)
  BY <1>1, <1>3 DEF Count, Has
<1>5. PICK H : H = Heads
  OBVIOUS
<1>6. PICK B : B = {d \in Heads : d < h}
  OBVIOUS
<1>7. IsFiniteSet(H) /\ B \subseteq H /\ h \in H /\ h \notin B
  <2>1. H \subseteq Chunks /\ h \in H
    BY <1>3, <1>5
  <2>2. IsFiniteSet(H)
    BY <2>1, ChunksFinite, FS_Subset
  <2>3. ~(h < h)
    BY SizesAssumption DEF Chunks
  <2> QED BY <1>5, <1>6, <2>1, <2>2, <2>3
<1>8. Cardinality(B) <= Cardinality(H) /\ Cardinality(B) # Cardinality(H)
  BY <1>7, FS_Subset
<1>9. Cardinality(B) \in Nat /\ Cardinality(H) \in Nat
  BY <1>7, FS_Subset, FS_CardinalityType
<1>10. Cardinality(B) < Cardinality(H)
  BY <1>8, <1>9
<1> QED BY <1>4, <1>5, <1>6, <1>7, <1>10 DEF Listed

\* A copy begins where no file has the name.
LEMMA CopyBeginDone ==
  ASSUME RInv, IInv', NEW n \in Names, NEW z \in Sizes, CopyBegin(n, z)
  PROVE  Done
<1>1. PICK L \in SUBSET Chunks : Sound(L)
  BY DEF RInv, IInv
<1>2. FlashTypes /\ FlashTypes' /\ RamTypes /\ Caches
  BY <1>1, InvGives, NextTypes
<1>3. /\ job = Idle /\ job.op = "idle" /\ flash' = flash
      /\ job'.op = "put" /\ job'.at = "take" /\ job'.name = n /\ job'.size = z
  BY DEF CopyBegin, Ready, Idle
<1>4. \A c \in Chunks : Has(flash, c, "HEAD") => flash[c].name # n
  <2>1. \A c \in Chunks : Has(flash, c, "HEAD") => c \in Listed
    BY <1>2, <1>3, ListedIs
  <2> QED BY <2>1 DEF CopyBegin
<1>5. ASSUME NEW x \in AllFiles PROVE x.name # n
  <2>1. PICK h \in Chunks : Whole(h) /\ x = FileAt(h)
    BY DEF AllFiles, WholeFiles
  <2>2. Has(flash, h, "HEAD") /\ x.name = flash[h].name
    BY <2>1 DEF Whole, FileAt, Has
  <2> QED BY <1>4, <2>2
<1>6. AllFiles' = AllFiles /\ HeadsKept
  BY <1>2, <1>3, StillQuiet, QuietSame
<1>7. Task = [op |-> "none"] /\ Task' = [op |-> "put", name |-> n, size |-> z]
  BY <1>3, TaskIs, TaskNext
<1>8. FStep
  BY <1>5, <1>6, <1>7, StepPutBegin
<1>9. NamesOnce(flash') /\ PutHead'
  BY <1>3, <1>4 DEF RInv, Extra, PutHead
<1> QED BY <1>3, <1>8, <1>9 DEF Done, Extra, PutRow, RemoveHead, FixBad, At

\* A deletion begins with the head the search finds.
LEMMA RemoveBeginDone ==
  ASSUME RInv, IInv', RemoveBegin
  PROVE  Done
<1>1. PICK L \in SUBSET Chunks : Sound(L)
  BY DEF RInv, IInv
<1>2. FlashTypes /\ FlashTypes' /\ RamTypes
  BY <1>1, InvGives, NextTypes
<1>3. PICK c \in Chunks : /\ Is(c, "HEAD") /\ flash[c].name # NoHdr
                          /\ job' = RemoveJob(flash[c].name)
  BY DEF RemoveBegin, Listed, Heads
<1>4. PICK n : n = flash[c].name
  OBVIOUS
<1>5. job.op = "idle" /\ flash' = flash
  BY DEF RemoveBegin, Ready, Idle
<1>6. job'.op = "remove" /\ job'.name = n /\ job'.cur = Search(n)
  BY <1>3, <1>4 DEF RemoveJob
<1>7. flash[Search(n)].name = n
  BY <1>3, <1>4, SearchIs
<1>8. RemoveHead'
  BY <1>5, <1>6, <1>7 DEF RemoveHead
<1>9. n \in Names \cup {NoName}
  BY <1>2, <1>3, <1>4 DEF FlashTypes, ChunkType
<1>10. AllFiles' = AllFiles
  BY <1>2, <1>5, StillQuiet, QuietSame
<1>11. Task = [op |-> "none"] /\ Task' = [op |-> "remove", name |-> n]
  BY <1>5, <1>6, TaskIs, TaskNext
<1>12. FStep
  BY <1>9, <1>10, <1>11, StepRemoveBegin
<1>13. NamesOnce(flash')
  BY <1>5 DEF RInv, Extra
<1> QED BY <1>6, <1>8, <1>12, <1>13 DEF Done, Extra, PutHead, PutRow, FixBad, At

\* A chunk of the file that is deleted becomes blank.
LEMMA RemoveLost ==
  ASSUME RInv, IInv', At("remove", "erase"), NEW b \in {Erased, Torn},
         flash' = [c \in Chunks |-> IF c \in {job.cur} THEN b ELSE flash[c]],
         Task' \in {Task, [op |-> "none"]}
  PROVE  FStep /\ NamesOnce(flash')
<1>1. PICK L \in SUBSET Chunks, s \in Spots : Sound(L) /\ Filed(L, s)
  BY DEF RInv, IInv
<1>2. /\ FlashTypes /\ FlashTypes' /\ RamTypes /\ job \in RemoveJobs /\ job.op = "remove"
      /\ RemoveInv(L) /\ FlashParts(L)
  BY <1>1, InvGives, JobIs, NextTypes DEF At
<1>3. Filled(flash) /\ Filled(flash')
  BY <1>2 DEF FlashTypes, Filled
<1>4. PICK e \in Chunks : e = job.cur /\ Unlinked(flash, L, e)
  BY <1>2 DEF RemoveInv, RemoveJobs, At
<1>5. /\ HeadsKept
      /\ \A c \in Chunks : (c \notin {job.cur} /\ flash'[c] = flash[c]) \/ Clear(flash', c)
      /\ \A d \in Chunks \ {e} : flash'[d] = flash[d]
  BY <1>2, <1>4, BlankLost
<1>6. Clear(flash', e)
  BY <1>4, <1>5
<1>7. NamesOnce(flash')
  BY <1>5, NamesKept DEF RInv, Extra
<1>8. Task = [op |-> "remove", name |-> job.name]
  BY <1>2, TaskIs
<1>9. CASE Has(flash, e, "HEAD")
  <2>1. flash[e].name = job.name
    BY <1>4, <1>9 DEF RInv, Extra, RemoveHead
  <2>2. \A d \in Chunks : Has(flash, d, "HEAD") /\ flash[d].size # None =>
          (flash[d].name = job.name <=> d = e)
    BY <1>9, <2>1 DEF RInv, Extra, NamesOnce
  <2>3. \A x : IsFile(flash', x) <=> IsFile(flash, x) /\ x.name # job.name
    BY <1>3, <1>5, <1>6, <1>9, <2>2, FilesDrop
  <2>4. \A x : x \in AllFiles' <=> x \in AllFiles /\ x.name # job.name
    BY <1>3, <2>3, FilesAre, FilesNext
  <2> QED BY <1>7, <1>8, <2>4, StepRemove
<1>10. CASE ~Has(flash, e, "HEAD")
  <2>1. Clear(flash, e)
    BY <1>1, <1>4, <1>10, PlacedIs, ClearUnlinked
  <2>2. Quiet
    BY <1>5, <1>6, <2>1 DEF Quiet
  <2>3. AllFiles' = AllFiles
    BY <1>2, <2>2, QuietSame
  <2> QED BY <1>7, <2>3, StepNone, StepEnd
<1> QED BY <1>9, <1>10

\* Its erase.
LEMMA RemoveEraseDone ==
  ASSUME RInv, IInv', RemoveErase
  PROVE  Done
<1>1. PICK L \in SUBSET Chunks : Sound(L)
  BY DEF RInv, IInv
<1>2. At("remove", "erase") /\ job \in RemoveJobs /\ job.op = "remove"
  BY <1>1, InvGives, JobIs DEF RemoveErase, At
<1>3. job'.op = "remove" /\ job'.at = "magic" /\ job'.name = job.name
  BY <1>2 DEF RemoveErase, RemoveJobs
<1>4. flash' = [c \in Chunks |-> IF c \in {job.cur} THEN Erased ELSE flash[c]]
  BY DEF RemoveErase, EraseMapped, Erase
<1>5. Task' = Task
  BY <1>2, <1>3, TaskIs, TaskNext
<1>6. FStep /\ NamesOnce(flash')
  BY <1>2, <1>4, <1>5, RemoveLost
<1> QED BY <1>3, <1>6 DEF Done, Extra, PutHead, PutRow, RemoveHead, FixBad, At

\* Its magic number.
LEMMA RemoveMagicDone ==
  ASSUME RInv, IInv', RemoveMagic
  PROVE  Done
<1>1. PICK L \in SUBSET Chunks : Sound(L)
  BY DEF RInv, IInv
<1>2. /\ FlashTypes /\ FlashTypes' /\ RamTypes /\ Blank /\ job \in RemoveJobs /\ job.op = "remove"
      /\ job.at = "magic" /\ job.cur \in Chunks /\ RemoveInv(L) /\ WriteMagic(job.cur)
      /\ FlashParts(L)
  BY <1>1, InvGives, JobIs, NextTypes DEF RemoveMagic, At, RemoveJobs
<1>3. Quiet /\ HeadsKept
  BY <1>2, MagicQuiet
<1>4. AllFiles' = AllFiles /\ NamesOnce(flash')
  BY <1>2, <1>3, QuietSame, NamesKept DEF RInv, Extra
<1>5. CASE job.next = None
  <2>1. job'.op = "idle"
    BY <1>5 DEF RemoveMagic, Idle
  <2> QED BY <1>4, <2>1, TaskNext, StepEnd, ExtraPlain DEF Done
<1>6. CASE job.next # None
  <2>1. job' = [job EXCEPT !.at = "erase", !.cur = job.next, !.next = None]
    BY <1>6 DEF RemoveMagic
  <2>2. job'.op = "remove" /\ job'.name = job.name /\ job'.cur = job.next
    BY <1>2, <2>1 DEF RemoveJobs
  <2>3. Task' = Task
    BY <1>2, <2>2, TaskIs, TaskNext
  <2>4. job.next \in L /\ flash[job.next].type = "BODY"
    BY <1>2, <1>6 DEF RemoveInv
  <2>5. ~Has(flash', job.next, "HEAD")
    BY <1>3, <2>4 DEF HeadsKept, Has
  <2>6. RemoveHead'
    BY <2>2, <2>5 DEF RemoveHead
  <2> QED BY <1>4, <2>2, <2>3, <2>6, StepNone DEF Done, Extra, PutHead, PutRow, FixBad, At
<1> QED BY <1>5, <1>6

\* The header of the head.
LEMMA PutHdrDone ==
  ASSUME RInv, IInv', PutHdr
  PROVE  Done
BY PutNamesDone DEF PutHdr, At

\* Its name.
LEMMA PutNameDone ==
  ASSUME RInv, IInv', PutName
  PROVE  Done
BY PutNamesDone DEF PutName, At

\* A format begins.
LEMMA FormatBeginDone ==
  ASSUME RInv, IInv', FormatBegin
  PROVE  Done
<1>1. PICK L \in SUBSET Chunks : Sound(L)
  BY DEF RInv, IInv
<1>2. FlashTypes /\ FlashTypes'
  BY <1>1, InvGives, NextTypes
<1>3. job.op = "idle" /\ job'.op = "format" /\ flash' = flash
  BY DEF FormatBegin, Idle
<1>4. AllFiles' = AllFiles /\ NamesOnce(flash')
  BY <1>2, <1>3, StillQuiet, QuietSame DEF RInv, Extra
<1>5. Task = [op |-> "none"] /\ Task' = [op |-> "format"]
  BY <1>3, TaskIs, TaskNext
<1>6. FStep
  BY <1>4, <1>5, StepFormatBegin
<1> QED BY <1>3, <1>4, <1>6, ExtraPlain DEF Done

\* What a format takes of the flash, it takes of the files.
LEMMA FormatLost ==
  ASSUME RInv, IInv', job.op = "format", HeadsKept, Task' \in {Task, [op |-> "none"]},
         \A c \in Chunks : flash'[c] = flash[c] \/ Clear(flash', c)
  PROVE  FStep /\ NamesOnce(flash')
<1>1. PICK L \in SUBSET Chunks : Sound(L)
  BY DEF RInv, IInv
<1>2. Filled(flash) /\ Filled(flash')
  BY <1>1, InvGives, NextTypes DEF FlashTypes, Filled
<1>3. \A x : IsFile(flash', x) => IsFile(flash, x)
  BY <1>2, FilesLost
<1>4. AllFiles' \subseteq AllFiles
  BY <1>2, <1>3, FilesAre, FilesNext
<1>5. FStep
  BY <1>4, TaskIs, StepWipe
<1>6. NamesOnce(flash')
  BY NamesKept DEF RInv, Extra
<1> QED BY <1>5, <1>6

\* The probe takes chunk 0.
LEMMA FormatProbeDone ==
  ASSUME RInv, IInv', FormatProbe
  PROVE  Done
<1>1. PICK L \in SUBSET Chunks : Sound(L)
  BY DEF RInv, IInv
<1>2. /\ FlashTypes /\ RamTypes /\ job \in FormatJobs /\ job.op = "format"
      /\ job' = [job EXCEPT !.at = "erase"] /\ Write(0, "magic", "junk")
  BY <1>1, InvGives, JobIs DEF FormatProbe, At
<1>3. 0 \in Chunks /\ "junk" \in Magics
  BY SizesAssumption DEF Chunks, Magics
<1>4. Kept(0) /\ flash'[0].magic = "junk"
  BY <1>2, <1>3, WriteMagicField
<1>5. \A d \in Chunks \ {0} : flash'[d] = flash[d]
  BY <1>4 DEF Kept
<1>6. Clear(flash', 0)
  BY <1>3, <1>4, ClearDead DEF Has
<1>7. HeadsKept
  BY <1>4, <1>5 DEF HeadsKept, Has
<1>8. job'.op = "format"
  BY <1>2 DEF FormatJobs
<1>9. Task' = Task
  BY <1>2, <1>8, TaskIs, TaskNext
<1>10. FStep /\ NamesOnce(flash')
  BY <1>2, <1>5, <1>6, <1>7, <1>9, FormatLost
<1> QED BY <1>8, <1>10, ExtraPlain DEF Done

\* Blocks that it erases, or whose erase is cut short.
LEMMA FormatBlanks ==
  ASSUME RInv, IInv', job.op = "format", Task' \in {Task, [op |-> "none"]},
         NEW E, NEW b \in {Erased, Torn},
         flash' = [c \in Chunks |-> IF c \in E THEN b ELSE flash[c]]
  PROVE  FStep /\ NamesOnce(flash')
<1>1. PICK L \in SUBSET Chunks : Sound(L)
  BY DEF RInv, IInv
<1>2. FlashTypes
  BY <1>1, InvGives
<1>3. HeadsKept /\ \A c \in Chunks : flash'[c] = flash[c] \/ Clear(flash', c)
  BY <1>2, BlankLost
<1> QED BY <1>3, FormatLost

\* The erase of some blocks.
LEMMA FormatEraseDone ==
  ASSUME RInv, IInv', FormatErase
  PROVE  Done
<1>1. PICK L \in SUBSET Chunks : Sound(L)
  BY DEF RInv, IInv
<1>2. RamTypes /\ job \in FormatJobs /\ job.op = "format"
  BY <1>1, InvGives, JobIs DEF FormatErase, At
<1>3. PICK n : n = job.block + job.step
  OBVIOUS
<1>4. /\ Erase(job.block .. n - 1)
      /\ job' = IF n < N THEN [job EXCEPT !.block = n]
                ELSE [job EXCEPT !.at = "magic", !.block = 0]
  BY <1>3 DEF FormatErase
<1>5. job'.op = "format"
  BY <1>2, <1>4 DEF FormatJobs
<1>6. Task' = Task
  BY <1>2, <1>5, TaskIs, TaskNext
<1>7. PICK E : flash' = [c \in Chunks |-> IF c \in E THEN Erased ELSE flash[c]]
  BY <1>4 DEF Erase
<1>8. FStep /\ NamesOnce(flash')
  BY <1>2, <1>6, <1>7, FormatBlanks
<1> QED BY <1>5, <1>8, ExtraPlain DEF Done

\* The magic number of a block.
LEMMA FormatMagicDone ==
  ASSUME RInv, IInv', FormatMagic
  PROVE  Done
<1>1. PICK L \in SUBSET Chunks : Sound(L)
  BY DEF RInv, IInv
<1>2. /\ FlashTypes /\ FlashTypes' /\ RamTypes /\ Blank /\ job \in FormatJobs /\ job.op = "format"
      /\ job.block < N /\ WriteMagic(job.block) /\ job' = [job EXCEPT !.block = job.block + 1]
  BY <1>1, InvGives, JobIs, NextTypes DEF FormatMagic, At
<1>3. job.block \in Chunks
  BY <1>2, SizesAssumption DEF FormatJobs, Chunks
<1>4. Quiet /\ HeadsKept
  BY <1>2, <1>3, MagicQuiet
<1>5. AllFiles' = AllFiles /\ NamesOnce(flash')
  BY <1>2, <1>4, QuietSame, NamesKept DEF RInv, Extra
<1>6. job'.op = "format"
  BY <1>2 DEF FormatJobs
<1>7. Task' = Task
  BY <1>2, <1>6, TaskIs, TaskNext
<1> QED BY <1>5, <1>6, <1>7, StepNone, ExtraPlain DEF Done

\* A mount, and what ends with one.
LEMMA MountDone ==
  ASSUME RInv, IInv', flash' = flash, Mounted
  PROVE  Done
BY EndStill DEF Mounted, Idle

\* A retest begins.
LEMMA RetestBeginDone ==
  ASSUME RInv, IInv', RetestBegin
  PROVE  Done
BY EndStill DEF RetestBegin

\* A block without magic number that is erased, or whose erase is cut short.
LEMMA RetestLost ==
  ASSUME RInv, job.op = "retest", job.todo # {}, NEW b \in {Erased, Torn},
         flash' = [c \in Chunks |-> IF c \in {First(job.todo)} THEN b ELSE flash[c]]
  PROVE  Quiet /\ HeadsKept
<1>1. PICK L \in SUBSET Chunks : Sound(L)
  BY DEF RInv, IInv
<1>2. FlashTypes /\ RamTypes /\ RetestInv /\ job \in RetestJobs
  BY <1>1, InvGives, JobIs
<1>3. job.todo \in SUBSET Chunks
  BY <1>2 DEF RetestJobs
<1>4. PICK c \in Chunks : c = First(job.todo) /\ c \in job.todo
  BY <1>3, FirstIs
<1>5. flash[c].magic # "ok"
  BY <1>2, <1>4 DEF RetestInv
<1>6. Clear(flash, c)
  BY <1>5, ClearDead DEF Has
<1>7. /\ HeadsKept
      /\ \A d \in Chunks : (d \notin {First(job.todo)} /\ flash'[d] = flash[d]) \/ Clear(flash', d)
  BY <1>2, BlankLost
<1>8. \A d \in Chunks \ {c} : flash'[d] = flash[d]
  BY <1>4
<1>9. Clear(flash', c)
  BY <1>4, <1>7
<1> QED BY <1>6, <1>7, <1>8, <1>9 DEF Quiet

\* Its erase.
LEMMA RetestEraseDone ==
  ASSUME RInv, IInv', RetestErase
  PROVE  Done
<1>1. PICK L \in SUBSET Chunks : Sound(L)
  BY DEF RInv, IInv
<1>2. RamTypes /\ job \in RetestJobs /\ job.op = "retest" /\ job.todo # {}
  BY <1>1, InvGives, JobIs DEF RetestErase
<1>3. Quiet /\ HeadsKept
  BY <1>2, RetestLost DEF RetestErase, Erase
<1>4. job'.op = "retest"
  BY <1>2 DEF RetestErase, RetestJobs
<1>5. FixBad'
  BY <1>4 DEF FixBad, At
<1> QED BY <1>3, <1>4, <1>5, EndQuiet

\* Its magic number.
LEMMA RetestMagicDone ==
  ASSUME RInv, IInv', RetestMagic
  PROVE  Done
<1>1. PICK L \in SUBSET Chunks : Sound(L)
  BY DEF RInv, IInv
<1>2. FlashTypes /\ RamTypes /\ Blank
  BY <1>1, InvGives
<1>3. Invalid # {} /\ Invalid \in SUBSET Chunks /\ WriteMagic(First(Invalid)) /\ job' = job
      /\ job.op = "retest"
  BY DEF RetestMagic, Invalid
<1>4. PICK c \in Chunks : c = First(Invalid)
  BY <1>3, FirstIs
<1>5. Quiet /\ HeadsKept
  BY <1>2, <1>3, <1>4, MagicQuiet
<1>6. FixBad'
  BY <1>3 DEF FixBad, At
<1> QED BY <1>3, <1>5, <1>6, EndQuiet

\* The scan of a repair marks the chunks of a file that can be read.
LEMMA LinkedRow ==
  ASSUME map \in [Chunks -> HeaderType], NEW h \in Chunks, NEW m \in 1..N,
         NEW r \in [0 .. m - 1 -> Chunks], r[0] = h, map[r[m - 1]].next = None,
         \A k \in 1 .. m - 1 : map[r[k - 1]].next = r[k] /\ Is(r[k], "BODY")
  PROVE  Linked(h) = {r[k] : k \in 1 .. m - 1}
<1>0. N \in Nat /\ m \in Nat /\ m >= 1
  BY SizesAssumption
<1>1. PICK R \in SUBSET Chunks : R = {r[k] : k \in 1 .. m - 1}
  <2>1. \A k \in 1 .. m - 1 : r[k] \in Chunks
    BY <1>0
  <2> QED BY <2>1
<1>2. Closed(R, h)
  <2> SUFFICES ASSUME NEW c \in {h} \cup R, LinksToBody(c) PROVE map[c].next \in R
    BY DEF Closed
  <2>1. PICK j \in 0 .. m - 1 : c = r[j]
    <3>1. CASE c = h
      BY <1>0, <3>1
    <3>2. CASE c \in R
      <4>1. PICK j \in 1 .. m - 1 : c = r[j]
        BY <1>1, <3>2
      <4> QED BY <1>0, <4>1
    <3> QED BY <3>1, <3>2
  <2>2. j # m - 1
    BY <2>1 DEF LinksToBody
  <2>3. j + 1 \in 1 .. m - 1 /\ j + 1 - 1 = j
    BY <1>0, <2>2
  <2>4. map[c].next = r[j + 1]
    BY <2>1, <2>3
  <2> QED BY <1>1, <2>3, <2>4
<1>3. Linked(h) \subseteq R
  BY <1>2, LinkedLeast
<1> DEFINE T == {k \in 1 .. m - 1 : r[k] \notin Linked(h)}
<1>4. ASSUME T # {} PROVE FALSE
  <2>1. T \in SUBSET Nat
    BY <1>0
  <2>2. PICK k \in T : \A j \in T : k <= j
    <3> HIDE DEF T
    <3> QED BY <1>4, <2>1, LeastNumber
  <2>3. k \in 1 .. m - 1 /\ r[k] \notin Linked(h) /\ k - 1 \in 0 .. m - 1 /\ k \in Nat
    BY <1>0
  <2>4. k - 1 \notin T
    <3> HIDE DEF T
    <3> QED BY <2>2, <2>3
  <2>5. r[k - 1] \in {h} \cup Linked(h)
    <3>1. CASE k = 1
      BY <3>1
    <3>2. CASE k # 1
      <4>1. k - 1 \in 1 .. m - 1
        BY <1>0, <2>3, <3>2
      <4> QED BY <2>4, <4>1
    <3> QED BY <3>1, <3>2
  <2>6. map[r[k - 1]].next = r[k] /\ Is(r[k], "BODY") /\ r[k] \in Chunks
    BY <2>3, <1>0
  <2>7. r[k] # None
    BY <2>6 DEF Chunks, None
  <2>8. LinksToBody(r[k - 1])
    BY <2>6, <2>7 DEF LinksToBody
  <2>9. PICK p : p = r[k - 1]
    OBVIOUS
  <2>10. p \in {h} \cup Linked(h) /\ LinksToBody(p) /\ map[p].next \in Chunks
    BY <2>5, <2>6, <2>8, <2>9
  <2>11. map[p].next \in Linked(h)
    BY <2>10, LinkedClosed
  <2> QED BY <2>3, <2>6, <2>9, <2>11
<1>5. \A k \in 1 .. m - 1 : r[k] \in Linked(h)
  <2> HIDE DEF T
  <2>1. T = {}
    BY <1>4
  <2> QED BY <2>1 DEF T
<1>6. R \subseteq Linked(h)
  BY <1>1, <1>5
<1> QED BY <1>1, <1>3, <1>6

\* So a repair does not find fault with it.
LEMMA GoodIs ==
  ASSUME RInv, job.op = "fix", NEW h \in Chunks, NEW m \in 1..N, NEW r, NEW u,
         Readable(flash, h, m, r, u)
  PROVE  Good(h)
<1>1. PICK L \in SUBSET Chunks, s \in Spots : Sound(L) /\ Filed(L, s)
  BY DEF RInv, IInv
<1>2. FlashTypes /\ RamTypes /\ FixMap(L) /\ Placed(flash, L, s)
  BY <1>1, InvGives, PlacedIs
<1>3. /\ r \in [0 .. m - 1 -> Chunks] /\ r[0] = h /\ flash[r[m - 1]].next = None
      /\ \A k \in 1 .. m - 1 : r[k] = flash[r[k - 1]].next /\ Has(flash, r[k], "BODY")
      /\ Has(flash, h, "HEAD") /\ flash[h].size # None /\ flash[h].size <= u[m]
  BY DEF Readable, Chained
<1>4. N \in Nat /\ m \in Nat /\ m >= 1
  BY SizesAssumption
<1>5. ASSUME NEW k \in 0 .. m - 1 PROVE r[k] \in Chunks /\ map[r[k]] = Header(flash[r[k]])
  <2>1. r[k] \in Chunks
    BY <1>3
  <2>2. Has(flash, r[k], "HEAD") \/ Has(flash, r[k], "BODY")
    BY <1>3, <1>4
  <2> QED BY <1>2, <2>1, <2>2 DEF FixMap, Has
<1>6. map[r[m - 1]].next = None
  <2>1. m - 1 \in 0 .. m - 1
    BY <1>4
  <2> QED BY <1>3, <1>5, <2>1, SameInMap
<1>7. ASSUME NEW k \in 1 .. m - 1 PROVE map[r[k - 1]].next = r[k] /\ Is(r[k], "BODY")
  <2>1. k - 1 \in 0 .. m - 1 /\ k \in 0 .. m - 1
    BY <1>4
  <2>2. map[r[k - 1]].next = flash[r[k - 1]].next
    BY <1>5, <2>1, SameInMap
  <2>3. Is(r[k], "BODY")
    BY <1>3, <1>5, <2>1, SameInMap
  <2> QED BY <1>3, <2>2, <2>3
<1>8. PICK R : R = Linked(h) /\ R = {r[k] : k \in 1 .. m - 1}
  <2>1. map \in [Chunks -> HeaderType]
    BY <1>2 DEF RamTypes
  <2> QED BY <1>3, <1>6, <1>7, <2>1, LinkedRow
<1>9. \A c \in {h} \cup Linked(h) : map[c].next # None => Is(map[c].next, "BODY")
  <2> SUFFICES ASSUME NEW c \in {h} \cup R, map[c].next # None PROVE Is(map[c].next, "BODY")
    BY <1>8
  <2>1. PICK j \in 0 .. m - 1 : c = r[j]
    <3>1. CASE c = h
      BY <1>3, <1>4, <3>1
    <3>2. CASE c \in R
      <4>1. PICK j \in 1 .. m - 1 : c = r[j]
        BY <1>8, <3>2
      <4> QED BY <1>4, <4>1
    <3> QED BY <3>1, <3>2
  <2>2. j # m - 1
    BY <1>6, <2>1
  <2>3. j + 1 \in 1 .. m - 1 /\ j + 1 - 1 = j
    BY <1>4, <2>2
  <2> QED BY <1>7, <2>1, <2>3
<1>10. flash[h].name # NoHdr
  BY <1>3, NamesAssumption DEF RInv, Extra, NamesOnce
<1>11. IsFiniteSet(R) /\ Cardinality(R) \in Nat
  <2>1. R \subseteq Chunks
    BY <1>8 DEF Linked
  <2> QED BY <2>1, ChunksFinite, FS_Subset, FS_CardinalityType
<1>12. m - 1 <= Cardinality(R)
  <2> SUFFICES ASSUME Cardinality(R) < m - 1 PROVE FALSE
    BY <1>4, <1>11
  <2>1. IsFiniteSet(1 .. m - 1) /\ Cardinality(1 .. m - 1) = m - 1
    BY <1>4, FS_Interval
  <2>2. PICK f : f = [k \in 1 .. m - 1 |-> r[k]]
    OBVIOUS
  <2>3. f \in [1 .. m - 1 -> R]
    BY <1>8, <2>2
  <2>4. PICK x \in 1 .. m - 1, y \in 1 .. m - 1 : x # y /\ f[x] = f[y]
    BY <1>11, <2>1, <2>3, FS_PigeonHole
  <2>5. r[x] = r[y]
    BY <2>2, <2>4
  <2>6. s[r[x]].links = x /\ s[r[y]].links = y
    <3>1. x \in 0 .. m - 1 /\ y \in 0 .. m - 1
      BY <1>4
    <3> QED BY <1>2, <3>1, RowLive
  <2> QED BY <2>4, <2>5, <2>6
<1>13. flash[h].size \in 0 .. HeadRoom + BodyRoom * Cardinality(Linked(h))
  <2>1. PICK q \in Nat : q = Cardinality(R) /\ m - 1 <= q
    BY <1>11, <1>12
  <2>2. PICK z \in Nat : z = flash[h].size
    BY <1>2, <1>3 DEF FlashTypes, ChunkType
  <2>3. u[m] <= HeadRoom + BodyRoom * (m - 1)
    <3>1. Filled(flash)
      BY <1>2 DEF FlashTypes, Filled
    <3>2. m \in 1..m
      BY <1>4
    <3> QED BY <3>1, <3>2, CountBound
  <2>4. BodyRoom * (m - 1) <= BodyRoom * q
    <3>1. PICK d \in Nat : q = (m - 1) + d
      <4>1. q - (m - 1) \in Nat /\ q = (m - 1) + (q - (m - 1))
        BY <1>4, <2>1
      <4> QED BY <4>1
    <3>2. BodyRoom * q = BodyRoom * (m - 1) + BodyRoom * d
      BY <1>4, <3>1, SizesAssumption
    <3>3. BodyRoom * d \in Nat /\ BodyRoom * (m - 1) \in Nat
      BY <1>4, SizesAssumption
    <3> QED BY <3>2, <3>3
  <2>5. u[m] \in Nat
    BY <1>4 DEF Readable, Counted
  <2>6. BodyRoom * q \in Nat /\ BodyRoom * (m - 1) \in Nat /\ HeadRoom \in Nat
    BY <1>4, SizesAssumption
  <2>7. z <= HeadRoom + BodyRoom * q
    BY <1>3, <2>2, <2>3, <2>4, <2>5, <2>6
  <2> QED BY <1>8, <2>1, <2>2, <2>6, <2>7
<1> QED BY <1>9, <1>10, <1>13 DEF Good

\* What a repair erases is of no file.
LEMMA FixLost ==
  ASSUME RInv, At("fix", "erase"), NEW b \in {Erased, Torn},
         flash' = [c \in Chunks |-> IF c \in {job.cur} THEN b ELSE flash[c]]
  PROVE  Quiet /\ HeadsKept
<1>1. PICK L \in SUBSET Chunks, s \in Spots : Sound(L) /\ Filed(L, s)
  BY DEF RInv, IInv
<1>2. /\ FlashTypes /\ RamTypes /\ FixAt(L) /\ Placed(flash, L, s)
      /\ job \in FixJobs /\ job.op = "fix" /\ job.at = "erase"
  BY <1>1, InvGives, JobIs, PlacedIs DEF At
<1>3. PICK e \in Chunks : e = job.cur
  BY <1>2 DEF FixJobs
<1>4. Unlinked(flash, L, e)
  BY <1>2, <1>3 DEF FixAt
<1>5. Clear(flash, e)
  <2>1. CASE Has(flash, e, "HEAD")
    <3>1. ~Good(e)
      BY <1>3, <2>1 DEF RInv, Extra, FixBad, BadHead
    <3> SUFFICES ASSUME NEW h \in Chunks, NEW m \in 1..N, NEW r, NEW u,
                        Readable(flash, h, m, r, u), NEW k \in 0 .. m - 1, r[k] = e
                 PROVE  FALSE
      BY DEF Clear
    <3>2. k = 0
      <4>1. k # 0 => k \in 1 .. m - 1
        BY SizesAssumption
      <4>2. \A j \in 1 .. m - 1 : Has(flash, r[j], "BODY")
        BY DEF Readable
      <4> QED BY <2>1, <4>1, <4>2 DEF Has
    <3>3. h = e
      BY <3>2 DEF Readable, Chained
    <3> QED BY <1>2, <3>1, <3>3, GoodIs
  <2>2. CASE ~Has(flash, e, "HEAD")
    BY <1>2, <1>4, <2>2, ClearUnlinked
  <2> QED BY <2>1, <2>2
<1>6. /\ HeadsKept
      /\ \A d \in Chunks : (d \notin {job.cur} /\ flash'[d] = flash[d]) \/ Clear(flash', d)
  BY <1>2, BlankLost
<1>7. \A d \in Chunks \ {e} : flash'[d] = flash[d]
  BY <1>3
<1>8. Clear(flash', e)
  BY <1>3, <1>6
<1> QED BY <1>5, <1>6, <1>7, <1>8 DEF Quiet

\* A repair begins.
LEMMA FixBeginDone ==
  ASSUME RInv, IInv', FixBegin
  PROVE  Done
<1>1. flash' = flash /\ job'.op = "fix" /\ job'.at = "visit"
  BY DEF FixBegin
<1>2. Quiet /\ HeadsKept /\ FixBad'
  BY <1>1, StillQuiet DEF FixBad, At
<1> QED BY <1>1, <1>2, EndQuiet

\* A block it does not like, which is a head only if it is a bad one.
LEMMA FixVisitDone ==
  ASSUME RInv, IInv', FixVisit
  PROVE  Done
<1>1. PICK L \in SUBSET Chunks : Sound(L)
  BY DEF RInv, IInv
<1>2. /\ RamTypes /\ FixMap(L) /\ job \in FixJobs /\ job.op = "fix" /\ Faults # {}
      /\ flash' = flash /\ map' = map
      /\ job' = [job EXCEPT !.at = "erase", !.block = First(Faults), !.cur = First(Faults),
                            !.chain = BadHead(First(Faults))]
  BY <1>1, InvGives, JobIs DEF FixVisit, At
<1>3. Faults \in SUBSET Chunks
  BY <1>2 DEF Faults, Chunks, FixJobs
<1>4. PICK b \in Chunks : b = First(Faults) /\ b \in Faults
  BY <1>2, <1>3, FirstIs
<1>5. job'.op = "fix" /\ job'.at = "erase" /\ job'.cur = b
  BY <1>2, <1>4 DEF FixJobs
<1>6. Has(flash, b, "HEAD") => BadHead(b)
  <2> SUFFICES ASSUME Has(flash, b, "HEAD") PROVE BadHead(b)
    OBVIOUS
  <2>1. map[b] = Header(flash[b])
    BY <1>2 DEF FixMap, Has
  <2>2. Is(b, "HEAD")
    BY <2>1, SameInMap
  <2>3. ~IsLost(b)
    BY <2>2 DEF IsLost, Is
  <2> QED BY <1>4, <2>3 DEF Faults
<1>7. BadHead(b)' <=> BadHead(b)
  BY <1>2 DEF BadHead, Good, Linked, Closed, LinksToBody, Is
<1>8. FixBad'
  BY <1>2, <1>5, <1>6, <1>7 DEF FixBad
<1>9. Quiet /\ HeadsKept
  BY <1>2, StillQuiet
<1> QED BY <1>5, <1>8, <1>9, EndQuiet

\* Its erase.
LEMMA FixEraseDone ==
  ASSUME RInv, IInv', FixErase
  PROVE  Done
<1>1. PICK L \in SUBSET Chunks : Sound(L)
  BY DEF RInv, IInv
<1>2. At("fix", "erase") /\ job \in FixJobs
  BY <1>1, InvGives, JobIs DEF FixErase, At
<1>3. Quiet /\ HeadsKept
  BY <1>2, FixLost DEF FixErase, Erase
<1>4. job'.op = "fix" /\ job'.at = "magic"
  BY <1>2 DEF FixErase, FixJobs
<1>5. FixBad'
  BY <1>4 DEF FixBad, At
<1> QED BY <1>3, <1>4, <1>5, EndQuiet

\* Its magic number; the next chunk of the chain is no head.
LEMMA FixMagicDone ==
  ASSUME RInv, IInv', FixMagic
  PROVE  Done
<1>1. PICK L \in SUBSET Chunks : Sound(L)
  BY DEF RInv, IInv
<1>2. /\ FlashTypes /\ RamTypes /\ Blank /\ FixMap(L) /\ FixAt(L) /\ job \in FixJobs
      /\ job.op = "fix" /\ job.at = "magic" /\ WriteMagic(job.cur)
  BY <1>1, InvGives, JobIs DEF FixMagic, At
<1>3. PICK c \in Chunks, n \in Links : c = job.cur /\ n = job.next
  BY <1>2 DEF FixJobs
<1>4. Quiet /\ HeadsKept
  BY <1>2, <1>3, MagicQuiet
<1>5. \/ job' = [job EXCEPT !.at = "visit", !.block = job.block + 1,
                            !.cur = 0, !.chain = FALSE, !.next = None]
      \/ n # None /\ job' = [job EXCEPT !.at = "erase", !.cur = n, !.next = None]
  BY <1>3 DEF FixMagic
<1>6. job'.op = "fix" /\ (job'.at = "visit" \/ (n # None /\ job'.cur = n))
  BY <1>2, <1>5 DEF FixJobs
<1>7. ASSUME n # None PROVE ~Has(flash', n, "HEAD")
  <2>1. /\ n # c /\ n \in Chunks
        /\ (n \in L /\ flash[n].type = "BODY") \/ map[n].magic # "ok"
    BY <1>2, <1>3, <1>7 DEF FixAt, Links
  <2>2. map[n].magic # "ok" => flash[n].magic # "ok"
    BY <1>2, <1>3, <2>1 DEF FixMap
  <2>3. ~Has(flash, n, "HEAD")
    BY <2>1, <2>2 DEF Has
  <2> QED BY <1>4, <2>1, <2>3 DEF HeadsKept
<1>8. FixBad'
  BY <1>6, <1>7 DEF FixBad, At
<1> QED BY <1>4, <1>6, <1>8, EndQuiet

\* The power may go at any time, within an erase too.
LEMMA PowerLossDone ==
  ASSUME RInv, IInv', PowerLoss
  PROVE  Done
<1>1. job'.op = "off" /\ Task' = [op |-> "none"] /\ FixBad'
  <2>1. job'.op = "off"
    BY DEF PowerLoss, Off
  <2> QED BY <2>1, TaskNext DEF FixBad, At
<1>2. CASE flash' = flash
  BY <1>1, <1>2, EndStill
<1>3. CASE /\ BeingErased # {}
           /\ flash' = [c \in Chunks |-> IF c \in BeingErased THEN Torn ELSE flash[c]]
  <2>1. CASE At("remove", "erase")
    <3>1. BeingErased = {job.cur}
      BY <2>1 DEF BeingErased, At
    <3>2. FStep /\ NamesOnce(flash')
      BY <1>1, <1>3, <2>1, <3>1, RemoveLost
    <3> QED BY <1>1, <3>2, ExtraPlain DEF Done
  <2>2. CASE At("fix", "erase")
    <3>1. BeingErased = {job.cur}
      BY <2>2 DEF BeingErased, At
    <3>2. Quiet /\ HeadsKept
      BY <1>3, <2>2, <3>1, FixLost
    <3> QED BY <1>1, <3>2, EndQuiet
  <2>3. CASE At("format", "erase")
    <3>1. PICK E : flash' = [c \in Chunks |-> IF c \in E THEN Torn ELSE flash[c]]
      BY <1>3
    <3>2. FStep /\ NamesOnce(flash')
      BY <1>1, <2>3, <3>1, FormatBlanks DEF At
    <3> QED BY <1>1, <3>2, ExtraPlain DEF Done
  <2>4. CASE job.op = "retest"
    <3>1. job.todo # {} /\ BeingErased = {First(job.todo)}
      BY <1>3, <2>4 DEF BeingErased, At
    <3>2. Quiet /\ HeadsKept
      BY <1>3, <2>4, <3>1, RetestLost
    <3> QED BY <1>1, <3>2, EndQuiet
  <2>5. CASE ~(At("remove", "erase") \/ At("fix", "erase")) /\ job.op # "retest"
             /\ ~At("format", "erase")
    BY <1>3, <2>5 DEF BeingErased
  <2> QED BY <2>1, <2>2, <2>3, <2>4, <2>5
<1> QED BY <1>2, <1>3 DEF PowerLoss

\* Nothing changes.
LEMMA StillDone ==
  ASSUME RInv, UNCHANGED vars
  PROVE  Done
<1>1. PICK L \in SUBSET Chunks : Sound(L)
  BY DEF RInv, IInv
<1>2. flash' = flash /\ map' = map /\ job' = job
  BY DEF vars
<1>3. FlashTypes /\ FlashTypes'
  BY <1>1, <1>2, InvGives DEF FlashTypes
<1>4. AllFiles' = AllFiles
  BY <1>2, <1>3, StillQuiet, QuietSame
<1>5. Task' = Task
  BY <1>2 DEF Task
<1>6. FixBad'
  BY <1>2 DEF RInv, Extra, FixBad, BadHead, Good, Linked, Closed, LinksToBody, Is, At
<1>7. PutRow'
  BY <1>2 DEF RInv, Extra, PutRow, LastLinked
<1>8. NamesOnce(flash') /\ PutHead' /\ RemoveHead'
  BY <1>2 DEF RInv, Extra, PutHead, RemoveHead, At
<1> QED BY <1>4, <1>5, <1>6, <1>7, <1>8, StepNone DEF Done, Extra

\* Every step of the flash is one of the store, or none.
LEMMA StoreStep == RInv /\ IInv' /\ [Next]_vars => Done
<1> SUFFICES ASSUME RInv, IInv', [Next]_vars PROVE Done
  OBVIOUS
<1>1. CASE Copy
  <2>1. ASSUME NEW n \in Names, NEW z \in Sizes, CopyBegin(n, z) PROVE Done
    BY <2>1, CopyBeginDone
  <2>2. CASE PutTake
    BY <2>2, PutTakeDone
  <2>3. CASE PutHdr
    BY <2>3, PutHdrDone
  <2>4. CASE PutName
    BY <2>4, PutNameDone
  <2>5. CASE PutData
    BY <2>5, PutDataDone
  <2>6. CASE PutGrow
    BY <2>6, PutGrowDone
  <2>7. CASE PutLink
    BY <2>7, PutLinkDone
  <2>8. CASE SdError
    BY <2>8, SdErrorDone
  <2>9. CASE PutEnd
    BY <2>9, PutEndDone
  <2>10. CASE PutFail
    BY <2>10, PutFailDone
  <2> QED BY <1>1, <2>1, <2>2, <2>3, <2>4, <2>5, <2>6, <2>7, <2>8, <2>9, <2>10 DEF Copy
<1>2. CASE Delete
  BY <1>2, RemoveBeginDone, RemoveEraseDone, RemoveMagicDone DEF Delete
<1>3. CASE Format
  <2>1. CASE FormatEnd
    BY <2>1, MountDone DEF FormatEnd
  <2> QED BY <1>3, <2>1, FormatBeginDone, FormatProbeDone, FormatEraseDone, FormatMagicDone
          DEF Format
<1>4. CASE Check
  <2>1. CASE FixEnd
    BY <2>1, MountDone DEF FixEnd
  <2>2. CASE RetestEnd
    BY <2>2, MountDone DEF RetestEnd
  <2>3. CASE FixBegin \/ FixVisit \/ FixErase \/ FixMagic
    BY <2>3, FixBeginDone, FixVisitDone, FixEraseDone, FixMagicDone
  <2>4. CASE RetestBegin \/ RetestErase \/ RetestMagic
    BY <2>4, RetestBeginDone, RetestEraseDone, RetestMagicDone
  <2> QED BY <1>4, <2>1, <2>2, <2>3, <2>4 DEF Check
<1>5. CASE PowerOn \/ Cancel
  BY <1>5, MountDone DEF PowerOn, Cancel
<1>6. CASE PowerLoss
  BY <1>6, PowerLossDone
<1>7. CASE UNCHANGED vars
  BY <1>7, StillDone
<1> QED BY <1>1, <1>2, <1>3, <1>4, <1>5, <1>6, <1>7 DEF Next

\* A formatted flash has no files.
LEMMA StoreInit == Init => Extra /\ Store!FInit
<1> SUFFICES ASSUME Init PROVE Extra /\ Store!FInit
  OBVIOUS
<1>1. job.op = "off" /\ \A c \in Chunks : flash[c].type = "FREE"
  <2>1. \A c \in Chunks : flash[c] = Fresh
    BY DEF Init, Fresh
  <2> QED BY <2>1, BlankChunks DEF Init, Off
<1>2. Extra
  BY <1>1 DEF Extra, NamesOnce, PutHead, PutRow, RemoveHead, FixBad, At, Has
<1>3. WholeFiles = {}
  BY <1>1 DEF WholeFiles, Whole
<1>4. Task = [op |-> "none"]
  BY <1>1, TaskIs
<1> QED BY <1>2, <1>3, <1>4 DEF Store!FInit, Store!NoTask

\* Whatever is copied, deleted, formatted, repaired and retested, and whenever the
\* power goes, the files tsf_read_int can read to their end change as a store of
\* whole files does (FileStore): a file is there with all its data when
\* tsf_close_int has ended its copy, another only goes when it is deleted or the
\* flash formatted; as long as, after a format was cut short, no file is copied or
\* deleted and no block retested before a repair.
THEOREM FilesAreAStore == ASSUME WorkAfterCut = FALSE PROVE Spec => ImplementsFileStore
<1>1. Init => RInv /\ Store!FInit
  BY InitStep, StoreInit DEF RInv
<1>2. RInv /\ [Next]_vars => RInv' /\ [Store!FNext]_(Store!fvars)
  BY InvStep, StoreStep DEF RInv, Done, FStep
<1> QED BY <1>1, <1>2, PTL DEF Spec, ImplementsFileStore, Store!FSpec

=============================================================================
