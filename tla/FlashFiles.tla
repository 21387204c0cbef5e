----------------------------- MODULE FlashFiles -----------------------------
(***************************************************************************)
(* The file system on the serial flash (tsspiffs.c) as the set-up program  *)
(* uses it (setup.c): copy a file to flash, delete, format, repair and     *)
(* retest.  One step writes or erases the flash once; power may be lost    *)
(* before and after each step, and within an erase.  The flash has at most *)
(* 16 MB, which is what its three address bytes reach.                     *)
(***************************************************************************)
EXTENDS Integers, Sequences, FiniteSets

CONSTANTS
  N,                \* chunks (blocks of the flash)
  Names, Sizes,     \* files that may be copied, sizes in units of data
  HeadRoom,         \* units that fit in the first chunk of a file
  BodyRoom,         \* units that fit in another chunk
  EraseSteps,       \* chunks one erase of the format takes: 1, a group, N
  WorkAfterCut      \* files are worked with although a format was cut short

ASSUME SizesAssumption ==
  /\ N \in Nat \ {0} /\ HeadRoom \in Nat \ {0} /\ BodyRoom \in Nat \ {0}
  /\ Sizes \subseteq Nat /\ EraseSteps \subseteq 1..N
  /\ WorkAfterCut \in BOOLEAN

VARIABLES
  flash,   \* the chunks
  map,     \* setup_tsf_map: a copy of the chunks' headers, in RAM
  vol,     \* setup_tsf_vol and last_written_chunk
  job,     \* the operation, and where it is
  cut      \* a format has erased a part and was not finished nor repaired since

vars == <<flash, map, vol, job, cut>>

Chunks == 0 .. N - 1
None == -1                              \* 0xFFFF in next_chunk, 0xFFFFFFFF in size

\* Names a head may show: nothing written, or the length but not the name.
NoHdr == "nohdr"
NoName == "noname"

\* What was not written reads as bytes 0xFF; no file on the card is called that.
ASSUME NamesAssumption == NoHdr \notin Names /\ NoName \notin Names

\* A magic number is right, erased, or something else.
Erased == [magic |-> "erased", next |-> None, type |-> "FREE", size |-> None,
           name |-> NoHdr, data |-> <<>>]
Torn == [Erased EXCEPT !.magic = "junk"]

Header(k) == [magic |-> k.magic, next |-> k.next, type |-> k.type]

\* Headers are read from the map, by setup_tsf_hal_read.
Is(c, type) == map[c].magic = "ok" /\ map[c].type = type

-----------------------------------------------------------------------------
(* Flash operations and their effect on the map. *)

Write(c, field, v) ==
  /\ flash' = [flash EXCEPT ![c][field] = v]
  /\ map' = IF field \in {"magic", "next", "type"}
            THEN [map EXCEPT ![c][field] = v] ELSE map

\* Bits are only cleared, so a wrong magic number stays wrong.
WriteMagic(c) ==
  /\ flash' = [flash EXCEPT ![c].magic = IF @ = "erased" THEN "ok" ELSE @]
  /\ map' = [map EXCEPT ![c].magic = "ok"]

\* setup_tsf_hal_erase; format and repair have erases that leave the map.
Erase(cs) == flash' = [c \in Chunks |-> IF c \in cs THEN Erased ELSE flash[c]]

\* Mutant: the map keeps the header of an erased block.
EraseUnmapped(c) == Erase({c}) /\ map' = map

EraseMapped(c) ==
  /\ Erase({c})
  /\ map' = [map EXCEPT ![c] = Header(Erased)]

-----------------------------------------------------------------------------
(* The volume. *)

Idle == [op |-> "idle"]
Off == [op |-> "off"]

\* The user may work with files.
Ready == job = Idle /\ (cut => WorkAfterCut)

Count(f, type) == Cardinality({c \in Chunks : f[c].magic = "ok" /\ f[c].type = type})

NoVol == [free |-> 0, files |-> 0, last |-> 0]
NoMap == [c \in Chunks |-> Header(Erased)]

\* setup_tsf_mount_volume on what is in flash after the step.
Mounted ==
  /\ vol' = [free |-> Count(flash', "FREE"), files |-> Count(flash', "HEAD"), last |-> 0]
  /\ map' = [c \in Chunks |-> Header(flash'[c])]
  /\ job' = Idle

Init ==
  /\ flash = [c \in Chunks |-> [Erased EXCEPT !.magic = "ok"]]
  /\ map = NoMap /\ vol = NoVol /\ job = Off /\ cut = FALSE

PowerOn == job = Off /\ UNCHANGED <<flash, cut>> /\ Mounted

Heads == {c \in Chunks : Is(c, "HEAD")}

\* The directory of the panel shows the first files_number heads.
Listed == {c \in Heads : Cardinality({d \in Heads : d < c}) < vol.files}

\* The chunk tsf_search finds.
Search(n) == CHOOSE c \in Heads : /\ flash[c].name = n
                                  /\ \A d \in Heads : flash[d].name = n => c <= d

\* tsf_take_new_chunk: from the chunk written last, round the flash.
Ring(k) == (vol.last + k) % N
FreeAt == {k \in Chunks : Is(Ring(k), "FREE")}
CanTake == vol.free # 0 /\ FreeAt # {}
NextFree == Ring(CHOOSE k \in FreeAt : \A m \in FreeAt : k <= m)

Take(c, type) ==
  /\ Write(c, "type", type)
  /\ vol' = [vol EXCEPT !.free = @ - 1, !.last = c]

-----------------------------------------------------------------------------
(* Copy a file from the SD card. *)

\* setup_tsf_required_space, in chunks.
Required(s) ==
  IF s <= HeadRoom THEN 1 ELSE 1 + (s - HeadRoom + BodyRoom - 1) \div BodyRoom

CopyBegin(n, s) ==
  /\ Ready
  /\ \A c \in Listed : flash[c].name # n
  /\ Required(s) <= vol.free
  /\ job' = [op |-> "put", at |-> "take", name |-> n, size |-> s, done |-> 0,
             head |-> 0, cur |-> 0, prev |-> 0, room |-> 0]
  /\ UNCHANGED <<flash, map, vol, cut>>

At(op, at) == job.op = op /\ job.at = at

PutTake ==
  /\ At("put", "take") /\ UNCHANGED cut
  /\ \/ /\ CanTake
        /\ Take(NextFree, "HEAD")
        /\ job' = [job EXCEPT !.at = "hdr", !.head = NextFree, !.cur = NextFree,
                              !.prev = NextFree, !.room = HeadRoom]
     \/ ~CanTake /\ job' = Idle /\ UNCHANGED <<flash, map, vol>>

PutHdr ==
  /\ At("put", "hdr")
  /\ Write(job.head, "name", NoName)
  /\ job' = [job EXCEPT !.at = "name"]
  /\ UNCHANGED <<vol, cut>>

PutName ==
  /\ At("put", "name")
  /\ Write(job.head, "name", job.name)
  /\ job' = [job EXCEPT !.at = "data"]
  /\ UNCHANGED <<vol, cut>>

PutData ==
  /\ At("put", "data") /\ job.done < job.size /\ job.room > 0
  /\ Write(job.cur, "data", Append(flash[job.cur].data, <<job.name, job.done + 1>>))
  /\ job' = [job EXCEPT !.done = @ + 1, !.room = @ - 1,
                        !.prev = IF job.room = 1 THEN job.cur ELSE @]
  /\ UNCHANGED <<vol, cut>>

PutGrow ==
  /\ At("put", "data") /\ job.done < job.size /\ job.room = 0
  /\ UNCHANGED cut
  /\ \/ /\ CanTake
        /\ Take(NextFree, "BODY")
        /\ job' = [job EXCEPT !.at = "link", !.cur = NextFree, !.room = BodyRoom]
     \/ ~CanTake /\ job' = [job EXCEPT !.at = "fail"] /\ UNCHANGED <<flash, map, vol>>

PutLink ==
  /\ At("put", "link")
  /\ Write(job.prev, "next", vol.last)
  /\ job' = [job EXCEPT !.at = "data"]
  /\ UNCHANGED <<vol, cut>>

SdError ==
  /\ At("put", "data")
  /\ job' = [job EXCEPT !.at = "fail"]
  /\ UNCHANGED <<flash, map, vol, cut>>

Close ==
  /\ Write(job.head, "size", job.done)
  /\ vol' = [vol EXCEPT !.files = @ + 1]
  /\ UNCHANGED cut

PutEnd == At("put", "data") /\ job.done = job.size /\ Close /\ job' = Idle

RemoveJob(n) == [op |-> "remove", at |-> "erase", name |-> n, cur |-> Search(n), next |-> None]

\* What was copied is closed, then deleted by its name.
PutFail == At("put", "fail") /\ Close /\ job' = RemoveJob(job.name)

-----------------------------------------------------------------------------
(* Delete a file: each chunk is erased and gets its magic number, once its *)
(* link has been read.                                                     *)

\* A head without header has a name no search can find.
RemoveBegin ==
  /\ Ready
  /\ \E c \in Listed : flash[c].name # NoHdr /\ job' = RemoveJob(flash[c].name)
  /\ UNCHANGED <<flash, map, vol, cut>>

RemoveErase ==
  /\ At("remove", "erase")
  /\ EraseMapped(job.cur)
  /\ job' = [job EXCEPT !.at = "magic", !.next = flash[job.cur].next]
  /\ UNCHANGED <<vol, cut>>

RemoveMagic ==
  LET last == job.next = None
  IN /\ At("remove", "magic")
     /\ WriteMagic(job.cur)
     /\ vol' = [vol EXCEPT !.free = @ + 1,
                           !.files = IF last /\ @ > 0 THEN @ - 1 ELSE @]
     /\ job' = IF last THEN Idle
               ELSE [job EXCEPT !.at = "erase", !.cur = job.next, !.next = None]
     /\ UNCHANGED cut

-----------------------------------------------------------------------------
(* Format. *)

\* A chip erase needs no probe; single blocks are erased at once, or when the
\* chip turned out to erase no groups.
FormatBegin ==
  /\ job = Idle
  /\ \E s \in EraseSteps, at \in {"erase", "probe"} :
       /\ at = "probe" => s < N
       /\ at = "erase" => s \in {1, N}
       /\ job' = [op |-> "format", step |-> s, block |-> 0, at |-> at]
  /\ vol' = [vol EXCEPT !.last = 0]
  /\ UNCHANGED <<flash, map, cut>>

\* Whether the chip erases groups is tried on the first: a byte is written,
\* over the magic number of chunk 0, and must be gone after the erase.
FormatProbe ==
  /\ At("format", "probe")
  /\ Write(0, "magic", "junk")
  /\ job' = [job EXCEPT !.at = "erase"]
  /\ cut' = TRUE
  /\ UNCHANGED vol

FormatErase ==
  LET next == job.block + job.step
  IN /\ At("format", "erase")
     /\ Erase(job.block .. next - 1)
     /\ job' = IF next < N THEN [job EXCEPT !.block = next]
               ELSE [job EXCEPT !.at = "magic", !.block = 0]
     /\ cut' = (next < N)
     /\ UNCHANGED <<map, vol>>

FormatMagic ==
  /\ At("format", "magic") /\ job.block < N
  /\ WriteMagic(job.block)
  /\ job' = [job EXCEPT !.block = @ + 1]
  /\ UNCHANGED <<vol, cut>>

FormatEnd ==
  /\ At("format", "magic") /\ job.block = N
  /\ UNCHANGED <<flash, cut>> /\ Mounted

-----------------------------------------------------------------------------
(* Check the file system: repair ("scan and fix"), or give blocks that have *)
(* no magic number another try ("retest").  Both see headers through the   *)
(* map, which their own erases do not change.                              *)

\* The chunks behind head h, as far as each is a body: what every set contains
\* that a step along a link to a body does not leave.
LinksToBody(c) == map[c].next # None /\ Is(map[c].next, "BODY")
Closed(cs, h) == \A c \in {h} \cup cs : LinksToBody(c) => map[c].next \in cs
Linked(h) == {c \in Chunks : \A cs \in SUBSET Chunks : Closed(cs, h) => c \in cs}

\* setup_tsf_check_head_file: neither broken nor of a wrong size.
Good(h) ==
  /\ \A c \in {h} \cup Linked(h) : map[c].next # None => Is(map[c].next, "BODY")
  /\ flash[h].name # NoHdr
  /\ flash[h].size \in 0 .. HeadRoom + BodyRoom * Cardinality(Linked(h))

\* Mutant: the scan follows a chain no further than its first link.
ReferencesOfHeads == {c \in Chunks : Is(c, "BODY") /\ \E h \in Heads : map[h].next = c}

\* What the scan marks in its bit map.
References == UNION {Linked(h) : h \in Heads}

IsLost(b) == Is(b, "BODY") /\ b \notin job.refs

FixBegin ==
  /\ job = Idle
  /\ job' = [op |-> "fix", at |-> "visit", refs |-> References, block |-> 0,
             cur |-> 0, chain |-> FALSE, next |-> None]
  /\ vol' = [vol EXCEPT !.last = 0]
  /\ UNCHANGED <<flash, map, cut>>

First(cs) == CHOOSE c \in cs : \A d \in cs : c <= d

\* The blocks from the current one on that need repair.
BadHead(b) == Is(b, "HEAD") /\ ~Good(b)
Faults == {b \in job.block .. N - 1 : BadHead(b) \/ IsLost(b)}

FixVisit ==
  LET b == First(Faults)
  IN /\ At("fix", "visit") /\ Faults # {}
     /\ job' = [job EXCEPT !.at = "erase", !.block = b, !.cur = b, !.chain = BadHead(b)]
     /\ UNCHANGED <<flash, map, vol, cut>>

FixErase ==
  LET h == map[job.cur]
  IN /\ At("fix", "erase")
     /\ Erase({job.cur})
     /\ job' = [job EXCEPT !.at = "magic",
                           !.next = IF job.chain /\ h.magic = "ok" THEN h.next ELSE None]
     /\ UNCHANGED <<map, vol, cut>>

\* Mutant: only the head of a bad file is given back.
FixMagicHead ==
  /\ At("fix", "magic")
  /\ WriteMagic(job.cur)
  /\ job' = [job EXCEPT !.at = "visit", !.block = @ + 1,
                        !.cur = 0, !.chain = FALSE, !.next = None]
  /\ UNCHANGED <<vol, cut>>

\* The repair of a file stops where its chain meets what is no body.
FixMagic ==
  LET n == job.next
      more == IF n = None THEN FALSE ELSE map[n].magic = "ok" => map[n].type = "BODY"
  IN /\ At("fix", "magic")
     /\ WriteMagic(job.cur)
     /\ job' = IF more THEN [job EXCEPT !.at = "erase", !.cur = n, !.next = None]
               ELSE [job EXCEPT !.at = "visit", !.block = @ + 1,
                                !.cur = 0, !.chain = FALSE, !.next = None]
     /\ UNCHANGED <<vol, cut>>

FixEnd ==
  /\ At("fix", "visit") /\ Faults = {}
  /\ UNCHANGED flash /\ Mounted
  /\ cut' = FALSE

Invalid == {c \in Chunks : map[c].magic # "ok"}
\* Invalid blocks that are blank need no erase.
RetestBegin ==
  /\ Ready /\ Invalid # {}
  /\ job' = [op |-> "retest", todo |-> {c \in Invalid : flash[c] # Erased}]
  /\ vol' = [vol EXCEPT !.last = 0]
  /\ UNCHANGED <<flash, map, cut>>

RetestErase ==
  /\ job.op = "retest" /\ job.todo # {}
  /\ Erase({First(job.todo)})
  /\ job' = [job EXCEPT !.todo = @ \ {First(@)}]
  /\ UNCHANGED <<map, vol, cut>>

RetestMagic ==
  /\ job.op = "retest" /\ job.todo = {} /\ Invalid # {}
  /\ WriteMagic(First(Invalid))
  /\ UNCHANGED <<vol, job, cut>>

RetestEnd ==
  /\ job.op = "retest" /\ Invalid = {}
  /\ UNCHANGED <<flash, cut>> /\ Mounted

\* Esc ends a format or a check; then the volume is mounted anew.
Cancel ==
  /\ job.op \in {"format", "fix", "retest"}
  /\ UNCHANGED <<flash, cut>> /\ Mounted

-----------------------------------------------------------------------------
(* Power. *)

\* What an erase under way may leave without its magic number.
BeingErased ==
  CASE At("remove", "erase") \/ At("fix", "erase") -> {job.cur}
    [] At("format", "erase") -> (job.block .. job.block + job.step - 1) \cap Chunks
    [] job.op = "retest" -> IF job.todo = {} THEN {} ELSE {First(job.todo)}
    [] OTHER -> {}

PowerLoss ==
  /\ job # Off
  /\ \/ UNCHANGED <<flash, cut>>
     \/ /\ BeingErased # {}
        /\ flash' = [c \in Chunks |-> IF c \in BeingErased THEN Torn ELSE flash[c]]
        /\ cut' = (cut \/ job.op = "format")
  /\ job' = Off /\ vol' = NoVol /\ map' = NoMap

Copy ==
  \/ \E n \in Names, s \in Sizes : CopyBegin(n, s)
  \/ PutTake \/ PutHdr \/ PutName \/ PutData \/ PutGrow \/ PutLink
  \/ SdError \/ PutEnd \/ PutFail

Delete == RemoveBegin \/ RemoveErase \/ RemoveMagic

Format == FormatBegin \/ FormatProbe \/ FormatErase \/ FormatMagic \/ FormatEnd

Check ==
  \/ FixBegin \/ FixVisit \/ FixErase \/ FixMagic \/ FixEnd
  \/ RetestBegin \/ RetestErase \/ RetestMagic \/ RetestEnd

Next == PowerOn \/ Copy \/ Delete \/ Format \/ Check \/ Cancel \/ PowerLoss

Spec == Init /\ [][Next]_vars

-----------------------------------------------------------------------------
(* Properties. *)

HeaderType == [magic : {"ok", "erased", "junk"}, next : Chunks \cup {None},
               type : {"FREE", "HEAD", "BODY"}]

Units == Names \X (Nat \ {0})

\* Every chunk is a header, a name, a size and not more data than it has room
\* for; the map holds headers, the free count never leaves its range.
TypeOK ==
  /\ cut \in BOOLEAN
  /\ \A c \in Chunks :
       /\ Header(flash[c]) \in HeaderType
       /\ flash[c].size \in Nat \cup {None}
       /\ flash[c].name \in Names \cup {NoHdr, NoName}
       /\ flash[c].data \in Seq(Units)
       /\ Len(flash[c].data) <= IF flash[c].type = "HEAD" THEN HeadRoom ELSE BodyRoom
  /\ map \in [Chunks -> HeaderType]
  /\ vol \in [free : 0..N, files : 0..N, last : Chunks]
  /\ job.op \in {"off", "idle", "put", "remove", "format", "fix", "retest"}

\* While files are worked with, the map says what the headers in flash say and
\* the free count what is free; the number of files counts the heads, so the
\* directory shows every one.  Formats and repairs bypass the map and end with
\* a mount.
CachesTrue ==
  /\ job.op \in {"idle", "put", "remove"} =>
       /\ \A c \in Chunks : map[c] = Header(flash[c])
       /\ vol.free = Count(flash, "FREE")
  /\ job = Idle => vol.files = Count(flash, "HEAD")

\* A copy that was found to have room never meets a full flash: the estimate
\* of the set-up program and the chunks the file system takes agree.
SpaceSuffices ==
  /\ At("put", "take") => CanTake
  /\ At("put", "data") /\ job.done < job.size /\ job.room = 0 => CanTake

\* The types, the caches and the space.
Inv == TypeOK /\ CachesTrue /\ SpaceSuffices

\* The chunks of a file by their links.
Chain(h) ==
  LET at[k \in 0..N] == IF k = 0 THEN h
                        ELSE IF at[k - 1] = None THEN None ELSE flash[at[k - 1]].next
      len == Cardinality({k \in 0..N : at[k] # None})
  IN [k \in 1..len |-> at[k - 1]]

\* tsf_read_int: unit i of the file with the given chunks.
Unit(chain, i) ==
  LET j == i - HeadRoom - 1
  IN IF i <= HeadRoom THEN flash[chain[1]].data[i]
     ELSE flash[chain[2 + (j \div BodyRoom)]].data[1 + (j % BodyRoom)]

Room(chain) ==
  LET used[k \in 0..Len(chain)] == IF k = 0 THEN 0 ELSE used[k - 1] + Len(flash[chain[k]].data)
  IN used[Len(chain)]

\* The chunk is the head of a closed file that can be read to its end.
Whole(h) ==
  /\ flash[h].magic = "ok" /\ flash[h].type = "HEAD" /\ flash[h].size # None
  /\ LET chain == Chain(h)
     IN /\ Len(chain) <= N
        /\ \A k \in 2..Len(chain) :
             flash[chain[k]].magic = "ok" /\ flash[chain[k]].type = "BODY"
        /\ flash[h].size <= Room(chain)

WholeFiles == {h \in Chunks : Whole(h)}

OwnedChunks == UNION {{Chain(h)[k] : k \in 1..Len(Chain(h))} : h \in WholeFiles}

\* When a repair has gone through all blocks, each block with a magic number is
\* free or belongs to a file that can be read: what was lost by power failures,
\* failed deletes and cut formats is found, although the repair sees headers of
\* blocks it has erased as they were before.
FixReclaims ==
  At("fix", "visit") /\ Faults = {} =>
    \A c \in Chunks : flash[c].magic = "ok" => flash[c].type = "FREE" \/ c \in OwnedChunks

FileAt(h) == [name |-> flash[h].name, data |-> [i \in 1..flash[h].size |-> Unit(Chain(h), i)]]

Task ==
  CASE job.op = "put" -> [op |-> "put", name |-> job.name, size |-> job.size]
    [] job.op = "remove" -> [op |-> "remove", name |-> job.name]
    [] job.op = "format" -> [op |-> "format"]
    [] OTHER -> [op |-> "none"]

Store == INSTANCE FileStore
  WITH Names <- Names \cup {NoName}, files <- {FileAt(h) : h \in WholeFiles}, task <- Task

\* The files that can be read are a store of whole files: each appears with all
\* its data when its copy ends, and neither power losses nor repairs, retests or
\* work on other files change or lose it.
ImplementsFileStore == Store!FSpec

=============================================================================
