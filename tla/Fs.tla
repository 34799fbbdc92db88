--------------------------------- MODULE Fs ---------------------------------
(***************************************************************************)
(* src/Robot/storage/fs/fs.c: named files on raw flash, a directory that   *)
(* alternates between two sectors and an append-only data log.             *)
(*                                                                         *)
(* A cell stands for the bytes one write call puts out (a chunk of text,   *)
(* or a line ending). Each step is one call of the board's flash driver    *)
(* with the RAM updates that go with it; between any two of them, and      *)
(* inside a write, the power can fail, and each call can return false.     *)
(***************************************************************************)
EXTENDS Integers, Sequences, FiniteSets, SequencesExt, FiniteSetsExt, TLC

CONSTANTS
  Names, Texts, EOL, ERASED,
  Truncated,     \* what a name becomes when it is stored in FS_NAME_MAX bytes
  SECTOR,        \* cells in a sector
  SECTORS,       \* data sectors
  FS_BUF,        \* cells g_buf holds; no less than a sector (fs_bind_hw)
  FS_MAX_FILES,
  MaxGeneration, \* bound on the directory's generations
  MaxFaults,     \* bound on what goes wrong in a behaviour
  Faults         \* what can happen: "crash", "read", "write", "erase"

ASSUME GeometryAssumption ==
  /\ SECTOR \in Nat \ {0} /\ SECTORS \in Nat \ {0}
  /\ FS_BUF \in Nat /\ SECTOR <= FS_BUF
  /\ FS_MAX_FILES \in Nat \ {0} /\ MaxGeneration \in Nat /\ MaxFaults \in Nat
ASSUME TextsAssumption == \A t \in Texts : t \in Seq(ToSet(t))
ASSUME NamesAssumption ==
  /\ Truncated \in [Names -> Names]
  /\ \A n \in Names : Truncated[Truncated[n]] = Truncated[n]
ASSUME FaultsAssumption == Faults \subseteq {"crash", "read", "write", "erase"}

DATA    == SECTORS * SECTOR                     \* data_region_size()
Offsets == 0 .. DATA - 1
Cells(s) == s * SECTOR .. s * SECTOR + SECTOR - 1

VARIABLES
  data, dir,                                    \* the flash
  entries, dir_sector, generation, write_ptr,   \* the RAM of fs.c
  pc,            \* the flash call about to be made
  job,           \* the append under way: its name and what is left to write
  at, done,      \* where its next cell goes, and the old cells copied
  compacting,    \* inside compact(); after a power loss, whether it was
  sector, g_buf, \* its destination sector, and the cells staged for it
  shown,         \* history: the files a caller could read when last at rest,
  goal,          \*   and what the operation under way is to make of them
  clash,         \* history: a cell was programmed that was not erased
  faults         \* how often something went wrong

flash  == <<data, dir>>
ram    == <<entries, dir_sector, generation, write_ptr>>
append == <<job, at, done>>
pack   == <<compacting, sector, g_buf>>
seen   == <<shown, goal>>
vars   == <<flash, ram, pc, append, pack, seen, clash, faults>>

ErasedDir == [valid |-> FALSE, gen |-> 0, count |-> 0, ents |-> <<>>]
NoJob     == [name |-> "", todo |-> <<>>]

(***************************************************************************)
(* Reading.                                                                *)
(***************************************************************************)
Indices(ents, n) == {i \in 1 .. Len(ents) : ents[i].name = n}

\* find(): the index of a name, 0 if there is none. A name too long to be
\* stored whole is compared whole.
find(n) == IF Indices(entries, n) = {} THEN 0 ELSE Min(Indices(entries, n))

Extent(e) == e.offset .. e.offset + e.length - 1
Content(d, e) == [i \in 1 .. e.length |-> d[e.offset + i - 1]]

\* The files a reader finds through directory ents on log d.
View(d, ents) ==
  [n \in {ents[i].name : i \in 1 .. Len(ents)} |->
     Content(d, ents[Min(Indices(ents, n))])]

dir_header(s) == dir[s].valid /\ dir[s].count <= FS_MAX_FILES

\* Mutant of Newest: the generation is not compared.
FirstValid(readable) == IF 0 \in readable /\ dir_header(0) THEN 0 ELSE 1

\* The directory sector a mount uses, of those whose header it can read.
Newest(readable) ==
  LET good == {s \in readable : dir_header(s)} IN
  IF 1 \in good /\ (0 \notin good \/ dir[1].gen > dir[0].gen) THEN 1 ELSE 0

EndOfFiles(ents) == Max({0} \cup {ents[i].offset + ents[i].length : i \in 1 .. Len(ents)})

\* scan_tail() from ptr, when every read succeeds.
Tail_(d, ptr) == Max({ptr} \cup {i + 1 : i \in {j \in Offsets : d[j] # ERASED}})

\* Mutant of ScanTail: the log ends where the files do.
NoScan(d, ptr) == {ptr}

\* Its possible results: it gives up where a read fails.
ScanTail(d, ptr) == {Tail_(d, ptr)} \cup IF "read" \in Faults THEN {ptr} ELSE {}

-----------------------------------------------------------------------------
\* A volume fs_bind_hw() has just formatted.
Formatted ==
  /\ data' = [o \in Offsets |-> ERASED]
  /\ dir' = [s \in 0 .. 1 |-> IF s = 0 THEN [ErasedDir EXCEPT !.valid = TRUE, !.gen = 1]
                                      ELSE ErasedDir]
  /\ entries' = <<>> /\ dir_sector' = 0 /\ generation' = 1 /\ write_ptr' = 0

Init ==
  /\ data = [o \in Offsets |-> ERASED]
  /\ dir = [s \in 0 .. 1 |-> ErasedDir]
  /\ entries = <<>> /\ dir_sector = 0 /\ generation = 0 /\ write_ptr = 0
  /\ pc = "off"
  /\ job = NoJob /\ at = 0 /\ done = 0
  /\ compacting = FALSE /\ sector = 0 /\ g_buf = <<>>
  /\ shown = <<>> /\ goal = <<>>
  /\ clash = FALSE
  /\ faults = 0

Fault == faults < MaxFaults /\ faults' = faults + 1

\* An operation returns to its caller.
Return ==
  /\ pc' = "idle"
  /\ job' = NoJob /\ at' = 0 /\ done' = 0
  /\ compacting' = FALSE /\ sector' = 0 /\ g_buf' = <<>>
  /\ shown' = View(data', entries') /\ goal' = shown'

Store == INSTANCE FileStore WITH files <- shown

(***************************************************************************)
(* fs_bind_hw(): mount the newest directory that can be read, or format.   *)
(***************************************************************************)
Unreadable == IF "read" \in Faults THEN SUBSET {0, 1} ELSE {{}}

mount(bad) ==
  LET s == Newest({0, 1} \ bad)
      e == SubSeq(dir[s].ents, 1, dir[s].count)
  IN
  /\ pc = "off"
  /\ \E t \in {0, 1} \ bad : dir_header(t)
  /\ entries' = e
  /\ dir_sector' = s /\ generation' = dir[s].gen
  /\ write_ptr' \in ScanTail(data, EndOfFiles(e))
  /\ IF bad # {} THEN Fault ELSE UNCHANGED faults
  /\ UNCHANGED <<flash, clash>>
  /\ Return

format(bad) ==
  /\ pc = "off"
  /\ \A t \in {0, 1} \ bad : ~dir_header(t)
  /\ Formatted
  /\ IF bad # {} THEN Fault ELSE UNCHANGED faults
  /\ UNCHANGED clash
  /\ Return

(***************************************************************************)
(* The operations, up to the first flash call they make.                   *)
(***************************************************************************)
AtRest == pc = "idle" /\ generation < MaxGeneration

Persist ==
  /\ pc' = "dir_erase"
  /\ goal' = View(data, entries')
  /\ UNCHANGED <<flash, append, pack, shown, clash, faults>>

fs_remove(n) ==
  /\ AtRest /\ find(n) # 0
  /\ entries' = RemoveAt(entries, find(n))
  /\ UNCHANGED <<dir_sector, generation, write_ptr>>
  /\ Persist

\* Mutant of Replaced: a file that has the new name already stays.
ReplacedNone(old, new) == 0

\* The file a rename removes to make way, 0 if there is none.
Replaced(old, new) == IF find(new) # find(old) THEN find(new) ELSE 0

fs_rename(old, new) ==
  LET i == find(old)
      j == Replaced(old, new)
      renamed == [entries EXCEPT ![i].name = Truncated[new]]
  IN
  /\ AtRest /\ i # 0
  /\ entries' = IF j # 0 THEN RemoveAt(renamed, j) ELSE renamed
  /\ UNCHANGED <<dir_sector, generation, write_ptr>>
  /\ Persist

HasRoom(ents) == Len(ents) < FS_MAX_FILES

fs_copy(src, dst) ==
  LET rest == IF find(dst) = 0 THEN entries ELSE RemoveAt(entries, find(dst)) IN
  /\ AtRest /\ find(src) # 0
  /\ HasRoom(rest)
  /\ entries' = Append(rest, [entries[find(src)] EXCEPT !.name = Truncated[dst]])
  /\ UNCHANGED <<dir_sector, generation, write_ptr>>
  /\ Persist

OldLen(n)  == IF find(n) = 0 THEN 0 ELSE entries[find(n)].length
\* Mutant of AtTail: any file that is not empty is grown where it is.
AtTailAlways(n) == OldLen(n) > 0

AtTail(n)  == OldLen(n) > 0 /\ entries[find(n)].offset + OldLen(n) = write_ptr
Need(n, line) == IF AtTail(n) THEN Len(line) ELSE OldLen(n) + Len(line)
Fits(n, line) == write_ptr + Need(n, line) <= DATA

\* fs_append_line, as far as its decision to compact.
fs_append_line(n, text) ==
  LET line == text \o <<EOL>> IN
  /\ AtRest
  /\ OldLen(n) + Len(line) <= DATA
  /\ find(n) = 0 => HasRoom(entries)
  /\ job' = [name |-> n, todo |-> line]
  /\ compacting' = ~Fits(n, line)
  /\ pc' = IF Fits(n, line) THEN "append" ELSE "compact"
  /\ goal' = Store!With(Truncated[n], Store!Contents(n) \o line)
  /\ UNCHANGED <<flash, ram, at, done, sector, g_buf, shown, clash, faults>>

(***************************************************************************)
(* compact(): the live regions in ascending order, packed from offset 0.   *)
(***************************************************************************)
\* The insertion sort by offset, the longer first of two with one start.
Before(e, f) == e.offset < f.offset \/ (e.offset = f.offset /\ e.length >= f.length)
Insert(s, e) ==
  LET k == Max({0} \cup {i \in DOMAIN s : Before(s[i], e)})
  IN  SubSeq(s, 1, k) \o <<e>> \o SubSeq(s, k + 1, Len(s))

Order(ents) ==
  LET sorted[k \in 0 .. Len(ents)] ==
        IF k = 0 THEN <<>> ELSE Insert(sorted[k - 1], ents[k])
  IN  sorted

RegionEnd(r) == r.dst + r.len
Packed(rs)   == IF rs = <<>> THEN 0 ELSE RegionEnd(Last(rs))
InRegion(e, r) == r.src <= e.offset /\ e.offset + e.length <= r.src + r.len

\* An entry inside the last region is part of it, any other begins a new one.
AddRegion(rs, e) ==
  IF rs # <<>> /\ InRegion(e, Last(rs)) THEN rs
  ELSE Append(rs, [src |-> e.offset, len |-> e.length, dst |-> Packed(rs)])

RegionsOf(es) ==
  LET regions[k \in 0 .. Len(es)] ==
        IF k = 0 THEN <<>> ELSE AddRegion(regions[k - 1], es[k])
  IN  regions

Regions ==
  LET n == Len(entries) IN RegionsOf(Order(entries)[n])[n]

Total == Packed(Regions)
NewOffset(e) ==
  LET r == Regions[Min({i \in DOMAIN Regions : InRegion(e, Regions[i])})]
  IN  r.dst + (e.offset - r.src)

DestSectors == (Total + SECTOR - 1) \div SECTOR
Sound == \A i \in DOMAIN Regions : Regions[i].dst <= Regions[i].src

\* The cell that packing brings to offset o.
Source(o) == LET r == CHOOSE r \in ToSet(Regions) : r.dst <= o /\ o < RegionEnd(r)
             IN  data[r.src + (o - r.dst)]
Staged(d) ==
  [i \in 1 .. Min({Total, (d + 1) * SECTOR}) - d * SECTOR |-> Source(d * SECTOR + i - 1)]

CompactStage ==
  /\ pc = "compact" /\ Sound /\ sector < DestSectors
  /\ g_buf' = Staged(sector)
  /\ pc' = "compact_erase"
  /\ UNCHANGED <<flash, ram, append, compacting, sector, seen, clash, faults>>

EraseSector(s) == data' = [o \in Offsets |-> IF o \in Cells(s) THEN ERASED ELSE data[o]]

CompactErase ==
  /\ pc = "compact_erase"
  /\ EraseSector(sector)
  /\ pc' = "compact_write"
  /\ UNCHANGED <<dir, ram, append, pack, seen, clash, faults>>

\* write(): the first k of the cells, programmed from offset o.
Program(o, cells, k) ==
  /\ data' = [c \in Offsets |-> IF c \in o .. o + k - 1 THEN cells[c - o + 1] ELSE data[c]]
  /\ clash' = (clash \/ \E c \in o .. o + k - 1 : data[c] # ERASED)

CompactWrite ==
  /\ pc = "compact_write"
  /\ Program(sector * SECTOR, g_buf, Len(g_buf))
  /\ sector' = sector + 1 /\ g_buf' = <<>>
  /\ pc' = "compact"
  /\ UNCHANGED <<dir, ram, append, compacting, seen, faults>>

CompactEraseRest ==
  /\ pc = "compact" /\ Sound /\ sector >= DestSectors /\ sector < SECTORS
  /\ EraseSector(sector)
  /\ sector' = sector + 1
  /\ UNCHANGED <<dir, ram, pc, append, compacting, g_buf, seen, clash, faults>>

\* Mutant of PackedTail: the tail stays where it was.
TailKept == write_ptr

PackedTail == Total

CompactDone ==
  /\ pc = "compact" /\ Sound /\ sector >= DestSectors /\ sector = SECTORS
  /\ entries' = [i \in DOMAIN entries |->
                   [entries[i] EXCEPT !.offset = NewOffset(entries[i])]]
  /\ write_ptr' = PackedTail
  /\ pc' = "dir_erase"
  /\ UNCHANGED <<flash, dir_sector, generation, append, pack, seen, clash, faults>>

(***************************************************************************)
(* fs_append_line, writing: the old contents unless they end the log, then *)
(* the new line, then the directory.                                       *)
(***************************************************************************)
AppendNoSpace ==
  /\ pc = "append" /\ ~Fits(job.name, job.todo)
  /\ UNCHANGED <<flash, ram, clash, faults>>
  /\ Return

AppendBegin ==
  LET n == job.name IN
  /\ pc = "append" /\ Fits(n, job.todo)
  /\ at' = write_ptr
  /\ done' = IF AtTail(n) THEN OldLen(n) ELSE 0
  /\ pc' = IF done' < OldLen(n) THEN "copy" ELSE "text"
  /\ UNCHANGED <<flash, ram, job, pack, seen, clash, faults>>

Chunk ==
  LET e == entries[find(job.name)]
  IN  SubSeq(Content(data, e), done + 1, Min({e.length, done + FS_BUF}))

AppendCopy ==
  /\ pc = "copy"
  /\ Program(at, Chunk, Len(Chunk))
  /\ at' = at + Len(Chunk) /\ done' = done + Len(Chunk)
  /\ pc' = IF done' < OldLen(job.name) THEN "copy" ELSE "text"
  /\ UNCHANGED <<dir, ram, job, pack, seen, faults>>

\* The entry of the file once its last cell is written. Where it begins follows
\* from where it ends.
Entry(n, end, len) == [name |-> Truncated[n], offset |-> end - len, length |-> len]

AppendText ==
  LET n   == job.name
      end == at + 1
      len == (end - write_ptr) + IF AtTail(n) THEN OldLen(n) ELSE 0
  IN
  /\ pc = "text"
  /\ Program(at, job.todo, 1)
  /\ at' = end
  /\ job' = [job EXCEPT !.todo = Tail(@)]
  /\ IF Len(job.todo) > 1
       THEN UNCHANGED <<ram, pc>>
       ELSE /\ write_ptr' = end
            /\ entries' = IF find(n) = 0
                            THEN Append(entries, Entry(n, end, len))
                            ELSE [entries EXCEPT ![find(n)].offset = end - len,
                                                 ![find(n)].length = len]
            /\ pc' = "dir_erase"
            /\ UNCHANGED <<dir_sector, generation>>
  /\ UNCHANGED <<dir, done, pack, seen, faults>>

(***************************************************************************)
(* dir_persist(): erase the other sector, entries, header.                 *)
(***************************************************************************)
\* Mutant of Target: the directory is rewritten in place.
TargetSame == dir_sector

Target == 1 - dir_sector

NextGeneration == generation + 1

DirErase ==
  /\ pc = "dir_erase"
  /\ dir' = [dir EXCEPT ![Target] = ErasedDir]
  /\ pc' = "dir_entries"
  /\ UNCHANGED <<data, ram, append, pack, seen, clash, faults>>

DirEntries ==
  /\ pc = "dir_entries"
  /\ dir' = [dir EXCEPT ![Target].ents = entries]
  /\ pc' = "dir_header"
  /\ UNCHANGED <<data, ram, append, pack, seen, clash, faults>>

DirHeader ==
  /\ pc = "dir_header"
  /\ dir' = [dir EXCEPT ![Target].valid = TRUE, ![Target].gen = NextGeneration,
                        ![Target].count = Len(entries)]
  /\ dir_sector' = Target /\ generation' = NextGeneration
  /\ UNCHANGED <<data, entries, write_ptr, clash, faults>>
  /\ IF compacting
       THEN /\ pc' = "append" /\ compacting' = FALSE
            /\ sector' = 0
            /\ UNCHANGED <<append, g_buf, seen>>
       ELSE Return

(***************************************************************************)
(* Failure of the flash call an operation is at: it returns false. A write *)
(* that fails may have programmed some of its cells.                       *)
(***************************************************************************)
Writing == CASE pc = "copy" -> Chunk
             [] pc = "text" -> <<Head(job.todo)>>
             [] pc = "compact_write" -> g_buf
             [] OTHER -> <<>>
WritingAt == IF pc = "compact_write" THEN sector * SECTOR ELSE at

\* A write that fails looks for the tail again, a read that fails does not.
AppendFails(k) ==
  /\ Program(WritingAt, Writing, k)
  /\ \/ "write" \in Faults /\ pc \in {"copy", "text"}
        /\ write_ptr' \in ScanTail(data', write_ptr)
     \/ "read" \in Faults /\ pc = "copy" /\ k = 0
        /\ UNCHANGED write_ptr
  /\ Fault
  /\ UNCHANGED <<dir, entries, dir_sector, generation>>
  /\ Return

\* compact() gives up: regions that do not all move down, or a failed call.
CompactFails(k) ==
  /\ \/ pc = "compact" /\ ~Sound
     \/ "read" \in Faults /\ pc = "compact" /\ Sound /\ sector < DestSectors
     \/ "write" \in Faults /\ pc = "compact_write"
     \/ "erase" \in Faults /\ pc = "compact_erase"
     \/ "erase" \in Faults /\ pc = "compact" /\ Sound /\ sector \in DestSectors .. SECTORS - 1
  /\ IF Sound THEN Fault ELSE UNCHANGED faults
  /\ Program(WritingAt, Writing, k)
  /\ UNCHANGED <<dir, ram>>
  /\ Return

PartialEntries == {SubSeq(entries, 1, k) : k \in 0 .. Len(entries)}

\* Entries or header not written whole leave no valid header behind.
DirFails(ents) ==
  /\ \/ "erase" \in Faults /\ pc = "dir_erase" /\ ents = dir[Target].ents
     \/ "write" \in Faults /\ pc = "dir_entries" /\ entries # <<>> /\ ents \in PartialEntries
     \/ "write" \in Faults /\ pc = "dir_header" /\ ents = dir[Target].ents
  /\ Fault
  /\ dir' = [dir EXCEPT ![Target].ents = ents]
  /\ UNCHANGED <<data, ram, clash>>
  /\ Return

(***************************************************************************)
(* Power loss, between two flash calls or with some of a write's cells     *)
(* programmed.                                                             *)
(***************************************************************************)
PowerLoss(k, ents) ==
  /\ "crash" \in Faults /\ pc # "off" /\ Fault
  /\ Program(WritingAt, Writing, k)
  /\ IF pc = "dir_entries" THEN dir' = [dir EXCEPT ![Target].ents = ents]
                           ELSE ents = <<>> /\ UNCHANGED dir
  /\ entries' = <<>> /\ dir_sector' = 0 /\ generation' = 0 /\ write_ptr' = 0
  /\ pc' = "off"
  /\ job' = NoJob /\ at' = 0 /\ done' = 0
  /\ sector' = 0 /\ g_buf' = <<>>
  /\ UNCHANGED <<compacting, seen>>

Operations ==
  \E n \in Names :
    \/ fs_remove(n)
    \/ \E text \in Texts : fs_append_line(n, text)
    \/ \E m \in Names : fs_rename(n, m) \/ fs_copy(n, m)

Compaction ==
  \/ CompactStage \/ CompactErase \/ CompactWrite \/ CompactEraseRest \/ CompactDone

Appending == AppendNoSpace \/ AppendBegin \/ AppendCopy \/ AppendText

Persisting == DirErase \/ DirEntries \/ DirHeader

Failures ==
  \/ \E k \in 0 .. Len(Writing) : AppendFails(k) \/ CompactFails(k)
  \/ \E ents \in PartialEntries \cup {dir[Target].ents} : DirFails(ents)

Next ==
  \/ \E bad \in Unreadable : mount(bad) \/ format(bad)
  \/ Operations \/ Compaction \/ Appending \/ Persisting \/ Failures
  \/ \E k \in 0 .. Len(Writing), ents \in PartialEntries : PowerLoss(k, ents)

Spec == Init /\ [][Next]_vars

-----------------------------------------------------------------------------
\* A compaction that fails, or loses power, may leave data where the directory
\* does not look for them (see findings in the README).
CompactionBroken == compacting /\ (faults' # faults \/ pc = "off")

\* Each operation takes effect whole or not at all, whatever fails in it and
\* wherever the power goes, compaction excepted, and takes the effect fs.h gives
\* it: fs.c implements FileStore.
ImplementsStore == Store!Init /\ [][Store!Next \/ CompactionBroken]_shown

\* "a byte can only be written where it is erased (0xFF), and only a sector
\* erase brings it back" (test/fs_test.c:5-6): no operation, whatever failed
\* before it, programs a cell that is not erased.
NeverProgramsTwice == ~clash

\* What makes the tail writable: at rest, nothing at or beyond it is programmed,
\* deleted files and broken writes included (fs.c:112-115).
TailErased ==
  pc = "idle" => \A o \in Offsets : o >= write_ptr => data[o] = ERASED

\* Directory entries share all the bytes of the shorter one, with a common
\* start, or none (fs_copy, and files grown in place since): what compact()
\* takes for granted (fs.c:193-195, 207-208).
EntriesNest ==
  \A i, j \in DOMAIN entries :
    \/ entries[i].offset = entries[j].offset
    \/ Extent(entries[i]) \cap Extent(entries[j]) = {}

\* What a mount would find on the flash.
OnFlash == LET s == Newest({0, 1}) IN View(data, SubSeq(dir[s].ents, 1, dir[s].count))

\* "ping-ponged across two sectors for power-loss safety" (fs.h:8-9), "a power
\* loss leaves either the old or the new file, never a half-written one"
\* (calib.h:15-16): what is on flash when the power goes is the files as they
\* were, or as the operation cut off would have left them; between operations,
\* what the last one returned.
PowerLossSafe == pc = "off" => OnFlash \in {shown, goal}

\* The same of every power loss that does not hit compact() (see findings in the
\* README): the directory's two sectors do what they are there for, wherever its
\* writing is cut off (fs.c:3-8).
PowerLossSafeOutsideCompact == ~compacting => PowerLossSafe

\* "no space" is said only when live data, without any garbage, leaves no room:
\* compact() reclaims everything deletes and superseded writes left (fs.c:12-13).
NoSpaceMeansFull ==
  [][AppendNoSpace =>
       Cardinality(UNION {Extent(entries[i]) : i \in DOMAIN entries})
         + Need(job.name, job.todo) > DATA]_vars
=============================================================================
