------------------------------ MODULE FsProofs ------------------------------
(***************************************************************************)
(* What TLAPS proves of Fs, for every geometry of the flash: where files   *)
(* are (FInv) through any number of faults, what is erased (CleanInv) as   *)
(* long as reads succeed, what the files hold (StoreInv), which makes it   *)
(* the abstract store, under NamesFit and FaultsApart, and that compaction *)
(* reclaims every cell of garbage (FullInv).                               *)
(***************************************************************************)
EXTENDS Fs, Arithmetic, FiniteSetTheorems, SequenceTheorems, TLAPS

(***************************************************************************)
(* FInv: where things are. Files lie below the tail of the log and nest or *)
(* are apart, both copies of the directory are like that too, and what an  *)
(* append still has to write fits.                                         *)
(***************************************************************************)
DirEntry == [name : Names, offset : Nat, length : Nat]
Header   == [valid : BOOLEAN, gen : Nat, count : Nat, ents : Seq(DirEntry)]

DirPhase     == pc \in {"dir_erase", "dir_entries", "dir_header"}
CompactPhase == pc \in {"compact", "compact_erase", "compact_write"}
WritePhase   == pc \in {"copy", "text"}

Placed(ents, n) == \A i \in 1 .. Len(ents) : ents[i].offset + ents[i].length <= n

Nest(ents) ==
  \A i, j \in 1 .. Len(ents) :
    \/ ents[i].offset = ents[j].offset
    \/ Extent(ents[i]) \cap Extent(ents[j]) = {}

Line(s) == (\E S : s \in Seq(S)) /\ s # <<>>

DirsPlaced ==
  \A s \in 0 .. 1 :
    Placed(dir[s].ents, DATA) /\ Nest(dir[s].ents) /\ dir[s].count <= Len(dir[s].ents)

\* The volume and its directory in RAM.
Volume ==
  /\ data = [o \in Offsets |-> data[o]]
  /\ dir \in [0 .. 1 -> Header]
  /\ entries \in Seq(DirEntry)
  /\ dir_sector \in 0 .. 1 /\ generation \in Nat /\ write_ptr \in 0 .. DATA
  /\ DirsPlaced
  /\ Placed(entries, write_ptr) /\ Nest(entries)

Phases ==
  /\ job = [name |-> job.name, todo |-> job.todo]
  /\ DirPhase \/ CompactPhase \/ WritePhase \/ pc \in {"off", "idle", "append"}
  /\ at \in Nat /\ done \in Nat /\ sector \in Nat
  /\ compacting \in BOOLEAN
  /\ pc = "dir_entries" => dir[Target].count = 0
  /\ pc = "dir_header" => dir[Target].ents = entries

JobInv ==
  /\ CompactPhase \/ WritePhase \/ pc = "append" \/ (DirPhase /\ compacting)
       => job.name \in Names /\ Line(job.todo)
  /\ CompactPhase => compacting
  /\ WritePhase \/ pc \in {"idle", "append"} => ~compacting
  /\ ~CompactPhase /\ ~compacting => sector = 0

RoomInv ==
  /\ pc = "copy" => /\ done < OldLen(job.name) /\ write_ptr <= at
                    /\ at + (OldLen(job.name) - done) + Len(job.todo) <= DATA
  /\ pc = "text" => write_ptr <= at /\ at + Len(job.todo) <= DATA

StageInv ==
  /\ pc = "compact" /\ sector # 0 => Sound
  /\ pc \in {"compact_erase", "compact_write"} =>
       /\ Sound /\ sector < DestSectors
       /\ Len(g_buf) = Min({Total, (sector + 1) * SECTOR}) - sector * SECTOR
       /\ \E S : g_buf \in Seq(S)

Control == Phases /\ JobInv /\ RoomInv /\ StageInv

FInv == Volume /\ Control

(***************************************************************************)
(* CleanInv: what is erased. Nothing is programmed from the tail on, or    *)
(* while an append writes, from where its next cell goes; compaction       *)
(* leaves the sectors it is done with erased beyond what it packed.        *)
(***************************************************************************)
ErasedFrom(n) == \A o \in Offsets : n <= o => data[o] = ERASED

CleanInv ==
  /\ ~clash
  /\ ~WritePhase /\ pc # "off" => ErasedFrom(write_ptr)
  /\ WritePhase => ErasedFrom(at)
  /\ pc = "compact_write" => \A o \in Offsets \cap Cells(sector) : data[o] = ERASED
  /\ CompactPhase =>
       \A o \in Offsets : Total <= o /\ o < sector * SECTOR => data[o] = ERASED

(***************************************************************************)
(* Sequences of entries.                                                   *)
(***************************************************************************)
LEMMA Removed ==
  ASSUME NEW T, NEW s \in Seq(T), NEW m \in 1 .. Len(s)
  PROVE  LET r == RemoveAt(s, m) IN
         /\ r \in Seq(T) /\ Len(r) = Len(s) - 1
         /\ \A i \in 1 .. Len(r) : r[i] = IF i < m THEN s[i] ELSE s[i + 1]
<1> DEFINE x == SubSeq(s, 1, m - 1)
           y == SubSeq(s, m + 1, Len(s))
           r == RemoveAt(s, m)
<1>1. Len(s) \in Nat
  OBVIOUS
<1>2. x \in Seq(T) /\ Len(x) = m - 1 /\ \A i \in 1 .. m - 1 : x[i] = s[i]
  BY <1>1
<1>3. y \in Seq(T) /\ Len(y) = Len(s) - m /\ \A i \in 1 .. Len(s) - m : y[i] = s[i + m]
  BY <1>1
<1>4. r = x \o y
  BY DEF RemoveAt
<1> HIDE DEF x, y, r
<1>5. /\ x \o y \in Seq(T) /\ Len(x \o y) = Len(x) + Len(y)
      /\ \A i \in 1 .. Len(x) + Len(y) : (x \o y)[i] = IF i <= Len(x) THEN x[i] ELSE y[i - Len(x)]
  <2>1. x \in Seq(T) /\ y \in Seq(T)
    BY <1>2, <1>3
  <2> QED
    BY ONLY <2>1
<1>6. r \in Seq(T) /\ Len(r) = Len(s) - 1
  BY <1>1, <1>2, <1>3, <1>4, <1>5
<1>7. ASSUME NEW i \in 1 .. Len(r)
      PROVE  r[i] = IF i < m THEN s[i] ELSE s[i + 1]
  <2>1. i \in 1 .. Len(x) + Len(y) /\ i \in Nat /\ m \in Nat
    BY <1>1, <1>2, <1>3, <1>6
  <2>2. r[i] = IF i <= Len(x) THEN x[i] ELSE y[i - Len(x)]
    BY <1>4, <1>5, <2>1
  <2>3. CASE i < m
    BY <1>2, <2>1, <2>2, <2>3
  <2>4. CASE ~(i < m)
    <3>1. i - Len(x) \in 1 .. Len(s) - m /\ (i - Len(x)) + m = i + 1 /\ ~(i <= Len(x))
      BY <1>1, <1>2, <1>6, <2>1, <2>4
    <3> QED
      BY <1>3, <2>2, <2>4, <3>1
  <2> QED
    BY <2>3, <2>4
<1> QED
  BY <1>6, <1>7 DEF r

\* Every entry of r is where one of s is.
Within(r, s) ==
  \A i \in 1 .. Len(r) : \E j \in 1 .. Len(s) :
    r[i].offset = s[j].offset /\ r[i].length = s[j].length

LEMMA WithinKeeps ==
  ASSUME NEW r, NEW s, Within(r, s), NEW n, Placed(s, n), Nest(s)
  PROVE  Placed(r, n) /\ Nest(r)
<1>1. Placed(r, n)
  BY DEF Within, Placed
<1>2. ASSUME NEW i \in 1 .. Len(r), NEW j \in 1 .. Len(r)
      PROVE  r[i].offset = r[j].offset \/ Extent(r[i]) \cap Extent(r[j]) = {}
  <2>1. PICK k \in 1 .. Len(s) : r[i].offset = s[k].offset /\ r[i].length = s[k].length
    BY DEF Within
  <2>2. PICK l \in 1 .. Len(s) : r[j].offset = s[l].offset /\ r[j].length = s[l].length
    BY DEF Within
  <2>3. Extent(r[i]) = Extent(s[k]) /\ Extent(r[j]) = Extent(s[l])
    BY <2>1, <2>2 DEF Extent
  <2> QED
    BY <2>1, <2>2, <2>3 DEF Nest
<1> QED
  BY <1>1, <1>2 DEF Nest

LEMMA RemovedWithin ==
  ASSUME NEW s \in Seq(DirEntry), NEW m \in 1 .. Len(s)
  PROVE  RemoveAt(s, m) \in Seq(DirEntry) /\ Within(RemoveAt(s, m), s)
<1> DEFINE r == RemoveAt(s, m)
<1>1. /\ r \in Seq(DirEntry) /\ Len(r) = Len(s) - 1
      /\ \A i \in 1 .. Len(r) : r[i] = IF i < m THEN s[i] ELSE s[i + 1]
  BY Removed
<1> HIDE DEF r
<1>2. Len(s) \in Nat
  OBVIOUS
<1>3. ASSUME NEW i \in 1 .. Len(r)
      PROVE  \E j \in 1 .. Len(s) : r[i] = s[j]
  BY <1>1, <1>2
<1>4. Within(r, s)
  BY <1>3 DEF Within
<1> QED
  BY <1>1, <1>4 DEF r

LEMMA PrefixWithin ==
  ASSUME NEW s \in Seq(DirEntry), NEW k \in 0 .. Len(s)
  PROVE  /\ SubSeq(s, 1, k) \in Seq(DirEntry) /\ Len(SubSeq(s, 1, k)) = k
         /\ Within(SubSeq(s, 1, k), s)
<1> DEFINE r == SubSeq(s, 1, k)
<1>1. Len(s) \in Nat /\ k \in Nat
  OBVIOUS
<1>2. r \in Seq(DirEntry) /\ Len(r) = k /\ \A i \in 1 .. k : r[i] = s[i]
  BY <1>1
<1> HIDE DEF r
<1>3. \A i \in 1 .. k : i \in 1 .. Len(s)
  BY <1>1
<1>4. Within(r, s)
  BY <1>2, <1>3 DEF Within
<1> QED
  BY <1>2, <1>4 DEF r

LEMMA PlacedMore ==
  ASSUME NEW s \in Seq(DirEntry), NEW m \in Nat, NEW n \in Nat, m <= n, Placed(s, m)
  PROVE  Placed(s, n)
<1> SUFFICES ASSUME NEW i \in 1 .. Len(s)
             PROVE  s[i].offset + s[i].length <= n
  BY DEF Placed
<1>1. s[i] \in DirEntry
  OBVIOUS
<1>2. s[i].offset \in Nat /\ s[i].length \in Nat
  BY <1>1 DEF DirEntry
<1> QED
  BY <1>2 DEF Placed

LEMMA NoEntries == Placed(<<>>, DATA) /\ Nest(<<>>) /\ <<>> \in Seq(DirEntry) /\ Len(<<>>) = 0
  BY DEF Placed, Nest

\* What find() returns.
LEMMA Found ==
  ASSUME entries \in Seq(DirEntry), NEW n
  PROVE  /\ find(n) \in 0 .. Len(entries)
         /\ find(n) # 0 => /\ find(n) \in 1 .. Len(entries) /\ entries[find(n)].name = n
                           /\ find(n) = Min(Indices(entries, n))
                           /\ entries[find(n)] \in DirEntry
         /\ find(n) = 0 => \A i \in 1 .. Len(entries) : entries[i].name # n
<1> DEFINE S == Indices(entries, n)
<1>1. Len(entries) \in Nat /\ S \in SUBSET Nat /\ S \subseteq 1 .. Len(entries)
  BY DEF Indices
<1>2. CASE S = {}
  BY <1>1, <1>2 DEF find, Indices
<1>3. CASE S # {}
  <2>1. Min(S) \in S
    BY <1>1, <1>3, MinFacts
  <2>2. find(n) = Min(S) /\ find(n) # 0 /\ find(n) \in 1 .. Len(entries)
    BY <1>1, <1>3, <2>1 DEF find
  <2>3. entries[find(n)].name = n
    BY <2>1, <2>2 DEF Indices
  <2> QED
    BY <1>1, <2>2, <2>3
<1> QED
  BY <1>2, <1>3

LEMMA OldLenFacts ==
  ASSUME Volume, NEW n
  PROVE  /\ OldLen(n) \in Nat
         /\ find(n) = 0 => OldLen(n) = 0
         /\ find(n) # 0 => /\ find(n) \in 1 .. Len(entries) /\ OldLen(n) = entries[find(n)].length
                           /\ entries[find(n)].offset \in Nat
         /\ AtTail(n) => find(n) # 0 /\ entries[find(n)].offset = write_ptr - OldLen(n)
  BY Found DEF Volume, OldLen, AtTail, DirEntry

LEMMA Sizes ==
  /\ SECTOR \in Nat \ {0} /\ SECTORS \in Nat \ {0} /\ DATA \in Nat
  /\ Offsets = 0 .. DATA - 1
  BY GeometryAssumption DEF DATA, Offsets

(***************************************************************************)
(* compact()'s tables: the sorted entries are the entries, and the regions *)
(* are apart, hold every entry, and are the bytes of entries.              *)
(***************************************************************************)
LEMMA InsertedAt ==
  ASSUME NEW s \in Seq(DirEntry), NEW e \in DirEntry
  PROVE  LET r == Insert(s, e) IN
         /\ r \in Seq(DirEntry) /\ Len(r) = Len(s) + 1
         /\ \E k \in 0 .. Len(s) :
              /\ k = 0 \/ Before(s[k], e)
              /\ \A i \in 1 .. Len(s) : Before(s[i], e) => i <= k
              /\ \A i \in 1 .. k : r[i] = s[i]
              /\ r[k + 1] = e
              /\ \A i \in k + 1 .. Len(s) : r[i + 1] = s[i]
<1> DEFINE S == {0} \cup {i \in DOMAIN s : Before(s[i], e)}
           k == Max(S)
           x == SubSeq(s, 1, k)
           y == SubSeq(s, k + 1, Len(s))
           z == x \o <<e>>
           r == Insert(s, e)
<1>1. Len(s) \in Nat /\ DOMAIN s = 1 .. Len(s)
  OBVIOUS
<1>2. /\ k \in 0 .. Len(s) /\ (k = 0 \/ Before(s[k], e))
      /\ \A i \in 1 .. Len(s) : Before(s[i], e) => i <= k
  <2>1. S \in SUBSET Nat /\ S # {} /\ \A i \in S : i \in 0 .. Len(s) /\ i <= Len(s)
    BY <1>1
  <2> HIDE DEF S
  <2>2. Max(S) \in S /\ \A i \in S : i <= Max(S)
    BY ONLY <1>1, <2>1, MaxFacts
  <2>3. \A i : i \in S <=> i = 0 \/ (i \in 1 .. Len(s) /\ Before(s[i], e))
    BY ONLY <1>1 DEF S
  <2> QED
    BY ONLY <1>1, <2>1, <2>2, <2>3
<1>3. r = z \o y
  BY DEF Insert
<1> HIDE DEF k
<1>4. x \in Seq(DirEntry) /\ Len(x) = k /\ \A i \in 1 .. k : x[i] = s[i]
  BY <1>1, <1>2
<1>5. y \in Seq(DirEntry) /\ Len(y) = Len(s) - k /\ \A i \in 1 .. Len(s) - k : y[i] = s[i + k]
  <2> DEFINE m == k + 1
             n == Len(s)
  <2>1. m \in Int /\ n \in Int /\ \A i \in m .. n : s[i] \in DirEntry
    BY <1>1, <1>2
  <2>a. n \in Nat /\ k \in 0 .. n /\ m = k + 1
    BY <1>1, <1>2
  <2> HIDE DEF m, n
  <2>2. /\ n - m + 1 = n - k /\ (IF m <= n THEN n - m + 1 ELSE 0) = n - k
        /\ \A i \in 1 .. n - k : m + i - 1 = i + k
    <3>1. n - m + 1 = n - k /\ (m <= n => n - m + 1 = n - k) /\ (~(m <= n) => n - k = 0)
      BY ONLY <2>a
    <3>2. \A i \in 1 .. n - k : m + i - 1 = i + k
      BY ONLY <2>a
    <3> QED
      BY ONLY <3>1, <3>2
  <2>3. /\ SubSeq(s, m, n) \in Seq(DirEntry)
        /\ Len(SubSeq(s, m, n)) = IF m <= n THEN n - m + 1 ELSE 0
        /\ \A i \in 1 .. n - m + 1 : SubSeq(s, m, n)[i] = s[m + i - 1]
    BY ONLY <2>1, SubSeqProperties
  <2>4. y = SubSeq(s, m, n)
    BY DEF m, n
  <2>5. \A i \in 1 .. n - k : y[i] = s[i + k]
    BY ONLY <2>2, <2>3, <2>4
  <2>6. y \in Seq(DirEntry) /\ Len(y) = n - k
    BY ONLY <2>2, <2>3, <2>4
  <2> QED
    BY <2>5, <2>6 DEF n
<1> HIDE DEF x, y, r
<1>6. z \in Seq(DirEntry) /\ Len(z) = k + 1 /\ z[k + 1] = e /\ \A i \in 1 .. k : z[i] = s[i]
  BY <1>2, <1>4
<1> HIDE DEF z
<1>7. /\ z \o y \in Seq(DirEntry) /\ Len(z \o y) = Len(z) + Len(y)
      /\ \A i \in 1 .. Len(z) + Len(y) : (z \o y)[i] = IF i <= Len(z) THEN z[i] ELSE y[i - Len(z)]
  <2>1. z \in Seq(DirEntry) /\ y \in Seq(DirEntry)
    BY <1>5, <1>6
  <2> QED
    BY ONLY <2>1
<1>8. r \in Seq(DirEntry) /\ Len(r) = Len(s) + 1
  BY <1>1, <1>2, <1>3, <1>5, <1>6, <1>7
<1>9. \A i \in 1 .. Len(r) : r[i] = IF i <= k + 1 THEN z[i] ELSE y[i - (k + 1)]
  BY <1>1, <1>2, <1>3, <1>5, <1>6, <1>7, <1>8
<1>10. \A i \in 1 .. k : r[i] = s[i]
  <2>1. \A i \in 1 .. k : i \in 1 .. Len(r) /\ i <= k + 1
    BY <1>1, <1>2, <1>8
  <2> QED
    BY <1>6, <1>9, <2>1
<1>11. r[k + 1] = e
  <2>1. k + 1 \in 1 .. Len(r) /\ k + 1 <= k + 1
    BY <1>1, <1>2, <1>8
  <2> QED
    BY <1>6, <1>9, <2>1
<1>12. \A i \in k + 1 .. Len(s) : r[i + 1] = s[i]
  <2> SUFFICES ASSUME NEW i \in k + 1 .. Len(s) PROVE r[i + 1] = s[i]
    OBVIOUS
  <2>1. /\ i + 1 \in 1 .. Len(r) /\ ~(i + 1 <= k + 1) /\ (i + 1) - (k + 1) = i - k
        /\ i - k \in 1 .. Len(s) - k /\ (i - k) + k = i
    BY <1>1, <1>2, <1>8
  <2>2. r[i + 1] = y[i - k]
    BY <1>9, <2>1
  <2> QED
    BY <1>5, <2>1, <2>2
<1> QED
  BY <1>2, <1>8, <1>10, <1>11, <1>12 DEF r

LEMMA Inserted ==
  ASSUME NEW s \in Seq(DirEntry), NEW e \in DirEntry
  PROVE  LET r == Insert(s, e) IN
         /\ r \in Seq(DirEntry) /\ Len(r) = Len(s) + 1
         /\ \A i \in 1 .. Len(r) : r[i] = e \/ \E j \in 1 .. Len(s) : r[i] = s[j]
         /\ \E i \in 1 .. Len(r) : r[i] = e
         /\ \A j \in 1 .. Len(s) : \E i \in 1 .. Len(r) : r[i] = s[j]
<1> DEFINE r == Insert(s, e)
<1>1. r \in Seq(DirEntry) /\ Len(r) = Len(s) + 1 /\ Len(s) \in Nat
  BY InsertedAt
<1>2. PICK k \in 0 .. Len(s) :
        /\ \A i \in 1 .. k : r[i] = s[i]
        /\ r[k + 1] = e
        /\ \A i \in k + 1 .. Len(s) : r[i + 1] = s[i]
  BY InsertedAt
<1> HIDE DEF r
<1>3. k + 1 \in 1 .. Len(r)
  BY ONLY <1>1, k \in 0 .. Len(s)
<1>4. ASSUME NEW i \in 1 .. Len(r)
      PROVE  r[i] = e \/ \E j \in 1 .. Len(s) : r[i] = s[j]
  <2>1. CASE i \in 1 .. k
    <3>1. i \in 1 .. Len(s)
      BY ONLY <1>1, <2>1, k \in 0 .. Len(s)
    <3> QED
      BY <1>2, <2>1, <3>1
  <2>2. CASE i = k + 1
    BY <1>2, <2>2
  <2>3. CASE i > k + 1
    <3>1. i - 1 \in k + 1 .. Len(s) /\ i - 1 \in 1 .. Len(s) /\ (i - 1) + 1 = i
      BY ONLY <1>1, <2>3, k \in 0 .. Len(s), i \in 1 .. Len(r)
    <3> QED
      BY <1>2, <3>1
  <2>4. i \in 1 .. k \/ i = k + 1 \/ i > k + 1
    BY ONLY <1>1, k \in 0 .. Len(s), i \in 1 .. Len(r)
  <2> QED
    BY <2>1, <2>2, <2>3, <2>4
<1>5. ASSUME NEW j \in 1 .. Len(s)
      PROVE  \E i \in 1 .. Len(r) : r[i] = s[j]
  <2>1. CASE j \in 1 .. k
    <3>1. j \in 1 .. Len(r)
      BY ONLY <1>1, <2>1, k \in 0 .. Len(s)
    <3> QED
      BY <1>2, <2>1, <3>1
  <2>2. CASE j \in k + 1 .. Len(s)
    <3>1. j + 1 \in 1 .. Len(r)
      BY ONLY <1>1, <2>2, k \in 0 .. Len(s)
    <3> QED
      BY <1>2, <2>2, <3>1
  <2>3. j \in 1 .. k \/ j \in k + 1 .. Len(s)
    BY ONLY <1>1, k \in 0 .. Len(s), j \in 1 .. Len(s)
  <2> QED
    BY <2>1, <2>2, <2>3
<1> QED
  BY <1>1, <1>2, <1>3, <1>4, <1>5 DEF r

LEMMA OrderSteps ==
  ASSUME NEW ents \in Seq(DirEntry)
  PROVE  /\ Order(ents)[0] = <<>>
         /\ \A k \in 1 .. Len(ents) : Order(ents)[k] = Insert(Order(ents)[k - 1], ents[k])
<1> DEFINE N == Len(ents)
           T == Seq(DirEntry)
           G == [k \in 1 .. N |-> [s \in T |-> Insert(s, ents[k])]]
           Is(f) == f = [k \in 0 .. N |-> IF k = 0 THEN <<>> ELSE Insert(f[k - 1], ents[k])]
<1>1. N \in Nat /\ <<>> \in T
  OBVIOUS
<1>2. G \in [1 .. N -> [T -> T]]
  <2>1. ASSUME NEW k \in 1 .. N, NEW s \in T PROVE Insert(s, ents[k]) \in T
    <3>1. ents[k] \in DirEntry /\ s \in Seq(DirEntry)
      OBVIOUS
    <3> QED
      BY ONLY <3>1, Inserted
  <2> QED
    BY <2>1
<1>3. PICK f \in [0 .. N -> T] : f[0] = <<>> /\ \A k \in 1 .. N : f[k] = G[k][f[k - 1]]
  <2> HIDE DEF N, T, G
  <2>1. Steps(N, T, <<>>, G)
    BY <1>1, <1>2 DEF Steps
  <2>2. PICK f : Follows(f, N, T, <<>>, G)
    BY <2>1, Recursion
  <2> QED
    BY <2>2 DEF Follows
<1> DEFINE h == [k \in 0 .. N |-> IF k = 0 THEN <<>> ELSE Insert(f[k - 1], ents[k])]
<1>4. f = h
  <2>1. ASSUME NEW k \in 0 .. N PROVE f[k] = h[k]
    <3>1. CASE k = 0
      BY <1>1, <1>3, <3>1
    <3>2. CASE k # 0
      <4>1. k \in 1 .. N /\ k - 1 \in 0 .. N
        BY <1>1, <3>2
      <4>2. f[k - 1] \in T
        BY <1>3, <4>1
      <4>3. f[k] = G[k][f[k - 1]]
        BY <1>3, <4>1
      <4> QED
        BY <3>2, <4>1, <4>2, <4>3
    <3> QED
      BY <3>1, <3>2
  <2> HIDE DEF G
  <2> QED
    BY <1>3, <2>1
<1>5. Is(f)
  BY <1>4
<1>6. Is(Order(ents))
  BY <1>5 DEF Order
<1> HIDE DEF N
<1> DEFINE o == Order(ents)
<1> HIDE DEF o
<1>7. o = [k \in 0 .. N |-> IF k = 0 THEN <<>> ELSE Insert(o[k - 1], ents[k])]
  BY <1>6 DEF o
<1>8. o[0] = <<>> /\ \A k \in 1 .. N : o[k] = Insert(o[k - 1], ents[k])
  BY <1>1, <1>7
<1> QED
  BY <1>8 DEF o, N

\* The sorted entries are the entries.
LEMMA Ordered ==
  ASSUME NEW ents \in Seq(DirEntry)
  PROVE  LET es == Order(ents)[Len(ents)] IN
         /\ es \in Seq(DirEntry) /\ Len(es) = Len(ents)
         /\ \A i \in 1 .. Len(es) : \E j \in 1 .. Len(ents) : es[i] = ents[j]
         /\ \A j \in 1 .. Len(ents) : \E i \in 1 .. Len(es) : es[i] = ents[j]
<1> DEFINE N == Len(ents)
           f == Order(ents)
           P(k) == /\ f[k] \in Seq(DirEntry) /\ Len(f[k]) = k
                   /\ \A i \in 1 .. k : \E j \in 1 .. k : f[k][i] = ents[j]
                   /\ \A j \in 1 .. k : \E i \in 1 .. k : f[k][i] = ents[j]
           S == {k \in 0 .. N : ~P(k)}
<1>1. N \in Nat /\ \A k \in 1 .. N : ents[k] \in DirEntry
  OBVIOUS
<1>2. f[0] = <<>> /\ \A k \in 1 .. N : f[k] = Insert(f[k - 1], ents[k])
  BY OrderSteps
<1> HIDE DEF N, f
<1>3. P(0)
  BY <1>2
<1>4. ASSUME NEW k \in 1 .. N, P(k - 1) PROVE P(k)
  <2> DEFINE s == f[k - 1]
             r == Insert(s, ents[k])
  <2>1. s \in Seq(DirEntry) /\ Len(s) = k - 1 /\ ents[k] \in DirEntry /\ k \in Nat
    BY <1>1, <1>4
  <2>2. /\ r \in Seq(DirEntry) /\ Len(r) = Len(s) + 1
        /\ \A i \in 1 .. Len(r) : r[i] = ents[k] \/ \E j \in 1 .. Len(s) : r[i] = s[j]
        /\ \E i \in 1 .. Len(r) : r[i] = ents[k]
        /\ \A j \in 1 .. Len(s) : \E i \in 1 .. Len(r) : r[i] = s[j]
    BY <2>1, Inserted
  <2>3. f[k] = r /\ Len(r) = k
    BY <1>2, <2>1, <2>2
  <2>4. /\ \A i \in 1 .. k - 1 : \E j \in 1 .. k - 1 : s[i] = ents[j]
        /\ \A j \in 1 .. k - 1 : \E i \in 1 .. k - 1 : s[i] = ents[j]
    BY <1>4
  <2> HIDE DEF s, r
  <2>5. ASSUME NEW i \in 1 .. k PROVE \E j \in 1 .. k : r[i] = ents[j]
    <3>1. CASE r[i] = ents[k]
      BY <2>1, <3>1
    <3>2. ASSUME NEW l \in 1 .. Len(s), r[i] = s[l] PROVE \E j \in 1 .. k : r[i] = ents[j]
      <4>1. PICK j \in 1 .. k - 1 : s[l] = ents[j]
        BY <2>1, <2>4
      <4>2. j \in 1 .. k
        BY <2>1
      <4> QED
        BY <3>2, <4>1, <4>2
    <3> QED
      BY <2>2, <2>3, <3>1, <3>2
  <2>6. ASSUME NEW j \in 1 .. k PROVE \E i \in 1 .. k : r[i] = ents[j]
    <3>1. CASE j = k
      BY <2>2, <2>3, <3>1
    <3>2. CASE j # k
      <4>1. j \in 1 .. k - 1
        BY <2>1, <3>2
      <4>2. PICK l \in 1 .. k - 1 : s[l] = ents[j]
        BY <2>4, <4>1
      <4> QED
        BY <2>1, <2>2, <2>3, <4>2
    <3> QED
      BY <3>1, <3>2
  <2> QED
    BY <2>2, <2>3, <2>5, <2>6
<1>5. S = {}
  <2> HIDE DEF P
  <2> SUFFICES ASSUME S # {} PROVE FALSE
    OBVIOUS
  <2>1. S \in SUBSET Nat
    BY <1>1
  <2>2. PICK m \in S : \A x \in S : m <= x
    BY ONLY <2>1, S # {}, LeastExists
  <2>3. m \in 1 .. N /\ m - 1 \in 0 .. N /\ ~(m <= m - 1)
    BY <1>1, <1>3, <2>2
  <2>4. P(m - 1)
    BY <2>2, <2>3
  <2> QED
    BY <1>4, <2>2, <2>3, <2>4
<1>6. P(N)
  <2> HIDE DEF P
  <2> QED
    BY <1>1, <1>5
<1> QED
  BY <1>6 DEF N, f

Region == [src : Nat, len : Nat, dst : Nat]

\* The regions rs of the first k of the entries es.
Tiles(rs, es, k) ==
  /\ rs \in Seq(Region)
  /\ \A i, j \in 1 .. Len(rs) : i < j => RegionEnd(rs[i]) <= rs[j].dst
  /\ \A i \in 1 .. Len(rs) : \E j \in 1 .. k : rs[i].src = es[j].offset /\ rs[i].len = es[j].length
  /\ \A j \in 1 .. k : \E i \in 1 .. Len(rs) : InRegion(es[j], rs[i])

LEMMA TileEnds ==
  ASSUME NEW rs, NEW es, NEW k, Tiles(rs, es, k)
  PROVE  /\ Packed(rs) \in Nat /\ \A i \in 1 .. Len(rs) : rs[i] \in Region /\ RegionEnd(rs[i]) <= Packed(rs)
         /\ rs # <<>> => /\ Len(rs) \in 1 .. Len(rs) /\ Last(rs) = rs[Len(rs)]
                         /\ Packed(rs) = RegionEnd(rs[Len(rs)])
<1>1. rs \in Seq(Region) /\ Len(rs) \in Nat
  BY DEF Tiles
<1>2. CASE rs = <<>>
  BY <1>1, <1>2 DEF Packed
<1>3. CASE rs # <<>>
  <2> DEFINE n == Len(rs)
  <2>1. n \in 1 .. n /\ Last(rs) = rs[n] /\ Packed(rs) = RegionEnd(rs[n])
    BY <1>1, <1>3 DEF Last, Packed
  <2>2. \A i \in 1 .. n : rs[i] \in Region /\ RegionEnd(rs[i]) \in Nat /\ rs[i].dst <= RegionEnd(rs[i])
    <3>1. ASSUME NEW i \in 1 .. n PROVE rs[i] \in Region
      BY <1>1
    <3> QED
      BY <3>1 DEF Region, RegionEnd
  <2>3. ASSUME NEW i \in 1 .. n PROVE RegionEnd(rs[i]) <= RegionEnd(rs[n])
    <3>1. CASE i = n
      BY <2>2, <3>1
    <3>2. CASE i # n
      <4>1. i < n
        BY <1>1, <3>2
      <4>2. RegionEnd(rs[i]) <= rs[n].dst /\ rs[n].dst <= RegionEnd(rs[n]) /\ rs[n].dst \in Nat
        BY <2>1, <2>2, <4>1 DEF Tiles, Region
      <4> QED
        BY <2>1, <2>2, <4>2
    <3> QED
      BY <3>1, <3>2
  <2> QED
    BY <1>3, <2>1, <2>2, <2>3
<1> QED
  BY <1>2, <1>3

LEMMA Tiled ==
  ASSUME NEW es \in Seq(DirEntry), NEW k \in 1 .. Len(es), NEW rs, Tiles(rs, es, k - 1)
  PROVE  Tiles(AddRegion(rs, es[k]), es, k)
<1> DEFINE e == es[k]
           new == [src |-> e.offset, len |-> e.length, dst |-> Packed(rs)]
           r == Append(rs, new)
<1>1. /\ rs \in Seq(Region) /\ Len(rs) \in Nat /\ k \in Nat /\ k \in 1 .. k /\ \A j \in 1 .. k - 1 : j \in 1 .. k
      /\ e \in DirEntry /\ e.offset \in Nat /\ e.length \in Nat
  <2>1. e \in DirEntry /\ k \in Nat /\ k \in 1 .. k
    OBVIOUS
  <2>2. e.offset \in Nat /\ e.length \in Nat
    BY <2>1 DEF DirEntry
  <2> QED
    BY <2>1, <2>2 DEF Tiles
<1>2. /\ Packed(rs) \in Nat /\ \A i \in 1 .. Len(rs) : RegionEnd(rs[i]) <= Packed(rs)
      /\ rs # <<>> => /\ Len(rs) \in 1 .. Len(rs) /\ Last(rs) = rs[Len(rs)]
  BY TileEnds
<1>3. CASE rs # <<>> /\ InRegion(e, Last(rs))
  <2>1. AddRegion(rs, e) = rs
    BY <1>3 DEF AddRegion
  <2>2. \A i \in 1 .. Len(rs) : \E j \in 1 .. k : rs[i].src = es[j].offset /\ rs[i].len = es[j].length
    BY <1>1 DEF Tiles
  <2>3. \A j \in 1 .. k : \E i \in 1 .. Len(rs) : InRegion(es[j], rs[i])
    <3>1. InRegion(e, rs[Len(rs)]) /\ Len(rs) \in 1 .. Len(rs)
      BY <1>2, <1>3
    <3>2. \A j \in 1 .. k : j = k \/ j \in 1 .. k - 1
      BY <1>1
    <3> QED
      BY <3>1, <3>2 DEF Tiles
  <2> QED
    BY <2>1, <2>2, <2>3 DEF Tiles
<1>4. CASE ~(rs # <<>> /\ InRegion(e, Last(rs)))
  <2>1. AddRegion(rs, e) = r
    BY <1>4 DEF AddRegion
  <2>2. new \in Region /\ new.src = e.offset /\ new.len = e.length /\ new.dst = Packed(rs)
    BY <1>1, <1>2 DEF Region
  <2> HIDE DEF new
  <2>3. /\ r \in Seq(Region) /\ Len(r) = Len(rs) + 1 /\ r[Len(rs) + 1] = new
        /\ \A i \in 1 .. Len(rs) : r[i] = rs[i]
    BY <1>1, <2>2
  <2> HIDE DEF r
  <2>4. \A i \in 1 .. Len(r) : i = Len(rs) + 1 \/ i \in 1 .. Len(rs)
    BY <1>1, <2>3
  <2>5. Len(rs) + 1 \in 1 .. Len(r) /\ \A i \in 1 .. Len(rs) : i \in 1 .. Len(r)
    BY <1>1, <2>3
  <2>6. ASSUME NEW i \in 1 .. Len(r), NEW j \in 1 .. Len(r), i < j
        PROVE  RegionEnd(r[i]) <= r[j].dst
    <3>1. i \in 1 .. Len(rs)
      BY <1>1, <2>3, <2>6
    <3>2. CASE j = Len(rs) + 1
      BY <1>2, <2>2, <2>3, <3>1, <3>2
    <3>3. CASE j \in 1 .. Len(rs)
      BY <2>3, <2>6, <3>1, <3>3 DEF Tiles
    <3> QED
      BY <2>4, <3>2, <3>3
  <2>7. ASSUME NEW i \in 1 .. Len(r)
        PROVE  \E j \in 1 .. k : r[i].src = es[j].offset /\ r[i].len = es[j].length
    <3>1. CASE i = Len(rs) + 1
      BY <1>1, <2>2, <2>3, <3>1
    <3>2. CASE i \in 1 .. Len(rs)
      <4>1. r[i] = rs[i]
        BY <2>3, <3>2
      <4>2. PICK j \in 1 .. k - 1 : rs[i].src = es[j].offset /\ rs[i].len = es[j].length
        BY <3>2 DEF Tiles
      <4>3. j \in 1 .. k
        BY <1>1
      <4> QED
        BY <4>1, <4>2, <4>3
    <3> QED
      BY <2>4, <3>1, <3>2
  <2>8. ASSUME NEW j \in 1 .. k
        PROVE  \E i \in 1 .. Len(r) : InRegion(es[j], r[i])
    <3>1. CASE j = k
      <4>1. InRegion(e, new)
        BY <1>1, <2>2 DEF InRegion
      <4> QED
        BY <2>3, <2>5, <3>1, <4>1
    <3>2. CASE j # k
      <4>1. j \in 1 .. k - 1
        BY <1>1, <3>2
      <4>2. PICK i \in 1 .. Len(rs) : InRegion(es[j], rs[i])
        BY <4>1 DEF Tiles
      <4> QED
        BY <2>3, <2>5, <4>2
    <3> QED
      BY <3>1, <3>2
  <2> QED
    BY <2>1, <2>3, <2>6, <2>7, <2>8 DEF Tiles
<1> QED
  BY <1>3, <1>4

LEMMA RegionSteps ==
  ASSUME NEW es \in Seq(DirEntry)
  PROVE  /\ RegionsOf(es)[0] = <<>>
         /\ \A k \in 1 .. Len(es) : RegionsOf(es)[k] = AddRegion(RegionsOf(es)[k - 1], es[k])
<1> DEFINE N == Len(es)
           T == Seq(Region)
           G == [k \in 1 .. N |-> [rs \in T |-> AddRegion(rs, es[k])]]
           Is(f) == f = [k \in 0 .. N |-> IF k = 0 THEN <<>> ELSE AddRegion(f[k - 1], es[k])]
<1>1. N \in Nat /\ <<>> \in T
  OBVIOUS
<1>2. G \in [1 .. N -> [T -> T]]
  <2>1. ASSUME NEW k \in 1 .. N, NEW rs \in T PROVE AddRegion(rs, es[k]) \in T
    <3>1. es[k] \in DirEntry
      OBVIOUS
    <3>2. Packed(rs) \in Nat
      <4>1. CASE rs = <<>>
        BY <4>1 DEF Packed
      <4>2. CASE rs # <<>>
        <5>1. Last(rs) \in Region
          BY <4>2 DEF Last
        <5> QED
          BY <4>2, <5>1 DEF Packed, RegionEnd, Region
      <4> QED
        BY <4>1, <4>2
    <3>3. [src |-> es[k].offset, len |-> es[k].length, dst |-> Packed(rs)] \in Region
      BY <3>1, <3>2 DEF DirEntry, Region
    <3> HIDE DEF N
    <3> QED
      BY <3>3 DEF AddRegion
  <2> QED
    BY <2>1
<1>3. PICK f \in [0 .. N -> T] : f[0] = <<>> /\ \A k \in 1 .. N : f[k] = G[k][f[k - 1]]
  <2> HIDE DEF N, T, G
  <2>1. Steps(N, T, <<>>, G)
    BY <1>1, <1>2 DEF Steps
  <2>2. PICK f : Follows(f, N, T, <<>>, G)
    BY <2>1, Recursion
  <2> QED
    BY <2>2 DEF Follows
<1> DEFINE h == [k \in 0 .. N |-> IF k = 0 THEN <<>> ELSE AddRegion(f[k - 1], es[k])]
<1>4. f = h
  <2>1. ASSUME NEW k \in 0 .. N PROVE f[k] = h[k]
    <3>1. CASE k = 0
      BY <1>1, <1>3, <3>1
    <3>2. CASE k # 0
      <4>1. k \in 1 .. N /\ k - 1 \in 0 .. N
        BY <1>1, <3>2
      <4>2. f[k - 1] \in T
        BY <1>3, <4>1
      <4>3. f[k] = G[k][f[k - 1]]
        BY <1>3, <4>1
      <4> QED
        BY <3>2, <4>1, <4>2, <4>3
    <3> QED
      BY <3>1, <3>2
  <2> HIDE DEF G
  <2> QED
    BY <1>3, <2>1
<1>5. Is(f)
  BY <1>4
<1>6. Is(RegionsOf(es))
  BY <1>5 DEF RegionsOf
<1> HIDE DEF N
<1> DEFINE o == RegionsOf(es)
<1> HIDE DEF o
<1>7. o = [k \in 0 .. N |-> IF k = 0 THEN <<>> ELSE AddRegion(o[k - 1], es[k])]
  BY <1>6 DEF o
<1>8. o[0] = <<>> /\ \A k \in 1 .. N : o[k] = AddRegion(o[k - 1], es[k])
  BY <1>1, <1>7
<1> QED
  BY <1>8 DEF o, N

LEMMA RegionsTile ==
  ASSUME NEW es \in Seq(DirEntry)
  PROVE  Tiles(RegionsOf(es)[Len(es)], es, Len(es))
<1> DEFINE N == Len(es)
           f == RegionsOf(es)
           S == {k \in 0 .. N : ~Tiles(f[k], es, k)}
<1>1. N \in Nat /\ f[0] = <<>> /\ \A k \in 1 .. N : f[k] = AddRegion(f[k - 1], es[k])
  BY RegionSteps
<1>2. \A rs : \A k \in 1 .. N : Tiles(rs, es, k - 1) => Tiles(AddRegion(rs, es[k]), es, k)
  BY Tiled
<1> HIDE DEF N, f
<1>3. Tiles(f[0], es, 0)
  BY <1>1 DEF Tiles
<1>4. S = {}
  <2> SUFFICES ASSUME S # {} PROVE FALSE
    OBVIOUS
  <2>1. S \in SUBSET Nat
    BY <1>1
  <2>2. PICK m \in S : \A x \in S : m <= x
    BY ONLY <2>1, S # {}, LeastExists
  <2>3. m \in 1 .. N /\ m - 1 \in 0 .. N /\ ~(m <= m - 1)
    BY <1>1, <1>3, <2>2
  <2>4. Tiles(f[m - 1], es, m - 1)
    BY <2>2, <2>3
  <2> QED
    BY <1>1, <1>2, <2>2, <2>3, <2>4
<1>5. Tiles(f[N], es, N)
  BY <1>1, <1>4
<1> QED
  BY <1>5 DEF N, f

(***************************************************************************)
(* Where packing puts the files.                                           *)
(***************************************************************************)
LEMMA Shift ==
  ASSUME NEW off \in Nat, NEW n \in Nat, NEW src \in Nat, NEW dst \in Nat, NEW len \in Nat,
         src <= off, off + n <= src + len
  PROVE  LET to == dst + (off - src) IN
         to \in Nat /\ dst <= to /\ to + n <= dst + len /\ (dst <= src => to <= off)
  OBVIOUS

LEMMA EndIsNat ==
  ASSUME NEW r, r.dst \in Nat, r.len \in Nat
  PROVE  RegionEnd(r) \in Nat
  BY DEF RegionEnd

LEMMA Apart ==
  ASSUME NEW a \in Nat, NEW m \in Nat, NEW b \in Nat, NEW n \in Nat, a + m <= b
  PROVE  (a .. a + m - 1) \cap (b .. b + n - 1) = {}
  OBVIOUS

\* Cells that are apart stay apart when they move alike.
LEMMA Slide ==
  ASSUME NEW p \in Nat, NEW m \in Nat, NEW q \in Nat, NEW n \in Nat,
         NEW src \in Nat, NEW dst \in Nat,
         (p .. p + m - 1) \cap (q .. q + n - 1) = {}
  PROVE  \A a, b : a = dst + (p - src) /\ b = dst + (q - src)
                     => (a .. a + m - 1) \cap (b .. b + n - 1) = {}
<1> SUFFICES ASSUME NEW a, NEW b, a = dst + (p - src), b = dst + (q - src)
             PROVE  (a .. a + m - 1) \cap (b .. b + n - 1) = {}
  OBVIOUS
<1> SUFFICES ASSUME NEW o \in a .. a + m - 1, o \in b .. b + n - 1 PROVE FALSE
  OBVIOUS
<1> DEFINE x == (o - dst) + src
<1>1. x \in p .. p + m - 1 /\ x \in q .. q + n - 1
  OBVIOUS
<1> QED
  BY <1>1

LEMMA Repacked ==
  ASSUME entries \in Seq(DirEntry)
  PROVE  /\ Regions \in Seq(Region) /\ Total \in Nat
         /\ \A i \in 1 .. Len(Regions) : Regions[i] \in Region /\ RegionEnd(Regions[i]) <= Total
         /\ \A i, j \in 1 .. Len(Regions) : i < j => RegionEnd(Regions[i]) <= Regions[j].dst
         /\ \A i \in 1 .. Len(Regions) : \E j \in 1 .. Len(entries) :
              Regions[i].src = entries[j].offset /\ Regions[i].len = entries[j].length
         /\ \A j \in 1 .. Len(entries) : \E i \in 1 .. Len(Regions) : InRegion(entries[j], Regions[i])
         /\ Regions # <<>> => Len(Regions) \in 1 .. Len(Regions) /\ Total = RegionEnd(Regions[Len(Regions)])
         /\ Regions = <<>> => Total = 0
<1> DEFINE n  == Len(entries)
           es == Order(entries)[n]
           rs == RegionsOf(es)[n]
<1>1. /\ es \in Seq(DirEntry) /\ Len(es) = n
      /\ \A i \in 1 .. Len(es) : \E j \in 1 .. n : es[i] = entries[j]
      /\ \A j \in 1 .. n : \E i \in 1 .. Len(es) : es[i] = entries[j]
  BY Ordered
<1> HIDE DEF es
<1>2. Tiles(rs, es, n)
  BY <1>1, RegionsTile
<1>3. rs = Regions
  BY DEF Regions, es
<1> HIDE DEF rs
<1>4. /\ Packed(rs) \in Nat /\ \A i \in 1 .. Len(rs) : rs[i] \in Region /\ RegionEnd(rs[i]) <= Packed(rs)
      /\ rs # <<>> => /\ Len(rs) \in 1 .. Len(rs) /\ Last(rs) = rs[Len(rs)]
                      /\ Packed(rs) = RegionEnd(rs[Len(rs)])
  BY <1>2, TileEnds
<1>5. Total = Packed(rs) /\ (rs = <<>> => Packed(rs) = 0)
  BY <1>3 DEF Total, Packed
<1>6. ASSUME NEW i \in 1 .. Len(rs)
      PROVE  \E j \in 1 .. n : rs[i].src = entries[j].offset /\ rs[i].len = entries[j].length
  <2>1. PICK l \in 1 .. n : rs[i].src = es[l].offset /\ rs[i].len = es[l].length
    BY <1>2 DEF Tiles
  <2>2. PICK j \in 1 .. n : es[l] = entries[j]
    BY <1>1
  <2> QED
    BY <2>1, <2>2
<1>7. ASSUME NEW j \in 1 .. n
      PROVE  \E i \in 1 .. Len(rs) : InRegion(entries[j], rs[i])
  <2>1. PICK l \in 1 .. n : es[l] = entries[j]
    BY <1>1
  <2>2. PICK i \in 1 .. Len(rs) : InRegion(es[l], rs[i])
    BY <1>2 DEF Tiles
  <2> QED
    BY <2>1, <2>2
<1>8. rs \in Seq(Region) /\ \A i, j \in 1 .. Len(rs) : i < j => RegionEnd(rs[i]) <= rs[j].dst
  BY <1>2 DEF Tiles
<1> QED
  BY <1>3, <1>4, <1>5, <1>6, <1>7, <1>8

\* When every region moves down, the packed files end no later than the log.
LEMMA TotalFits ==
  ASSUME Volume, Sound
  PROVE  Total \in Nat /\ Total <= write_ptr
<1>1. write_ptr \in Nat /\ entries \in Seq(DirEntry)
  BY Sizes DEF Volume
<1>2. CASE Regions = <<>>
  BY <1>1, <1>2, Repacked
<1>3. CASE Regions # <<>>
  <2> DEFINE r == Regions[Len(Regions)]
  <2>1. /\ Len(Regions) \in 1 .. Len(Regions) /\ Total = RegionEnd(r) /\ r \in Region
        /\ Total \in Nat /\ DOMAIN Regions = 1 .. Len(Regions)
    BY <1>1, <1>3, Repacked
  <2>2. r.dst <= r.src
    BY <2>1 DEF Sound
  <2>3. PICK j \in 1 .. Len(entries) : r.src = entries[j].offset /\ r.len = entries[j].length
    BY <1>1, <2>1, Repacked
  <2>4. r.src + r.len <= write_ptr
    BY <2>3 DEF Volume, Placed
  <2> HIDE DEF r
  <2> QED
    BY <1>1, <2>1, <2>2, <2>4 DEF RegionEnd, Region
<1> QED
  BY <1>2, <1>3

\* The region an entry moves with.
Home(k) == Regions[Min({i \in DOMAIN Regions : InRegion(entries[k], Regions[i])})]

LEMMA Moving ==
  ASSUME entries \in Seq(DirEntry), NEW k \in 1 .. Len(entries)
  PROVE  \E i \in 1 .. Len(Regions) :
           /\ Home(k) = Regions[i] /\ Regions[i] \in Region
           /\ NewOffset(entries[k]) = Regions[i].dst + (entries[k].offset - Regions[i].src)
           /\ NewOffset(entries[k]) \in Nat /\ Regions[i].dst <= NewOffset(entries[k])
           /\ NewOffset(entries[k]) + entries[k].length <= RegionEnd(Regions[i])
           /\ RegionEnd(Regions[i]) <= Total
           /\ Sound => NewOffset(entries[k]) <= entries[k].offset
<1> DEFINE e == entries[k]
           S == {i \in DOMAIN Regions : InRegion(e, Regions[i])}
           i == Min(S)
           r == Regions[i]
<1>1. /\ DOMAIN Regions = 1 .. Len(Regions)
      /\ \A j \in 1 .. Len(Regions) : Regions[j] \in Region /\ RegionEnd(Regions[j]) <= Total
      /\ \E j \in 1 .. Len(Regions) : InRegion(e, Regions[j])
  <2>1. Regions \in Seq(Region)
    BY Repacked
  <2>2. DOMAIN Regions = 1 .. Len(Regions)
    BY ONLY <2>1
  <2> HIDE DEF S, i, r
  <2> QED
    BY <2>2, Repacked
<1>2. e \in DirEntry
  OBVIOUS
<1>3. i \in 1 .. Len(Regions) /\ InRegion(e, r)
  <2>1. S \in SUBSET Nat /\ S # {}
    BY <1>1
  <2>2. Min(S) \in S
    BY ONLY <2>1, MinFacts
  <2> QED
    BY <1>1, <2>2
<1>4. Home(k) = r /\ NewOffset(e) = r.dst + (e.offset - r.src)
  BY DEF Home, NewOffset
<1>5. r \in Region /\ RegionEnd(r) <= Total /\ (Sound => r.dst <= r.src)
  BY <1>1, <1>3 DEF Sound
<1> HIDE DEF e, i
<1> HIDE DEF r
<1>6. /\ NewOffset(e) \in Nat /\ r.dst <= NewOffset(e) /\ NewOffset(e) + e.length <= RegionEnd(r)
      /\ Sound => NewOffset(e) <= e.offset
  <2>1. e.offset \in Nat /\ e.length \in Nat
    BY ONLY <1>2 DEF DirEntry
  <2>2. r.src \in Nat /\ r.dst \in Nat /\ r.len \in Nat
    BY ONLY <1>5 DEF Region
  <2>3. r.src <= e.offset /\ e.offset + e.length <= r.src + r.len
    BY ONLY <1>3 DEF InRegion
  <2> DEFINE to == r.dst + (e.offset - r.src)
  <2>4. to \in Nat /\ r.dst <= to /\ to + e.length <= r.dst + r.len /\ (r.dst <= r.src => to <= e.offset)
    BY ONLY <2>1, <2>2, <2>3, Shift
  <2> HIDE DEF to
  <2>5. NewOffset(e) = to /\ RegionEnd(r) = r.dst + r.len
    BY <1>4 DEF to, RegionEnd
  <2> QED
    BY ONLY <1>5, <2>4, <2>5
<1> QED
  BY <1>3, <1>4, <1>5, <1>6 DEF r, e

\* The directory after packing.
Moved == [k \in DOMAIN entries |-> [entries[k] EXCEPT !.offset = NewOffset(entries[k])]]

LEMMA MovedApart ==
  ASSUME entries \in Seq(DirEntry), Nest(entries)
  PROVE  /\ Moved \in Seq(DirEntry) /\ Len(Moved) = Len(entries)
         /\ \A k \in 1 .. Len(entries) :
              /\ Moved[k].name = entries[k].name /\ Moved[k].length = entries[k].length
              /\ Moved[k].offset = NewOffset(entries[k])
         /\ Placed(Moved, Total) /\ Nest(Moved)
<1> DEFINE n == Len(entries)
<1>1. n \in Nat /\ DOMAIN entries = 1 .. n /\ \A k \in 1 .. n : entries[k] \in DirEntry
  OBVIOUS
<1>2. \A k \in 1 .. n : /\ NewOffset(entries[k]) \in Nat
                        /\ NewOffset(entries[k]) + entries[k].length <= Total
  <2> SUFFICES ASSUME NEW k \in 1 .. n
               PROVE  /\ NewOffset(entries[k]) \in Nat
                      /\ NewOffset(entries[k]) + entries[k].length <= Total
    OBVIOUS
  <2>1. PICK i \in 1 .. Len(Regions) :
           /\ Regions[i] \in Region /\ NewOffset(entries[k]) \in Nat
           /\ NewOffset(entries[k]) + entries[k].length <= RegionEnd(Regions[i])
           /\ RegionEnd(Regions[i]) <= Total
    BY Moving
  <2>2. RegionEnd(Regions[i]) \in Nat /\ Total \in Nat /\ entries[k].length \in Nat
    <3>1. Total \in Nat /\ entries[k] \in DirEntry
      BY <1>1, Repacked
    <3>2. Regions[i].dst \in Nat /\ Regions[i].len \in Nat
      BY ONLY <2>1 DEF Region
    <3>3. entries[k].length \in Nat
      BY ONLY <3>1 DEF DirEntry
    <3>4. RegionEnd(Regions[i]) \in Nat
      BY ONLY <3>2, EndIsNat
    <3> QED
      BY ONLY <3>1, <3>3, <3>4
  <2> DEFINE x == NewOffset(entries[k]) + entries[k].length
             y == RegionEnd(Regions[i])
  <2>3. x \in Nat /\ x <= y /\ y <= Total
    BY ONLY <2>1, <2>2
  <2> HIDE DEF x, y
  <2>4. y \in Nat /\ Total \in Nat
    BY <2>2 DEF y
  <2>5. x <= Total
    BY ONLY <2>3, <2>4
  <2> QED
    BY <2>1, <2>5 DEF x
<1>3. \A k \in 1 .. n : /\ Moved[k] \in DirEntry
                        /\ Moved[k].name = entries[k].name /\ Moved[k].length = entries[k].length
                        /\ Moved[k].offset = NewOffset(entries[k])
  BY <1>1, <1>2 DEF Moved, DirEntry
<1>4. Moved \in Seq(DirEntry) /\ Len(Moved) = n
  BY <1>1, <1>3 DEF Moved
<1>5. Placed(Moved, Total)
  BY <1>2, <1>3, <1>4 DEF Placed
<1>6. ASSUME NEW k \in 1 .. n, NEW l \in 1 .. n, Moved[k].offset # Moved[l].offset
      PROVE  Extent(Moved[k]) \cap Extent(Moved[l]) = {}
  <2> DEFINE a == NewOffset(entries[k])
             b == NewOffset(entries[l])
             p == entries[k]
             q == entries[l]
  <2>1. PICK i \in 1 .. Len(Regions) :
          /\ Regions[i] \in Region /\ a = Regions[i].dst + (p.offset - Regions[i].src)
          /\ a \in Nat /\ Regions[i].dst <= a /\ a + p.length <= RegionEnd(Regions[i])
    BY Moving
  <2>2. PICK j \in 1 .. Len(Regions) :
          /\ Regions[j] \in Region /\ b = Regions[j].dst + (q.offset - Regions[j].src)
          /\ b \in Nat /\ Regions[j].dst <= b /\ b + q.length <= RegionEnd(Regions[j])
    BY Moving
  <2>3. /\ Extent(Moved[k]) = a .. a + p.length - 1 /\ Extent(Moved[l]) = b .. b + q.length - 1
        /\ a # b /\ p \in DirEntry /\ q \in DirEntry
    BY <1>1, <1>3, <1>6 DEF Extent
  <2>4. p.offset = q.offset \/ Extent(p) \cap Extent(q) = {}
    BY DEF Nest
  <2> HIDE DEF a, b, p, q
  <2>5. p.offset \in Nat /\ p.length \in Nat /\ q.offset \in Nat /\ q.length \in Nat
    BY ONLY <2>3 DEF DirEntry
  <2>6. /\ Regions[i].dst \in Nat /\ Regions[i].src \in Nat /\ Regions[i].len \in Nat
        /\ Regions[j].dst \in Nat /\ Regions[j].src \in Nat /\ Regions[j].len \in Nat
    BY ONLY <2>1, <2>2 DEF Region
  <2>7. CASE i = j
    <3>1. p.offset # q.offset
      BY ONLY <2>1, <2>2, <2>3, <2>7
    <3>2. (p.offset .. p.offset + p.length - 1) \cap (q.offset .. q.offset + q.length - 1) = {}
      BY ONLY <2>4, <3>1 DEF Extent
    <3> DEFINE src == Regions[i].src
               dst == Regions[i].dst
    <3>3. src \in Nat /\ dst \in Nat /\ a = dst + (p.offset - src) /\ b = dst + (q.offset - src)
      BY <2>1, <2>2, <2>6, <2>7
    <3> DEFINE pf == p.offset
               pl == p.length
               qf == q.offset
               ql == q.length
    <3>4. /\ pf \in Nat /\ pl \in Nat /\ qf \in Nat /\ ql \in Nat /\ src \in Nat /\ dst \in Nat
          /\ (pf .. pf + pl - 1) \cap (qf .. qf + ql - 1) = {}
          /\ a = dst + (pf - src) /\ b = dst + (qf - src)
      BY <2>5, <3>2, <3>3
    <3> HIDE DEF src, dst, pf, pl, qf, ql
    <3>5. (a .. a + pl - 1) \cap (b .. b + ql - 1) = {}
      BY ONLY <3>4, Slide
    <3> QED
      BY ONLY <2>3, <3>5 DEF pl, ql
  <2>8. CASE i < j
    <3>1. RegionEnd(Regions[i]) <= Regions[j].dst
      BY <2>8, Repacked
    <3> DEFINE x == RegionEnd(Regions[i])
               y == Regions[j].dst
    <3>4. x \in Nat /\ y \in Nat
      BY ONLY <2>6, EndIsNat
    <3>5. a \in Nat /\ b \in Nat /\ a + p.length <= x /\ y <= b /\ x <= y
      BY <2>1, <2>2, <3>1
    <3> HIDE DEF x, y
    <3>2. a + p.length <= b
      BY ONLY <2>5, <3>4, <3>5
    <3>3. (a .. a + p.length - 1) \cap (b .. b + q.length - 1) = {}
      <4> DEFINE lm == p.length
                 ln == q.length
      <4>1. a \in Nat /\ b \in Nat /\ lm \in Nat /\ ln \in Nat /\ a + lm <= b
        BY ONLY <2>1, <2>2, <2>5, <3>2
      <4> HIDE DEF lm, ln
      <4>2. (a .. a + lm - 1) \cap (b .. b + ln - 1) = {}
        BY ONLY <4>1, Apart
      <4> QED
        BY ONLY <4>2 DEF lm, ln
    <3> QED
      BY ONLY <2>3, <3>3
  <2>9. CASE j < i
    <3>1. RegionEnd(Regions[j]) <= Regions[i].dst
      BY <2>9, Repacked
    <3> DEFINE x == RegionEnd(Regions[j])
               y == Regions[i].dst
    <3>4. x \in Nat /\ y \in Nat
      BY ONLY <2>6, EndIsNat
    <3>5. a \in Nat /\ b \in Nat /\ b + q.length <= x /\ y <= a /\ x <= y
      BY <2>1, <2>2, <3>1
    <3> HIDE DEF x, y
    <3>2. b + q.length <= a
      BY ONLY <2>5, <3>4, <3>5
    <3>3. (b .. b + q.length - 1) \cap (a .. a + p.length - 1) = {}
      <4> DEFINE lm == q.length
                 ln == p.length
      <4>1. a \in Nat /\ b \in Nat /\ lm \in Nat /\ ln \in Nat /\ b + lm <= a
        BY ONLY <2>1, <2>2, <2>5, <3>2
      <4> HIDE DEF lm, ln
      <4>2. (b .. b + lm - 1) \cap (a .. a + ln - 1) = {}
        BY ONLY <4>1, Apart
      <4> QED
        BY ONLY <4>2 DEF lm, ln
    <3> QED
      BY ONLY <2>3, <3>3
  <2>10. i < j \/ i = j \/ j < i
    <3>1. Len(Regions) \in Nat
      BY Repacked
    <3> QED
      BY <3>1
  <2> QED
    BY <2>7, <2>8, <2>9, <2>10
<1>7. Nest(Moved)
  BY <1>4, <1>6 DEF Nest
<1> QED
  BY <1>3, <1>4, <1>5, <1>7

(***************************************************************************)
(* Steps of the volume, and of an operation that returns.                  *)
(***************************************************************************)
LEMMA DataTyped ==
  /\ \A s : EraseSector(s) => data' = [o \in Offsets |-> data'[o]]
  /\ \A o, cells, k : Program(o, cells, k) => data' = [c \in Offsets |-> data'[c]]
  /\ \A o, cells, k : Program(o, cells, k) =>
       \A c \in Offsets : data'[c] = IF c \in o .. o + k - 1 THEN cells[c - o + 1] ELSE data[c]
<1> DEFINE new(o, cells, k) ==
             [c \in Offsets |-> IF c \in o .. o + k - 1 THEN cells[c - o + 1] ELSE data[c]]
           wiped(s) == [o \in Offsets |-> IF o \in Cells(s) THEN ERASED ELSE data[o]]
<1>1. ASSUME NEW s, data' = wiped(s) PROVE data' = [o \in Offsets |-> data'[o]]
  BY <1>1
<1>2. ASSUME NEW o, NEW cells, NEW k, data' = new(o, cells, k)
      PROVE  /\ data' = [c \in Offsets |-> data'[c]]
             /\ \A c \in Offsets :
                  data'[c] = IF c \in o .. o + k - 1 THEN cells[c - o + 1] ELSE data[c]
  BY <1>2
<1> QED
  BY <1>1, <1>2 DEF EraseSector, Program

LEMMA Kept ==
  ASSUME Volume, UNCHANGED <<dir, ram>>, data' = [o \in Offsets |-> data'[o]]
  PROVE  Volume'
  BY DEF Volume, ram, DirsPlaced

\* A new directory in RAM, of files where there were files.
LEMMA Listed ==
  ASSUME Volume, entries' \in Seq(DirEntry), Within(entries', entries),
         UNCHANGED <<data, dir, dir_sector, generation, write_ptr>>
  PROVE  Volume'
<1>1. Placed(entries', write_ptr) /\ Nest(entries')
  BY WithinKeeps DEF Volume
<1> QED
  BY <1>1 DEF Volume, DirsPlaced

LEMMA AtIdle ==
  ASSUME Return
  PROVE  Control'
  BY DEF Return, NoJob, Control, Phases, JobInv, RoomInv, StageInv, DirPhase, CompactPhase, WritePhase

LEMMA Ends ==
  ASSUME NEW ents \in Seq(DirEntry), Placed(ents, DATA)
  PROVE  EndOfFiles(ents) \in 0 .. DATA /\ Placed(ents, EndOfFiles(ents))
<1> DEFINE S == {0} \cup {ents[i].offset + ents[i].length : i \in 1 .. Len(ents)}
<1>1. \A i \in 1 .. Len(ents) : ents[i] \in DirEntry
  OBVIOUS
<1>2. \A i \in 1 .. Len(ents) : ents[i].offset + ents[i].length \in 0 .. DATA
  BY <1>1, Sizes DEF Placed, DirEntry
<1>3. S \in SUBSET Nat /\ S # {} /\ DATA \in Nat /\ \A x \in S : x <= DATA
  BY <1>2, Sizes
<1>4. \A i \in 1 .. Len(ents) : ents[i].offset + ents[i].length \in S
  OBVIOUS
<1>5. EndOfFiles(ents) = Max(S)
  BY DEF EndOfFiles
<1> HIDE DEF S
<1>6. Max(S) \in S /\ \A y \in S : y <= Max(S)
  BY ONLY <1>3, MaxFacts
<1>7. Max(S) \in 0 .. DATA
  <2>1. \A x \in S : x \in 0 .. DATA
    BY ONLY <1>3
  <2> QED
    BY <1>6, <2>1
<1> QED
  BY <1>4, <1>5, <1>6, <1>7 DEF Placed

LEMMA TailFacts ==
  ASSUME NEW d, NEW ptr \in 0 .. DATA
  PROVE  /\ Tail_(d, ptr) \in 0 .. DATA /\ ptr <= Tail_(d, ptr)
         /\ \A o \in Offsets : Tail_(d, ptr) <= o => d[o] = ERASED
<1> DEFINE S == {ptr} \cup {i + 1 : i \in {j \in Offsets : d[j] # ERASED}}
<1>1. S \in SUBSET Nat /\ S # {} /\ DATA \in Nat /\ (\A x \in S : x <= DATA) /\ ptr \in S
  BY Sizes
<1>2. \A o \in Offsets : d[o] # ERASED => o + 1 \in S
  OBVIOUS
<1>3. Tail_(d, ptr) = Max(S)
  BY DEF Tail_
<1> HIDE DEF S
<1>4. Max(S) \in S /\ \A y \in S : y <= Max(S)
  BY ONLY <1>1, MaxFacts
<1>5. Max(S) \in 0 .. DATA /\ ptr <= Max(S)
  <2>1. \A x \in S : x \in 0 .. DATA
    BY ONLY <1>1
  <2> QED
    BY <1>1, <1>4, <2>1
<1>6. ASSUME NEW o \in Offsets, Max(S) <= o PROVE d[o] = ERASED
  <2>1. o \in Nat
    BY Sizes
  <2>2. d[o] # ERASED => o + 1 <= Max(S)
    BY <1>2, <1>4
  <2> QED
    BY <1>5, <1>6, <2>1, <2>2
<1> QED
  BY <1>3, <1>5, <1>6

LEMMA Scanned ==
  ASSUME NEW d, NEW ptr \in 0 .. DATA, NEW t \in ScanTail(d, ptr)
  PROVE  /\ t \in 0 .. DATA /\ ptr <= t
         /\ "read" \notin Faults => \A o \in Offsets : t <= o => d[o] = ERASED
<1>1. t = Tail_(d, ptr) \/ ("read" \in Faults /\ t = ptr)
  BY DEF ScanTail
<1>2. ptr <= ptr
  BY Sizes
<1> QED
  BY <1>1, <1>2, TailFacts

(***************************************************************************)
(* The invariant, step by step.                                            *)
(***************************************************************************)
LEMMA FInit == Init => FInv
<1> SUFFICES ASSUME Init PROVE FInv
  OBVIOUS
<1>1. Volume
  <2>1. dir \in [0 .. 1 -> Header] /\ \A s \in 0 .. 1 : dir[s].ents = <<>> /\ dir[s].count = 0
    BY DEF Init, ErasedDir, Header
  <2>2. DirsPlaced
    BY <2>1, NoEntries DEF DirsPlaced
  <2>3. 0 \in 0 .. DATA
    BY Sizes
  <2> QED
    BY <2>1, <2>2, <2>3 DEF Init, Volume, Placed, Nest
<1>2. Control
  BY DEF Init, NoJob, Control, Phases, JobInv, RoomInv, StageInv, DirPhase, CompactPhase, WritePhase
<1> QED
  BY <1>1, <1>2 DEF FInv

LEMMA MountStep ==
  ASSUME FInv, NEW bad \in SUBSET {0, 1}, mount(bad)
  PROVE  FInv'
<1> DEFINE s == Newest({0, 1} \ bad)
           e == SubSeq(dir[s].ents, 1, dir[s].count)
<1>1. s \in 0 .. 1
  BY DEF Newest
<1>2. /\ entries' = e /\ dir_sector' = s /\ generation' = dir[s].gen
      /\ write_ptr' \in ScanTail(data, EndOfFiles(e)) /\ UNCHANGED <<data, dir>> /\ Return
  BY DEF mount, flash
<1> HIDE DEF s
<1>3. /\ dir[s].ents \in Seq(DirEntry) /\ dir[s].count \in 0 .. Len(dir[s].ents) /\ dir[s].gen \in Nat
      /\ Placed(dir[s].ents, DATA) /\ Nest(dir[s].ents)
  <2>1. dir[s] \in Header
    BY <1>1 DEF FInv, Volume
  <2> QED
    BY <1>1, <2>1 DEF FInv, Volume, DirsPlaced, Header
<1>4. e \in Seq(DirEntry) /\ Placed(e, DATA) /\ Nest(e)
  BY <1>3, PrefixWithin, WithinKeeps
<1> HIDE DEF e
<1>5. EndOfFiles(e) \in 0 .. DATA /\ Placed(e, EndOfFiles(e))
  BY <1>4, Ends
<1>6. write_ptr' \in 0 .. DATA /\ EndOfFiles(e) <= write_ptr'
  BY <1>2, <1>5, Scanned
<1>7. Placed(e, write_ptr')
  BY <1>4, <1>5, <1>6, PlacedMore, Sizes
<1>8. Volume'
  BY <1>1, <1>2, <1>3, <1>4, <1>6, <1>7 DEF FInv, Volume, DirsPlaced
<1> QED
  BY <1>2, <1>8, AtIdle DEF FInv

LEMMA FormatStep ==
  ASSUME FInv, NEW bad, format(bad)
  PROVE  FInv'
<1>1. Formatted /\ Return
  BY DEF format
<1>2. dir' \in [0 .. 1 -> Header] /\ \A s \in 0 .. 1 : dir'[s].ents = <<>> /\ dir'[s].count = 0
  <2> DEFINE one == [valid |-> TRUE, gen |-> 1, count |-> 0, ents |-> <<>>]
             none == [valid |-> FALSE, gen |-> 0, count |-> 0, ents |-> <<>>]
  <2>1. <<>> \in Seq(DirEntry)
    OBVIOUS
  <2>2. one \in Header /\ none \in Header
    BY <2>1 DEF Header
  <2>3. dir' = [s \in 0 .. 1 |-> IF s = 0 THEN one ELSE none]
    BY <1>1 DEF Formatted, ErasedDir
  <2>4. one.ents = <<>> /\ one.count = 0 /\ none.ents = <<>> /\ none.count = 0
    OBVIOUS
  <2> HIDE DEF one, none
  <2> QED
    BY <2>2, <2>3, <2>4
<1>3. DirsPlaced'
  BY <1>2, NoEntries DEF DirsPlaced
<1>4. 0 \in 0 .. DATA /\ 0 \in 0 .. 1
  BY Sizes
<1>5. Volume'
  BY <1>1, <1>2, <1>3, <1>4 DEF Formatted, Volume, Placed, Nest
<1> QED
  BY <1>1, <1>5, AtIdle DEF FInv

\* An operation that only changes the directory, as far as its first flash call.
LEMMA PersistStep ==
  ASSUME FInv, AtRest, Persist, entries' \in Seq(DirEntry), Within(entries', entries),
         UNCHANGED <<dir_sector, generation, write_ptr>>
  PROVE  FInv'
<1>1. UNCHANGED <<data, dir>> /\ pc' = "dir_erase" /\ UNCHANGED <<job, at, done, compacting, sector, g_buf>>
  BY DEF Persist, flash, append, pack
<1>2. Volume'
  BY <1>1, Listed DEF FInv
<1>3. ~compacting /\ sector = 0
  BY DEF FInv, Control, JobInv, AtRest
<1>4. Control'
  BY <1>1, <1>3 DEF FInv, Control, Phases, JobInv, RoomInv, StageInv, DirPhase, CompactPhase, WritePhase
<1> QED
  BY <1>2, <1>4 DEF FInv

LEMMA RemoveStep ==
  ASSUME FInv, NEW n, fs_remove(n)
  PROVE  FInv'
<1>1. entries \in Seq(DirEntry)
  BY DEF FInv, Volume
<1>2. find(n) \in 1 .. Len(entries) /\ entries' = RemoveAt(entries, find(n))
  BY <1>1, Found DEF fs_remove
<1>3. entries' \in Seq(DirEntry) /\ Within(entries', entries)
  BY <1>1, <1>2, RemovedWithin
<1> QED
  BY <1>3, PersistStep DEF fs_remove

LEMMA RenamedWithin ==
  ASSUME entries \in Seq(DirEntry), NEW i \in 1 .. Len(entries), NEW m \in Names
  PROVE  LET r == [entries EXCEPT ![i].name = m] IN
         /\ r \in Seq(DirEntry) /\ Len(r) = Len(entries) /\ Within(r, entries)
         /\ \A k \in 1 .. Len(entries) :
              r[k] = IF k = i THEN [entries[i] EXCEPT !.name = m] ELSE entries[k]
<1> DEFINE e == [entries[i] EXCEPT !.name = m]
           r == [entries EXCEPT ![i] = e]
<1>1. entries[i] \in DirEntry
  OBVIOUS
<1>2. e \in DirEntry /\ e.offset = entries[i].offset /\ e.length = entries[i].length
  BY <1>1 DEF DirEntry
<1> HIDE DEF e
<1>3. /\ r \in Seq(DirEntry) /\ Len(r) = Len(entries)
      /\ \A k \in 1 .. Len(entries) : r[k] = IF k = i THEN e ELSE entries[k]
  BY <1>2
<1> HIDE DEF r
<1>4. Within(r, entries)
  BY <1>2, <1>3 DEF Within
<1> QED
  BY <1>3, <1>4 DEF r, e

LEMMA RenameStep ==
  ASSUME FInv, NEW old \in Names, NEW new \in Names, fs_rename(old, new)
  PROVE  FInv'
<1> DEFINE i == find(old)
           j == Replaced(old, new)
           r == [entries EXCEPT ![i].name = Truncated[new]]
<1>1. entries \in Seq(DirEntry)
  BY DEF FInv, Volume
<1>2. /\ i \in 1 .. Len(entries) /\ j \in 0 .. Len(entries)
      /\ entries' = IF j # 0 THEN RemoveAt(r, j) ELSE r
  BY <1>1, Found DEF fs_rename, Replaced
<1>3. Truncated[new] \in Names
  BY NamesAssumption
<1> HIDE DEF i, j
<1>4. r \in Seq(DirEntry) /\ Len(r) = Len(entries) /\ Within(r, entries)
  BY <1>1, <1>2, <1>3, RenamedWithin
<1> HIDE DEF r
<1>5. entries' \in Seq(DirEntry) /\ Within(entries', entries)
  <2>1. CASE j = 0
    BY <1>2, <1>4, <2>1
  <2>2. CASE j # 0
    <3>1. j \in 1 .. Len(r) /\ entries' = RemoveAt(r, j)
      BY <1>1, <1>2, <1>4, <2>2
    <3>2. RemoveAt(r, j) \in Seq(DirEntry) /\ Within(RemoveAt(r, j), r)
      BY <1>4, <3>1, RemovedWithin
    <3>3. Within(RemoveAt(r, j), entries)
      BY <1>4, <3>2 DEF Within
    <3> QED
      BY <3>1, <3>2, <3>3
  <2> QED
    BY <2>1, <2>2
<1> QED
  BY <1>5, PersistStep DEF fs_rename

LEMMA AppendedWithin ==
  ASSUME NEW s \in Seq(DirEntry), NEW e \in DirEntry, entries \in Seq(DirEntry), Within(s, entries),
         NEW j \in 1 .. Len(entries), e.offset = entries[j].offset, e.length = entries[j].length
  PROVE  Append(s, e) \in Seq(DirEntry) /\ Within(Append(s, e), entries)
<1> DEFINE r == Append(s, e)
<1>1. /\ r \in Seq(DirEntry) /\ Len(r) = Len(s) + 1 /\ r[Len(s) + 1] = e /\ Len(s) \in Nat
      /\ \A k \in 1 .. Len(s) : r[k] = s[k]
  OBVIOUS
<1> HIDE DEF r
<1>2. ASSUME NEW k \in 1 .. Len(r)
      PROVE  \E l \in 1 .. Len(entries) : r[k].offset = entries[l].offset /\ r[k].length = entries[l].length
  <2>1. CASE k = Len(s) + 1
    BY <1>1, <2>1
  <2>2. CASE k # Len(s) + 1
    <3>1. k \in 1 .. Len(s)
      BY <1>1, <2>2
    <3> QED
      BY <1>1, <3>1 DEF Within
  <2> QED
    BY <2>1, <2>2
<1> QED
  BY <1>1, <1>2 DEF Within, r

LEMMA CopyStep ==
  ASSUME FInv, NEW src \in Names, NEW dst \in Names, fs_copy(src, dst)
  PROVE  FInv'
<1> DEFINE rest == IF find(dst) = 0 THEN entries ELSE RemoveAt(entries, find(dst))
           e == [entries[find(src)] EXCEPT !.name = Truncated[dst]]
<1>1. entries \in Seq(DirEntry)
  BY DEF FInv, Volume
<1>2. find(src) \in 1 .. Len(entries) /\ entries[find(src)] \in DirEntry /\ entries' = Append(rest, e)
  BY <1>1, Found DEF fs_copy
<1>3. rest \in Seq(DirEntry) /\ Within(rest, entries)
  <2>1. CASE find(dst) = 0
    BY <1>1, <2>1 DEF Within
  <2>2. CASE find(dst) # 0
    <3>1. find(dst) \in 1 .. Len(entries)
      BY <1>1, <2>2, Found
    <3> QED
      BY <1>1, <2>2, <3>1, RemovedWithin
  <2> QED
    BY <2>1, <2>2
<1>4. e \in DirEntry /\ e.offset = entries[find(src)].offset /\ e.length = entries[find(src)].length
  BY <1>2, NamesAssumption DEF DirEntry
<1> HIDE DEF rest, e
<1>5. entries' \in Seq(DirEntry) /\ Within(entries', entries)
  BY <1>1, <1>2, <1>3, <1>4, AppendedWithin
<1> QED
  BY <1>5, PersistStep DEF fs_copy

LEMMA LineFacts ==
  ASSUME NEW text \in Texts
  PROVE  Line(text \o <<EOL>>) /\ Len(text \o <<EOL>>) = Len(text) + 1 /\ Len(text) \in Nat
<1> DEFINE A == ToSet(text)
           B == A \cup {EOL}
           s == text \o <<EOL>>
<1>1. text \in Seq(A)
  BY TextsAssumption
<1> HIDE DEF A
<1>2. text \in Seq(B) /\ EOL \in B
  BY <1>1
<1> HIDE DEF B
<1>3. s \in Seq(B) /\ Len(s) = Len(text) + 1 /\ Len(text) \in Nat
  BY <1>2
<1>4. s # <<>>
  BY <1>3
<1> QED
  BY <1>3, <1>4 DEF Line

LEMMA AppendLineStep ==
  ASSUME FInv, NEW n \in Names, NEW text \in Texts, fs_append_line(n, text)
  PROVE  FInv'
<1>1. /\ job' = [name |-> n, todo |-> text \o <<EOL>>] /\ compacting' \in BOOLEAN
      /\ pc' = IF compacting' THEN "compact" ELSE "append"
      /\ UNCHANGED <<data, dir, entries, dir_sector, generation, write_ptr, at, done, sector, g_buf>>
  BY DEF fs_append_line, flash, ram
<1>2. Volume'
  BY <1>1, Kept DEF FInv, Volume, ram
<1>3. sector = 0
  BY DEF FInv, Control, JobInv, fs_append_line, AtRest
<1>4. job'.name \in Names /\ Line(job'.todo)
  BY <1>1, LineFacts
<1>5. Control'
  BY <1>1, <1>3, <1>4
     DEF FInv, Control, Phases, JobInv, RoomInv, StageInv, DirPhase, CompactPhase, WritePhase
<1> QED
  BY <1>2, <1>5 DEF FInv

(***************************************************************************)
(* Compaction.                                                             *)
(***************************************************************************)
LEMMA SameRegions ==
  ASSUME entries' = entries
  PROVE  /\ Regions' = Regions /\ Total' = Total /\ DestSectors' = DestSectors /\ Sound' = Sound
         /\ Moved' = Moved
  BY DEF Regions, Total, DestSectors, Sound, Moved, NewOffset

\* The cells staged for a sector.
LEMMA StagedFacts ==
  ASSUME Volume, Sound, NEW d \in Nat, d < DestSectors
  PROVE  /\ Staged(d) \in Seq({Source(d * SECTOR + i - 1) : i \in Nat})
         /\ Len(Staged(d)) = Min({Total, (d + 1) * SECTOR}) - d * SECTOR
         /\ d * SECTOR < Total
         /\ Len(Staged(d)) \in 1 .. SECTOR /\ d * SECTOR + Len(Staged(d)) <= Total
         /\ d * SECTOR + Len(Staged(d)) = Total \/ Len(Staged(d)) = SECTOR
         /\ \A i \in 1 .. Len(Staged(d)) : Staged(d)[i] = Source(d * SECTOR + i - 1)
<1> DEFINE lo == d * SECTOR
           hi == (d + 1) * SECTOR
           m  == Min({Total, hi})
<1>1. Total \in Nat /\ SECTOR \in Nat \ {0}
  BY TotalFits, Sizes
<1>2. lo \in Nat /\ hi = lo + SECTOR /\ hi \in Nat
  BY <1>1
<1>3. lo < Total
  <2> DEFINE q == (Total + SECTOR - 1) \div SECTOR
  <2>1. Total + SECTOR - 1 \in Nat
    BY <1>1
  <2>2. q \in Nat /\ SECTOR * q <= Total + SECTOR - 1 /\ d < q
    BY <1>1, <2>1, DivBounds DEF DestSectors
  <2> HIDE DEF q
  <2>3. SECTOR * (d + 1) <= SECTOR * q /\ SECTOR * (d + 1) = lo + SECTOR
    <3>1. d + 1 \in Nat /\ d + 1 <= q
      BY <2>2
    <3>2. SECTOR * (d + 1) <= SECTOR * q
      BY <1>1, <2>2, <3>1, TimesMonotone
    <3>3. SECTOR * (d + 1) = lo + SECTOR
      BY <1>1
    <3> QED
      BY <3>2, <3>3
  <2>4. SECTOR * q \in Nat
    BY <1>1, <2>2
  <2> HIDE DEF lo
  <2> QED
    BY <1>1, <1>2, <2>2, <2>3, <2>4
<1> HIDE DEF lo, hi
<1>4. m \in {Total, hi} /\ m <= Total /\ m <= hi
  <2>1. {Total, hi} \in SUBSET Nat /\ {Total, hi} # {}
    BY <1>1, <1>2
  <2> QED
    BY <2>1, MinFacts
<1> HIDE DEF m
<1>5. m - lo \in 1 .. SECTOR /\ lo + (m - lo) = m
  BY <1>1, <1>2, <1>3, <1>4
<1>6. Staged(d) = [i \in 1 .. m - lo |-> Source(lo + i - 1)]
  BY DEF Staged, lo, hi, m
<1> DEFINE T == {Source(lo + i - 1) : i \in Nat}
<1>7. \A i \in 1 .. m - lo : Source(lo + i - 1) \in T
  BY <1>5
<1> DEFINE s == [i \in 1 .. m - lo |-> Source(lo + i - 1)]
<1> HIDE DEF T
<1>8. s \in Seq(T) /\ Len(s) = m - lo /\ \A i \in 1 .. m - lo : s[i] = Source(lo + i - 1)
  BY <1>5, <1>7
<1> HIDE DEF s
<1>9. lo + Len(s) <= Total /\ (lo + Len(s) = Total \/ Len(s) = SECTOR)
  BY <1>1, <1>2, <1>4, <1>5, <1>8
<1> QED
  BY <1>3, <1>5, <1>6, <1>8, <1>9 DEF T, s, lo, hi, m

LEMMA StageStep ==
  ASSUME FInv, CompactStage
  PROVE  FInv'
<1>1. /\ pc = "compact" /\ Sound /\ sector < DestSectors /\ g_buf' = Staged(sector)
      /\ pc' = "compact_erase"
      /\ UNCHANGED <<data, dir, entries, dir_sector, generation, write_ptr, job, at, done, compacting, sector>>
  BY DEF CompactStage, flash, ram, append
<1>2. Volume'
  BY <1>1, Kept DEF FInv, Volume, ram
<1>3. /\ Staged(sector) \in Seq({Source(sector * SECTOR + i - 1) : i \in Nat})
      /\ Len(Staged(sector)) = Min({Total, (sector + 1) * SECTOR}) - sector * SECTOR
  BY <1>1, StagedFacts DEF FInv, Control, Phases
<1>4. StageInv'
  BY <1>1, <1>3, SameRegions DEF StageInv
<1>5. Control'
  BY <1>1, <1>4 DEF FInv, Control, Phases, JobInv, RoomInv, DirPhase, CompactPhase, WritePhase
<1> QED
  BY <1>2, <1>5 DEF FInv

LEMMA EraseStep ==
  ASSUME FInv, CompactErase
  PROVE  FInv'
<1>1. /\ pc = "compact_erase" /\ pc' = "compact_write" /\ EraseSector(sector)
      /\ UNCHANGED <<dir, entries, dir_sector, generation, write_ptr, job, at, done, compacting, sector, g_buf>>
  BY DEF CompactErase, ram, append, pack
<1>2. Volume'
  BY <1>1, Kept, DataTyped DEF FInv, ram
<1>3. StageInv'
  BY <1>1, SameRegions DEF FInv, Control, StageInv
<1>4. Control'
  BY <1>1, <1>3 DEF FInv, Control, Phases, JobInv, RoomInv, DirPhase, CompactPhase, WritePhase
<1> QED
  BY <1>2, <1>4 DEF FInv

LEMMA WriteStep ==
  ASSUME FInv, CompactWrite
  PROVE  FInv'
<1>1. /\ pc = "compact_write" /\ pc' = "compact" /\ Program(sector * SECTOR, g_buf, Len(g_buf))
      /\ sector' = sector + 1
      /\ UNCHANGED <<dir, entries, dir_sector, generation, write_ptr, job, at, done, compacting>>
  BY DEF CompactWrite, ram, append
<1>2. Volume'
  BY <1>1, Kept, DataTyped DEF FInv, ram
<1>3. StageInv'
  BY <1>1, SameRegions DEF FInv, Control, StageInv
<1>4. Control'
  BY <1>1, <1>3 DEF FInv, Control, Phases, JobInv, RoomInv, DirPhase, CompactPhase, WritePhase
<1> QED
  BY <1>2, <1>4 DEF FInv

LEMMA EraseRestStep ==
  ASSUME FInv, CompactEraseRest
  PROVE  FInv'
<1>1. /\ pc = "compact" /\ pc' = "compact" /\ EraseSector(sector) /\ Sound /\ sector' = sector + 1
      /\ UNCHANGED <<dir, entries, dir_sector, generation, write_ptr, job, at, done, compacting>>
  BY DEF CompactEraseRest, ram, append
<1>2. Volume'
  BY <1>1, Kept, DataTyped DEF FInv, ram
<1>3. StageInv'
  BY <1>1, SameRegions DEF StageInv
<1>4. Control'
  BY <1>1, <1>3 DEF FInv, Control, Phases, JobInv, RoomInv, DirPhase, CompactPhase, WritePhase
<1> QED
  BY <1>2, <1>4 DEF FInv

LEMMA DoneStep ==
  ASSUME FInv, CompactDone
  PROVE  FInv'
<1>1. /\ pc = "compact" /\ Sound /\ entries' = Moved /\ write_ptr' = Total /\ pc' = "dir_erase"
      /\ UNCHANGED <<data, dir, dir_sector, generation, job, at, done, compacting, sector, g_buf>>
  BY DEF CompactDone, PackedTail, Moved, flash, append, pack
<1>2. Total \in 0 .. DATA
  BY <1>1, TotalFits, Sizes DEF FInv, Volume
<1>3. Moved \in Seq(DirEntry) /\ Placed(Moved, Total) /\ Nest(Moved)
  BY MovedApart DEF FInv, Volume
<1>4. Volume'
  BY <1>1, <1>2, <1>3 DEF FInv, Volume, DirsPlaced
<1>5. Control'
  BY <1>1 DEF FInv, Control, Phases, JobInv, RoomInv, StageInv, DirPhase, CompactPhase, WritePhase
<1> QED
  BY <1>4, <1>5 DEF FInv

(***************************************************************************)
(* Appending.                                                              *)
(***************************************************************************)
LEMMA NoSpaceStep ==
  ASSUME FInv, AppendNoSpace
  PROVE  FInv'
<1>1. UNCHANGED <<data, dir, ram>> /\ Return
  BY DEF AppendNoSpace, flash
<1>2. Volume'
  BY <1>1, Kept DEF FInv, Volume
<1> QED
  BY <1>1, <1>2, AtIdle DEF FInv

LEMMA LineLen ==
  ASSUME NEW s, Line(s)
  PROVE  Len(s) \in Nat \ {0}
  BY DEF Line

LEMMA BeginStep ==
  ASSUME FInv, AppendBegin
  PROVE  FInv'
<1> DEFINE n == job.name
<1>1. /\ pc = "append" /\ Fits(n, job.todo) /\ at' = write_ptr
      /\ done' = (IF AtTail(n) THEN OldLen(n) ELSE 0)
      /\ pc' = (IF done' < OldLen(n) THEN "copy" ELSE "text")
      /\ UNCHANGED <<data, dir, entries, dir_sector, generation, write_ptr, job, compacting, sector, g_buf>>
  BY DEF AppendBegin, flash, ram, pack
<1>2. Volume'
  BY <1>1, Kept DEF FInv, Volume, ram
<1>3. OldLen(n) \in Nat /\ write_ptr \in 0 .. DATA /\ DATA \in Nat
  BY OldLenFacts, Sizes DEF FInv, Volume
<1>4. job.name \in Names /\ Line(job.todo) /\ Len(job.todo) \in Nat \ {0} /\ ~compacting /\ sector = 0
  BY <1>1, LineLen DEF FInv, Control, JobInv
<1>5. write_ptr + Need(n, job.todo) <= DATA
        /\ Need(n, job.todo) = IF AtTail(n) THEN Len(job.todo) ELSE OldLen(n) + Len(job.todo)
  BY <1>1 DEF Fits, Need
<1>6. OldLen(job.name)' = OldLen(n)
  BY <1>1 DEF OldLen, find, Indices
<1> HIDE DEF n
<1>7. /\ pc' = "copy" => done' = 0 /\ at' + (OldLen(n) - done') + Len(job.todo) <= DATA
      /\ pc' = "text" => at' + Len(job.todo) <= DATA
      /\ at' \in Nat /\ done' \in Nat /\ write_ptr <= at'
  BY <1>1, <1>3, <1>4, <1>5
<1>8. RoomInv'
  BY <1>1, <1>6, <1>7 DEF RoomInv
<1>9. Control'
  BY <1>1, <1>4, <1>7, <1>8 DEF FInv, Control, Phases, JobInv, StageInv, DirPhase, CompactPhase, WritePhase
<1> QED
  BY <1>2, <1>9 DEF FInv

\* The chunk a copy is at.
LEMMA ChunkFacts ==
  ASSUME FInv, pc = "copy"
  PROVE  LET e == entries[find(job.name)] IN
         /\ Len(Chunk) \in Nat \ {0} /\ done + Len(Chunk) <= OldLen(job.name)
         /\ find(job.name) \in 1 .. Len(entries) /\ OldLen(job.name) = e.length /\ e.offset \in Nat
         /\ \A i \in 1 .. Len(Chunk) : Chunk[i] = data[e.offset + done + i - 1]
<1> DEFINE n == job.name
           e == entries[find(n)]
           m == Min({e.length, done + FS_BUF})
           c == Content(data, e)
<1>1. done < OldLen(n) /\ done \in Nat
  BY DEF FInv, Control, Phases, RoomInv
<1>2. OldLen(n) \in Nat /\ find(n) \in 1 .. Len(entries) /\ OldLen(n) = e.length /\ e.offset \in Nat
  BY <1>1, OldLenFacts DEF FInv
<1>3. Chunk = SubSeq(c, done + 1, m)
  BY DEF Chunk
<1> HIDE DEF n
<1>4. e.length \in Nat /\ done < e.length
  BY <1>1, <1>2
<1> HIDE DEF e
<1>5. done + FS_BUF \in Nat /\ done + FS_BUF > done
  BY <1>1, GeometryAssumption
<1>6. m \in {e.length, done + FS_BUF} /\ m <= e.length
  <2>1. {e.length, done + FS_BUF} \in SUBSET Nat /\ {e.length, done + FS_BUF} # {}
    BY <1>4, <1>5
  <2> QED
    BY <2>1, MinFacts
<1> HIDE DEF m
<1>7. m \in Nat /\ done < m /\ m <= e.length
  BY <1>4, <1>5, <1>6
<1> DEFINE T == {data[e.offset + i - 1] : i \in 1 .. e.length}
           g == [i \in 1 .. e.length |-> data[e.offset + i - 1]]
<1>8. c = g
  BY DEF Content
<1>9. c \in Seq(T) /\ Len(c) = e.length /\ \A i \in 1 .. e.length : c[i] = data[e.offset + i - 1]
  <2>1. \A i \in 1 .. e.length : data[e.offset + i - 1] \in T
    OBVIOUS
  <2> HIDE DEF T, c
  <2>2. g \in Seq(T) /\ Len(g) = e.length /\ \A i \in 1 .. e.length : g[i] = data[e.offset + i - 1]
    BY <1>4, <2>1
  <2> HIDE DEF g
  <2> QED
    BY <1>8, <2>2
<1> HIDE DEF c, T
<1> DEFINE s == SubSeq(c, done + 1, m)
<1>10. Len(s) = m - done /\ \A i \in 1 .. m - done : s[i] = c[done + i]
  BY <1>1, <1>7, <1>9
<1> HIDE DEF s
<1>11. Len(s) \in Nat \ {0} /\ done + Len(s) <= e.length
  BY <1>1, <1>4, <1>7, <1>10
<1>12. ASSUME NEW i \in 1 .. Len(s) PROVE s[i] = data[e.offset + done + i - 1]
  <2>1. done + i \in 1 .. e.length /\ i \in 1 .. m - done
    BY <1>1, <1>4, <1>7, <1>10
  <2>2. e.offset + (done + i) - 1 = e.offset + done + i - 1
    BY <1>1, <1>2, <2>1
  <2> QED
    BY <1>9, <1>10, <2>1, <2>2
<1>13. Chunk = s
  BY <1>3 DEF s
<1> QED
  BY <1>2, <1>11, <1>12, <1>13 DEF n, e

LEMMA CopyTurnStep ==
  ASSUME FInv, AppendCopy
  PROVE  FInv'
<1>1. /\ pc = "copy" /\ Program(at, Chunk, Len(Chunk))
      /\ at' = at + Len(Chunk) /\ done' = done + Len(Chunk)
      /\ pc' = IF done' < OldLen(job.name) THEN "copy" ELSE "text"
      /\ UNCHANGED <<dir, entries, dir_sector, generation, write_ptr, job, compacting, sector, g_buf>>
  BY DEF AppendCopy, ram, pack
<1>2. Volume'
  BY <1>1, Kept, DataTyped DEF FInv, ram
<1>3. Len(Chunk) \in Nat \ {0} /\ done + Len(Chunk) <= OldLen(job.name)
  BY <1>1, ChunkFacts
<1>4. /\ done < OldLen(job.name) /\ write_ptr <= at /\ at \in Nat /\ done \in Nat /\ DATA \in Nat
      /\ at + (OldLen(job.name) - done) + Len(job.todo) <= DATA
      /\ OldLen(job.name) \in Nat /\ write_ptr \in Nat
  BY <1>1, OldLenFacts, Sizes DEF FInv, Control, Phases, RoomInv, Volume
<1>5. job.name \in Names /\ Line(job.todo) /\ Len(job.todo) \in Nat \ {0} /\ ~compacting /\ sector = 0
  BY <1>1, LineLen DEF FInv, Control, JobInv, WritePhase, CompactPhase
<1>6. OldLen(job.name)' = OldLen(job.name)
  BY <1>1 DEF OldLen, find, Indices
<1>7. /\ pc' = "copy" => at' + (OldLen(job.name) - done') + Len(job.todo) <= DATA
      /\ pc' = "text" => at' + Len(job.todo) <= DATA
      /\ at' \in Nat /\ done' \in Nat /\ write_ptr <= at'
  <2> DEFINE c == Len(Chunk)
             o == OldLen(job.name)
             t == Len(job.todo)
  <2>1. /\ c \in Nat /\ done + c <= o /\ o \in Nat /\ t \in Nat /\ at + (o - done) + t <= DATA
        /\ at' = at + c /\ done' = done + c /\ (pc' = "text" => ~(done' < o))
    BY <1>1, <1>3, <1>4, <1>5
  <2> HIDE DEF c, o, t
  <2>2. /\ at' + (o - done') + t <= DATA /\ (pc' = "text" => at' + t <= DATA)
        /\ at' \in Nat /\ done' \in Nat /\ write_ptr <= at'
    BY <1>4, <2>1
  <2> QED
    BY <2>2 DEF o, t
<1>8. RoomInv'
  BY <1>1, <1>6, <1>7 DEF RoomInv
<1>9. Control'
  BY <1>1, <1>5, <1>7, <1>8 DEF FInv, Control, Phases, JobInv, StageInv, DirPhase, CompactPhase, WritePhase
<1> QED
  BY <1>2, <1>9 DEF FInv

\* Where the file is once its last cell is written: where it was if it ended the
\* log, or where the log ended.
NewBase(n) == IF AtTail(n) THEN entries[find(n)].offset ELSE write_ptr

LEMMA BaseFacts ==
  ASSUME Volume, NEW n, NEW end \in Nat, write_ptr <= end
  PROVE  LET len == (end - write_ptr) + IF AtTail(n) THEN OldLen(n) ELSE 0 IN
         /\ NewBase(n) \in Nat /\ len \in Nat /\ end - len = NewBase(n) /\ NewBase(n) + len = end
         /\ NewBase(n) <= write_ptr
<1>1. write_ptr \in Nat
  BY Sizes DEF Volume
<1>2. CASE AtTail(n)
  <2>1. /\ OldLen(n) \in Nat /\ entries[find(n)].offset \in Nat
        /\ entries[find(n)].offset = write_ptr - OldLen(n)
    BY <1>2, OldLenFacts
  <2> QED
    BY <1>1, <1>2, <2>1 DEF NewBase
<1>3. CASE ~AtTail(n)
  BY <1>1, <1>3 DEF NewBase
<1> QED
  BY <1>2, <1>3

\* The other files are apart from it, or begin where it does.
LEMMA BaseApart ==
  ASSUME Volume, NEW n, NEW end \in Nat, write_ptr <= end, NEW k \in 1 .. Len(entries)
  PROVE  \/ entries[k].offset = NewBase(n)
         \/ Extent(entries[k]) \cap (NewBase(n) .. end - 1) = {}
<1> DEFINE e == entries[k]
<1>1. write_ptr \in Nat /\ e \in DirEntry /\ e.offset + e.length <= write_ptr
  BY Sizes DEF Volume, Placed
<1>2. e.offset \in Nat /\ e.length \in Nat
  BY <1>1 DEF DirEntry
<1>3. Extent(e) = e.offset .. e.offset + e.length - 1
  BY DEF Extent
<1> HIDE DEF e
<1>4. \A o \in Extent(e) : o \in Nat /\ o < write_ptr
  BY ONLY <1>1, <1>2, <1>3
<1>5. CASE AtTail(n)
  <2> DEFINE f == entries[find(n)]
             b == f.offset
  <2>1. /\ find(n) \in 1 .. Len(entries) /\ b \in Nat /\ OldLen(n) \in Nat /\ f.length = OldLen(n)
        /\ b = write_ptr - OldLen(n) /\ NewBase(n) = b
    BY <1>5, OldLenFacts DEF NewBase
  <2>2. e.offset = b \/ Extent(e) \cap Extent(f) = {}
    BY <2>1 DEF Volume, Nest, e
  <2>3. b + f.length = write_ptr
    BY <1>1, <2>1
  <2>4. Extent(f) = b .. write_ptr - 1
    <3>1. Extent(f) = b .. b + f.length - 1
      BY DEF Extent
    <3> DEFINE l == f.length
    <3>2. Extent(f) = b .. b + l - 1 /\ b + l = write_ptr /\ b \in Nat /\ l \in Nat
      BY <2>1, <2>3, <3>1
    <3> HIDE DEF l, f, b
    <3> QED
      BY ONLY <3>2
  <2> HIDE DEF f, b
  <2>5. ASSUME Extent(e) \cap Extent(f) = {}
        PROVE  Extent(e) \cap (b .. end - 1) = {}
    <3> SUFFICES ASSUME NEW o \in Extent(e), o \in b .. end - 1 PROVE FALSE
      OBVIOUS
    <3>1. o \in b .. write_ptr - 1
      BY <1>1, <1>4, <2>1
    <3> QED
      BY <2>4, <2>5, <3>1
  <2> QED
    BY <2>1, <2>2, <2>5 DEF e
<1>6. CASE ~AtTail(n)
  <2>1. NewBase(n) = write_ptr
    BY <1>6 DEF NewBase
  <2>2. Extent(e) \cap (write_ptr .. end - 1) = {}
    BY <1>1, <1>4
  <2> QED
    BY <2>1, <2>2 DEF e
<1> QED
  BY <1>5, <1>6

\* The directory with it, r, its entry being the f-th.
Longer(r, f, n, len, end) ==
  /\ r \in Seq(DirEntry) /\ f \in 1 .. Len(r)
  /\ Len(r) = IF find(n) = 0 THEN Len(entries) + 1 ELSE Len(entries)
  /\ r[f].offset = NewBase(n) /\ r[f].length = len
  /\ r[f].name = IF find(n) = 0 THEN Truncated[n] ELSE n
  /\ \A k \in 1 .. Len(r) : k # f => k \in 1 .. Len(entries) /\ r[k] = entries[k]
  /\ Placed(r, end) /\ Nest(r)

LEMMA Grown ==
  ASSUME Volume, NEW n \in Names, NEW end \in 0 .. DATA, write_ptr <= end,
         NEW len, len = (end - write_ptr) + (IF AtTail(n) THEN OldLen(n) ELSE 0)
  PROVE  LET r == IF find(n) = 0 THEN Append(entries, Entry(n, end, len))
                  ELSE [entries EXCEPT ![find(n)].offset = end - len, ![find(n)].length = len]
             f == IF find(n) = 0 THEN Len(entries) + 1 ELSE find(n)
         IN  Longer(r, f, n, len, end)
<1> DEFINE r == IF find(n) = 0 THEN Append(entries, Entry(n, end, len))
                ELSE [entries EXCEPT ![find(n)].offset = end - len, ![find(n)].length = len]
           f == IF find(n) = 0 THEN Len(entries) + 1 ELSE find(n)
           b == NewBase(n)
<1>1. /\ end \in Nat /\ write_ptr \in Nat /\ entries \in Seq(DirEntry) /\ Len(entries) \in Nat
      /\ \A k \in 1 .. Len(entries) : entries[k] \in DirEntry
  BY Sizes DEF Volume
<1>2. b \in Nat /\ len \in Nat /\ end - len = b /\ b + len = end
  BY <1>1, BaseFacts
<1>3. /\ r \in Seq(DirEntry) /\ f \in 1 .. Len(r)
      /\ Len(r) = IF find(n) = 0 THEN Len(entries) + 1 ELSE Len(entries)
      /\ r[f].offset = b /\ r[f].length = len /\ r[f].name = IF find(n) = 0 THEN Truncated[n] ELSE n
      /\ \A k \in 1 .. Len(r) : k # f => k \in 1 .. Len(entries) /\ r[k] = entries[k]
  <2>1. CASE find(n) = 0
    <3> DEFINE e == [name |-> Truncated[n], offset |-> b, length |-> len]
               s == Append(entries, e)
    <3>1. e \in DirEntry
      BY <1>2, NamesAssumption DEF DirEntry
    <3>2. r = s /\ f = Len(entries) + 1
      BY <1>2, <2>1 DEF Entry
    <3>3. e.offset = b /\ e.length = len /\ e.name = Truncated[n]
      OBVIOUS
    <3> HIDE DEF e, r, f
    <3>4. /\ s \in Seq(DirEntry) /\ Len(s) = Len(entries) + 1 /\ s[Len(entries) + 1] = e
          /\ \A k \in 1 .. Len(entries) : s[k] = entries[k]
      BY <1>1, <3>1
    <3> HIDE DEF s
    <3>5. \A k \in 1 .. Len(s) : k # Len(entries) + 1 => k \in 1 .. Len(entries)
      BY <1>1, <3>4
    <3>6. Len(entries) + 1 \in 1 .. Len(s)
      BY <1>1, <3>4
    <3> QED
      BY <2>1, <3>2, <3>3, <3>4, <3>5, <3>6
  <2>2. CASE find(n) # 0
    <3> DEFINE e == [name |-> n, offset |-> b, length |-> len]
               s == [entries EXCEPT ![find(n)] = e]
    <3>1. e \in DirEntry
      BY <1>2 DEF DirEntry
    <3>2. find(n) \in 1 .. Len(entries) /\ entries[find(n)].name = n /\ entries[find(n)] \in DirEntry
      BY <1>1, <2>2, Found
    <3>3. [entries[find(n)] EXCEPT !.offset = b, !.length = len] = e
      <4> DEFINE x == entries[find(n)]
      <4>1. x \in DirEntry /\ x.name = n
        BY <3>2
      <4> HIDE DEF x, b
      <4>2. [x EXCEPT !.offset = b, !.length = len] = [name |-> n, offset |-> b, length |-> len]
        <5>1. x = [name |-> n, offset |-> x.offset, length |-> x.length]
          BY ONLY <4>1 DEF DirEntry
        <5> DEFINE y == x.offset
                   z == x.length
        <5>2. x = [name |-> n, offset |-> y, length |-> z]
          BY <5>1
        <5> HIDE DEF y, z
        <5>3. [x EXCEPT !.offset = b] = [name |-> n, offset |-> b, length |-> z]
          BY ONLY <5>2
        <5> DEFINE v == [x EXCEPT !.offset = b]
        <5>4. [v EXCEPT !.length = len] = [name |-> n, offset |-> b, length |-> len]
          <6>1. v = [name |-> n, offset |-> b, length |-> z]
            BY <5>3
          <6> HIDE DEF v
          <6> QED
            BY ONLY <6>1
        <5> QED
          BY <5>4
      <4> QED
        BY <4>2 DEF x
    <3>4. r = s
      <4> DEFINE x == entries[find(n)]
      <4>1. r = [entries EXCEPT ![find(n)].offset = b, ![find(n)].length = len]
        BY <1>2, <2>2
      <4>2. [entries EXCEPT ![find(n)].offset = b, ![find(n)].length = len]
              = [entries EXCEPT ![find(n)] = [x EXCEPT !.offset = b, !.length = len]]
        BY <1>1, <3>2
      <4> QED
        BY <3>3, <4>1, <4>2
    <3>5. e.offset = b /\ e.length = len /\ e.name = n /\ f = find(n)
      BY <2>2
    <3> HIDE DEF e, r, f
    <3>6. /\ s \in Seq(DirEntry) /\ Len(s) = Len(entries)
          /\ \A k \in 1 .. Len(entries) : s[k] = IF k = find(n) THEN e ELSE entries[k]
      BY <1>1, <3>1, <3>2
    <3> HIDE DEF s
    <3> QED
      BY <2>2, <3>2, <3>4, <3>5, <3>6
  <2> QED
    BY <2>1, <2>2
<1> HIDE DEF r, f
<1>4. Placed(r, end)
  <2> SUFFICES ASSUME NEW k \in 1 .. Len(r) PROVE r[k].offset + r[k].length <= end
    BY DEF Placed
  <2>1. CASE k = f
    <3>1. r[k].offset = b /\ r[k].length = len
      BY <1>3, <2>1
    <3> HIDE DEF b
    <3> QED
      BY <1>1, <1>2, <3>1
  <2>2. CASE k # f
    <3>1. k \in 1 .. Len(entries) /\ r[k] = entries[k]
      BY <1>3, <2>2
    <3>2. entries[k].offset \in Nat /\ entries[k].length \in Nat
      BY <1>1, <3>1 DEF DirEntry
    <3>3. entries[k].offset + entries[k].length <= write_ptr
      BY <3>1 DEF Volume, Placed
    <3> QED
      BY <1>1, <3>1, <3>2, <3>3
  <2> QED
    BY <2>1, <2>2
<1>5. Extent(r[f]) = b .. end - 1
  BY <1>2, <1>3 DEF Extent
<1>6. ASSUME NEW k \in 1 .. Len(r), k # f
      PROVE  r[k].offset = r[f].offset \/ Extent(r[k]) \cap Extent(r[f]) = {}
  <2>1. k \in 1 .. Len(entries) /\ r[k] = entries[k]
    BY <1>3, <1>6
  <2>2. entries[k].offset = b \/ Extent(entries[k]) \cap (b .. end - 1) = {}
    BY <1>1, <2>1, BaseApart
  <2> HIDE DEF b
  <2> QED
    BY <1>3, <1>5, <2>1, <2>2
<1>7. ASSUME NEW k \in 1 .. Len(r), NEW l \in 1 .. Len(r)
      PROVE  r[k].offset = r[l].offset \/ Extent(r[k]) \cap Extent(r[l]) = {}
  <2>1. CASE k = f \/ l = f
    BY <1>6, <2>1
  <2>2. CASE k # f /\ l # f
    <3>1. k \in 1 .. Len(entries) /\ r[k] = entries[k] /\ l \in 1 .. Len(entries) /\ r[l] = entries[l]
      BY <1>3, <2>2
    <3> QED
      BY <3>1 DEF Volume, Nest
  <2> QED
    BY <2>1, <2>2
<1>8. Nest(r)
  BY <1>7 DEF Nest
<1> QED
  <2>1. Longer(r, f, n, len, end)
    BY <1>3, <1>4, <1>8 DEF Longer
  <2> QED
    BY <2>1 DEF r, f

LEMMA TextStep ==
  ASSUME FInv, AppendText
  PROVE  FInv'
<1> DEFINE n   == job.name
           end == at + 1
           len == (end - write_ptr) + IF AtTail(n) THEN OldLen(n) ELSE 0
           t   == job.todo
<1>1. /\ pc = "text" /\ Program(at, t, 1) /\ at' = end /\ job' = [job EXCEPT !.todo = Tail(t)]
      /\ UNCHANGED <<dir, done, compacting, sector, g_buf, dir_sector, generation>>
      /\ IF Len(t) > 1 THEN UNCHANGED <<entries, write_ptr, pc>>
         ELSE /\ write_ptr' = end
              /\ entries' = IF find(n) = 0 THEN Append(entries, Entry(n, end, len))
                            ELSE [entries EXCEPT ![find(n)].offset = end - len, ![find(n)].length = len]
              /\ pc' = "dir_erase"
  BY DEF AppendText, ram, pack
<1>2. /\ n \in Names /\ Line(t) /\ Len(t) \in Nat \ {0} /\ ~compacting /\ sector = 0
      /\ at \in Nat /\ write_ptr <= at /\ at + Len(t) <= DATA /\ write_ptr \in Nat /\ DATA \in Nat
  BY <1>1, LineLen, Sizes DEF FInv, Control, JobInv, WritePhase, CompactPhase, RoomInv, Phases, Volume
<1>3. data' = [o \in Offsets |-> data'[o]]
  BY <1>1, DataTyped
<1>4. end \in 0 .. DATA /\ write_ptr <= end /\ end \in Nat
  BY <1>2
<1>5. CASE Len(t) > 1
  <2>1. Volume'
    BY <1>1, <1>3, <1>5, Kept DEF FInv, ram
  <2>2. PICK S : t \in Seq(S)
    BY <1>2 DEF Line
  <2>3. Tail(t) \in Seq(S) /\ Len(Tail(t)) = Len(t) - 1
    BY <1>2, <1>5, <2>2
  <2>4. Tail(t) # <<>>
    <3>1. Len(Tail(t)) > 0
      BY <1>2, <1>5, <2>3
    <3>2. Len(<<>>) = 0
      OBVIOUS
    <3> QED
      BY <3>1, <3>2
  <2>5. Line(Tail(t))
    BY <2>3, <2>4 DEF Line
  <2>6. job'.name \in Names /\ job'.todo = Tail(t)
    <3>1. job = [name |-> n, todo |-> t]
      BY DEF FInv, Control, Phases
    <3>2. job' = [name |-> n, todo |-> Tail(t)]
      BY <1>1, <3>1
    <3> QED
      BY <1>2, <3>2
  <2>7. RoomInv'
    BY <1>1, <1>2, <1>5, <2>3, <2>6 DEF RoomInv
  <2>8. Control'
    BY <1>1, <1>2, <1>4, <1>5, <2>5, <2>6, <2>7
       DEF FInv, Control, Phases, JobInv, StageInv, DirPhase, CompactPhase, WritePhase
  <2> QED
    BY <2>1, <2>8 DEF FInv
<1>6. CASE ~(Len(t) > 1)
  <2>1. entries' \in Seq(DirEntry) /\ Placed(entries', end) /\ Nest(entries')
    <3>1. Volume /\ n \in Names /\ len = (end - write_ptr) + (IF AtTail(n) THEN OldLen(n) ELSE 0)
      BY <1>2 DEF FInv
    <3>2. entries' = IF find(n) = 0 THEN Append(entries, Entry(n, end, len))
                     ELSE [entries EXCEPT ![find(n)].offset = end - len, ![find(n)].length = len]
      BY <1>1, <1>6
    <3>3. end \in 0 .. DATA /\ write_ptr <= end
      BY <1>4
    <3> HIDE DEF n, end, len
    <3> DEFINE r == IF find(n) = 0 THEN Append(entries, Entry(n, end, len))
                    ELSE [entries EXCEPT ![find(n)].offset = end - len, ![find(n)].length = len]
    <3>4. r \in Seq(DirEntry) /\ Placed(r, end) /\ Nest(r)
      <4> DEFINE f == IF find(n) = 0 THEN Len(entries) + 1 ELSE find(n)
      <4>1. Longer(r, f, n, len, end)
        BY ONLY <3>1, <3>3, Grown
      <4> HIDE DEF r, f
      <4> QED
        BY <4>1 DEF Longer
    <3>5. entries' = r
      BY <3>2
    <3> HIDE DEF r
    <3> QED
      BY ONLY <3>4, <3>5
  <2> HIDE DEF end, len
  <2>2. Volume'
    BY <1>1, <1>3, <1>4, <1>6, <2>1 DEF FInv, Volume, DirsPlaced
  <2>3. Control'
    BY <1>1, <1>2, <1>4, <1>6
       DEF FInv, Control, Phases, JobInv, StageInv, RoomInv, DirPhase, CompactPhase, WritePhase
  <2> QED
    BY <2>2, <2>3 DEF FInv
<1> QED
  BY <1>5, <1>6


(***************************************************************************)
(* The directory.                                                          *)
(***************************************************************************)
LEMMA DirSet ==
  ASSUME Volume, NEW h \in Header, Placed(h.ents, DATA), Nest(h.ents), h.count <= Len(h.ents),
         dir' = [dir EXCEPT ![Target] = h]
  PROVE  /\ dir' \in [0 .. 1 -> Header] /\ DirsPlaced' /\ Target \in 0 .. 1 /\ dir'[Target] = h
         /\ \A s \in 0 .. 1 : s # Target => dir'[s] = dir[s]
<1>1. Target \in 0 .. 1
  BY DEF Volume, Target
<1>2. /\ dir' \in [0 .. 1 -> Header] /\ dir'[Target] = h
      /\ \A s \in 0 .. 1 : s # Target => dir'[s] = dir[s]
  BY <1>1 DEF Volume
<1>3. DirsPlaced'
  <2> SUFFICES ASSUME NEW s \in 0 .. 1
               PROVE  /\ Placed(dir'[s].ents, DATA) /\ Nest(dir'[s].ents)
                      /\ dir'[s].count <= Len(dir'[s].ents)
    BY DEF DirsPlaced
  <2>1. CASE s = Target
    BY <1>2, <2>1
  <2>2. CASE s # Target
    BY <1>2, <2>2 DEF Volume, DirsPlaced
  <2> QED
    BY <2>1, <2>2
<1> QED
  BY <1>1, <1>2, <1>3

\* The entries are written, all or some of them.
LEMMA EntsSet ==
  ASSUME Volume, NEW e \in Seq(DirEntry), Placed(e, DATA), Nest(e), dir[Target].count <= Len(e),
         dir' = [dir EXCEPT ![Target].ents = e]
  PROVE  /\ dir' \in [0 .. 1 -> Header] /\ DirsPlaced' /\ dir'[Target].ents = e
         /\ dir'[Target].count = dir[Target].count
<1> DEFINE h == [dir[Target] EXCEPT !.ents = e]
<1>1. Target \in 0 .. 1 /\ dir[Target] \in Header
  BY DEF Volume, Target
<1>2. h \in Header /\ h.ents = e /\ h.count = dir[Target].count
  BY <1>1 DEF Header
<1>3. dir' = [dir EXCEPT ![Target] = h]
  BY <1>1 DEF Volume
<1> HIDE DEF h
<1> QED
  BY <1>2, <1>3, DirSet

LEMMA PartsPlaced ==
  ASSUME Volume, NEW e, e \in PartialEntries \cup {entries}
  PROVE  e \in Seq(DirEntry) /\ Placed(e, DATA) /\ Nest(e)
<1>1. /\ entries \in Seq(DirEntry) /\ Nest(entries)
      /\ write_ptr \in Nat /\ DATA \in Nat /\ write_ptr <= DATA
  BY Sizes DEF Volume
<1>2. Placed(entries, DATA)
  BY <1>1, PlacedMore DEF Volume
<1>3. CASE e = entries
  BY <1>1, <1>2, <1>3
<1>4. CASE e \in PartialEntries
  <2>1. PICK k \in 0 .. Len(entries) : e = SubSeq(entries, 1, k)
    BY <1>4 DEF PartialEntries
  <2>2. e \in Seq(DirEntry) /\ Within(e, entries)
    BY <1>1, <2>1, PrefixWithin
  <2> QED
    BY <1>1, <1>2, <2>2, WithinKeeps
<1> QED
  BY <1>3, <1>4

LEMMA DirEraseStep ==
  ASSUME FInv, DirErase
  PROVE  FInv'
<1>1. /\ pc = "dir_erase" /\ pc' = "dir_entries" /\ dir' = [dir EXCEPT ![Target] = ErasedDir]
      /\ UNCHANGED <<data, entries, dir_sector, generation, write_ptr, job, at, done, compacting, sector, g_buf>>
  BY DEF DirErase, ram, append, pack
<1>2. ErasedDir \in Header /\ ErasedDir.ents = <<>> /\ ErasedDir.count = 0
  BY DEF ErasedDir, Header
<1>3. /\ dir' \in [0 .. 1 -> Header] /\ DirsPlaced' /\ dir'[Target] = ErasedDir
  <2>1. /\ Placed(ErasedDir.ents, DATA) /\ Nest(ErasedDir.ents)
        /\ ErasedDir.count <= Len(ErasedDir.ents)
    BY <1>2, NoEntries
  <2> QED
    BY ONLY <1>1, <1>2, <2>1, FInv, DirSet DEF FInv
<1>4. Volume'
  BY <1>1, <1>3 DEF FInv, Volume
<1>5. (dir[Target].count)' = 0
  BY <1>1, <1>2, <1>3 DEF Target
<1>6. Control'
  BY <1>1, <1>5 DEF FInv, Control, Phases, JobInv, RoomInv, StageInv, DirPhase, CompactPhase, WritePhase
<1> QED
  BY <1>4, <1>6 DEF FInv

LEMMA DirEntriesStep ==
  ASSUME FInv, DirEntries
  PROVE  FInv'
<1>1. /\ pc = "dir_entries" /\ pc' = "dir_header" /\ dir' = [dir EXCEPT ![Target].ents = entries]
      /\ UNCHANGED <<data, entries, dir_sector, generation, write_ptr, job, at, done, compacting, sector, g_buf>>
  BY DEF DirEntries, ram, append, pack
<1>2. entries \in Seq(DirEntry) /\ Placed(entries, DATA) /\ Nest(entries)
  BY PartsPlaced DEF FInv
<1>3. dir[Target].count <= Len(entries)
  BY <1>1, <1>2 DEF FInv, Control, Phases
<1>4. dir' \in [0 .. 1 -> Header] /\ DirsPlaced' /\ dir'[Target].ents = entries
  BY <1>1, <1>2, <1>3, EntsSet DEF FInv
<1>5. Volume'
  BY <1>1, <1>4 DEF FInv, Volume
<1>6. (dir[Target].ents)' = entries'
  BY <1>1, <1>4 DEF Target
<1>7. Control'
  BY <1>1, <1>6 DEF FInv, Control, Phases, JobInv, RoomInv, StageInv, DirPhase, CompactPhase, WritePhase
<1> QED
  BY <1>5, <1>7 DEF FInv

LEMMA DirHeaderStep ==
  ASSUME FInv, DirHeader
  PROVE  FInv'
<1> DEFINE h == [[[dir[Target] EXCEPT !.valid = TRUE] EXCEPT !.gen = NextGeneration]
                   EXCEPT !.count = Len(entries)]
<1>1. /\ pc = "dir_header" /\ dir_sector' = Target /\ generation' = NextGeneration
      /\ dir' = [dir EXCEPT ![Target].valid = TRUE, ![Target].gen = NextGeneration,
                            ![Target].count = Len(entries)]
      /\ UNCHANGED <<data, entries, write_ptr>>
      /\ \/ /\ compacting /\ pc' = "append" /\ compacting' = FALSE /\ sector' = 0
            /\ UNCHANGED <<job, at, done, g_buf>>
         \/ Return
  BY DEF DirHeader, append
<1>2. Target \in 0 .. 1 /\ dir[Target] \in Header /\ NextGeneration \in Nat /\ Len(entries) \in Nat
  BY DEF FInv, Volume, Target, NextGeneration
<1>3. dir[Target].ents = entries
  BY <1>1 DEF FInv, Control, Phases
<1>4. h \in Header /\ h.ents = entries /\ h.count = Len(entries)
  BY <1>2, <1>3 DEF Header
<1>5. dir' = [dir EXCEPT ![Target] = h]
  BY <1>1, <1>2 DEF FInv, Volume
<1> HIDE DEF h
<1>6. entries \in Seq(DirEntry) /\ Placed(entries, DATA) /\ Nest(entries)
  BY PartsPlaced DEF FInv
<1>7. h.count <= Len(h.ents)
  BY <1>2, <1>4
<1>8. dir' \in [0 .. 1 -> Header] /\ DirsPlaced'
  BY <1>4, <1>5, <1>6, <1>7, DirSet DEF FInv
<1>9. Volume'
  BY <1>1, <1>2, <1>8 DEF FInv, Volume
<1>10. CASE Return
  BY <1>9, <1>10, AtIdle DEF FInv
<1>11. CASE compacting /\ pc' = "append" /\ compacting' = FALSE /\ sector' = 0 /\ UNCHANGED <<job, at, done, g_buf>>
  <2>1. Control'
    BY <1>1, <1>11
       DEF FInv, Control, Phases, JobInv, RoomInv, StageInv, DirPhase, CompactPhase, WritePhase
  <2> QED
    BY <1>9, <2>1 DEF FInv
<1> QED
  BY <1>1, <1>10, <1>11

(***************************************************************************)
(* Failures and power loss.                                                *)
(***************************************************************************)
LEMMA AppendFailsStep ==
  ASSUME FInv, NEW k, AppendFails(k)
  PROVE  FInv'
<1>1. /\ data' = [c \in Offsets |-> data'[c]] /\ Return
      /\ UNCHANGED <<dir, entries, dir_sector, generation>>
  BY DataTyped DEF AppendFails
<1>2. write_ptr \in 0 .. DATA /\ write_ptr \in Nat /\ DATA \in Nat
  BY Sizes DEF FInv, Volume
<1>3. write_ptr' \in 0 .. DATA /\ write_ptr <= write_ptr'
  <2>1. CASE write_ptr' \in ScanTail(data', write_ptr)
    BY <1>2, <2>1, Scanned
  <2>2. CASE write_ptr' = write_ptr
    BY <1>2, <2>2
  <2> QED
    BY <2>1, <2>2 DEF AppendFails
<1>4. Placed(entries, write_ptr')
  <2>1. write_ptr' \in Nat
    BY <1>2, <1>3
  <2> QED
    BY <1>2, <1>3, <2>1, PlacedMore DEF FInv, Volume
<1>5. Volume'
  BY <1>1, <1>3, <1>4 DEF FInv, Volume, DirsPlaced
<1> QED
  BY <1>1, <1>5, AtIdle DEF FInv

LEMMA CompactFailsStep ==
  ASSUME FInv, NEW k, CompactFails(k)
  PROVE  FInv'
<1>1. UNCHANGED <<dir, ram>> /\ Return /\ data' = [c \in Offsets |-> data'[c]]
  BY DataTyped DEF CompactFails
<1>2. Volume'
  BY <1>1, Kept DEF FInv
<1> QED
  BY <1>1, <1>2, AtIdle DEF FInv

LEMMA DirFailsStep ==
  ASSUME FInv, NEW ents, DirFails(ents)
  PROVE  FInv'
<1>1. /\ dir' = [dir EXCEPT ![Target].ents = ents] /\ Return
      /\ UNCHANGED <<data, entries, dir_sector, generation, write_ptr>>
  BY DEF DirFails, ram
<1>2. Target \in 0 .. 1 /\ dir[Target] \in Header
  BY DEF FInv, Volume, Target
<1>3. /\ dir[Target].ents \in Seq(DirEntry) /\ Placed(dir[Target].ents, DATA)
      /\ Nest(dir[Target].ents) /\ dir[Target].count <= Len(dir[Target].ents)
  BY <1>2 DEF FInv, Volume, DirsPlaced, Header
<1>4. /\ ents \in Seq(DirEntry) /\ Placed(ents, DATA) /\ Nest(ents) /\ dir[Target].count <= Len(ents)
  <2>1. CASE ents = dir[Target].ents
    BY <1>3, <2>1
  <2>2. CASE pc = "dir_entries" /\ ents \in PartialEntries
    <3>1. ents \in Seq(DirEntry) /\ Placed(ents, DATA) /\ Nest(ents)
      BY <2>2, PartsPlaced DEF FInv
    <3>2. dir[Target].count = 0 /\ Len(ents) \in Nat
      BY <2>2, <3>1 DEF FInv, Control, Phases
    <3> QED
      BY <3>1, <3>2
  <2> QED
    BY <2>1, <2>2 DEF DirFails
<1>5. dir' \in [0 .. 1 -> Header] /\ DirsPlaced'
  BY <1>1, <1>4, EntsSet DEF FInv
<1>6. Volume'
  BY <1>1, <1>5 DEF FInv, Volume
<1> QED
  BY <1>1, <1>6, AtIdle DEF FInv

LEMMA PowerLossStep ==
  ASSUME FInv, NEW k, NEW ents \in PartialEntries, PowerLoss(k, ents)
  PROVE  FInv'
<1>1. /\ data' = [c \in Offsets |-> data'[c]]
      /\ entries' = <<>> /\ dir_sector' = 0 /\ generation' = 0 /\ write_ptr' = 0
      /\ pc' = "off" /\ job' = NoJob /\ at' = 0 /\ done' = 0 /\ sector' = 0 /\ UNCHANGED compacting
      /\ IF pc = "dir_entries" THEN dir' = [dir EXCEPT ![Target].ents = ents] ELSE UNCHANGED dir
  BY DataTyped DEF PowerLoss
<1>2. dir' \in [0 .. 1 -> Header] /\ DirsPlaced'
  <2>1. CASE pc = "dir_entries"
    <3>1. ents \in Seq(DirEntry) /\ Placed(ents, DATA) /\ Nest(ents)
      BY PartsPlaced DEF FInv
    <3>2. dir[Target].count <= Len(ents)
      BY <2>1, <3>1 DEF FInv, Control, Phases
    <3> QED
      BY <1>1, <2>1, <3>1, <3>2, EntsSet DEF FInv
  <2>2. CASE pc # "dir_entries"
    BY <1>1, <2>2 DEF FInv, Volume, DirsPlaced
  <2> QED
    BY <2>1, <2>2
<1>3. Placed(<<>>, 0) /\ Nest(<<>>) /\ <<>> \in Seq(DirEntry) /\ 0 \in 0 .. DATA
  BY NoEntries, Sizes DEF Placed
<1>4. Volume'
  BY <1>1, <1>2, <1>3 DEF Volume
<1>5. Control'
  BY <1>1 DEF FInv, NoJob, Control, Phases, JobInv, RoomInv, StageInv, DirPhase, CompactPhase, WritePhase
<1> QED
  BY <1>4, <1>5 DEF FInv

LEMMA FStep == FInv /\ [Next]_vars => FInv'
<1> SUFFICES ASSUME FInv, [Next]_vars PROVE FInv'
  OBVIOUS
<1>1. CASE UNCHANGED vars
  <2>1. UNCHANGED <<data, dir, entries, dir_sector, generation, write_ptr, pc, job, at, done, compacting, sector, g_buf>>
    BY <1>1 DEF vars, flash, ram, append, pack
  <2>2. Volume'
    BY <2>1, Kept DEF FInv, Volume, ram
  <2>3. StageInv'
    BY <2>1, SameRegions DEF FInv, Control, StageInv
  <2>4. RoomInv'
    BY <2>1 DEF FInv, Control, RoomInv, OldLen, find, Indices
  <2>5. Control'
    BY <2>1, <2>3, <2>4 DEF FInv, Control, Phases, JobInv, DirPhase, CompactPhase, WritePhase, Target
  <2> QED
    BY <2>2, <2>5 DEF FInv
<1>2. ASSUME NEW bad \in Unreadable, mount(bad) \/ format(bad) PROVE FInv'
  <2>1. bad \in SUBSET {0, 1}
    BY <1>2 DEF Unreadable
  <2> QED
    BY <1>2, <2>1, MountStep, FormatStep
<1>3. CASE Operations
  BY <1>3, RemoveStep, AppendLineStep, RenameStep, CopyStep DEF Operations
<1>4. CASE Compaction
  BY <1>4, StageStep, EraseStep, WriteStep, EraseRestStep, DoneStep DEF Compaction
<1>5. CASE Appending
  BY <1>5, NoSpaceStep, BeginStep, CopyTurnStep, TextStep DEF Appending
<1>6. CASE Persisting
  BY <1>6, DirEraseStep, DirEntriesStep, DirHeaderStep DEF Persisting
<1>7. CASE Failures
  BY <1>7, AppendFailsStep, CompactFailsStep, DirFailsStep DEF Failures
<1>8. ASSUME NEW k, NEW ents \in PartialEntries, PowerLoss(k, ents) PROVE FInv'
  BY <1>8, PowerLossStep
<1> QED
  BY <1>1, <1>2, <1>3, <1>4, <1>5, <1>6, <1>7, <1>8 DEF Next

LEMMA Sane == Spec => []FInv
<1>1. FInv /\ [Next]_vars => FInv'
  BY FStep
<1> QED
  BY FInit, <1>1, PTL DEF Spec

\* In RAM, always: two files begin together, or share no cell. It is what a
\* compaction takes for granted, and no failure or power loss breaks it.
THEOREM EntriesNestKept == Spec => []EntriesNest
<1>1. FInv => EntriesNest
  <2> SUFFICES ASSUME FInv PROVE EntriesNest
    OBVIOUS
  <2>1. DOMAIN entries = 1 .. Len(entries)
    BY DEF FInv, Volume
  <2> QED
    BY <2>1 DEF FInv, Volume, Nest, EntriesNest
<1> QED
  BY Sane, <1>1, PTL

(***************************************************************************)
(* What is erased.                                                         *)
(***************************************************************************)
LEMMA Programmed ==
  ASSUME NEW o, NEW cells, NEW k, Program(o, cells, k)
  PROVE  /\ \A c \in Offsets : c \notin o .. o + k - 1 => data'[c] = data[c]
         /\ ~clash /\ (\A c \in o .. o + k - 1 : data[c] = ERASED) => ~clash'
  BY DataTyped DEF Program

LEMMA Erased ==
  ASSUME NEW s, EraseSector(s)
  PROVE  \A o \in Offsets : data'[o] = IF o \in Cells(s) THEN ERASED ELSE data[o]
  BY DEF EraseSector

\* The end of what is staged, and of its sector.
LEMMA StagedEnd ==
  ASSUME FInv, pc = "compact_write"
  PROVE  /\ sector * SECTOR \in Nat /\ Len(g_buf) \in 1 .. SECTOR
         /\ sector * SECTOR + Len(g_buf) <= Total /\ Total <= write_ptr /\ Total \in Nat
         /\ sector * SECTOR + Len(g_buf) = Total \/ Len(g_buf) = SECTOR
         /\ (sector + 1) * SECTOR = sector * SECTOR + SECTOR
<1>1. /\ Volume /\ Sound /\ sector \in Nat /\ sector < DestSectors
      /\ Len(g_buf) = Min({Total, (sector + 1) * SECTOR}) - sector * SECTOR
  BY DEF FInv, Control, Phases, StageInv
<1>2. Len(g_buf) = Len(Staged(sector))
  BY <1>1, StagedFacts
<1>3. Total \in Nat /\ Total <= write_ptr
  BY <1>1, TotalFits
<1>4. sector * SECTOR \in Nat /\ (sector + 1) * SECTOR = sector * SECTOR + SECTOR
  BY <1>1, Sizes
<1> QED
  BY <1>1, <1>2, <1>3, <1>4, StagedFacts

\* The cells a write programs, or the part of it that a failure leaves.
LEMMA WritingClear ==
  ASSUME FInv, CleanInv, NEW k \in 0 .. Len(Writing)
  PROVE  /\ \A c \in WritingAt .. WritingAt + k - 1 : c \in Offsets /\ data[c] = ERASED
         /\ WritePhase => k \in Nat /\ WritingAt = at /\ at \in Nat
         /\ CompactPhase => \A c \in WritingAt .. WritingAt + k - 1 : c \in Nat /\ c < Total
<1>1. at \in Nat /\ write_ptr \in Nat /\ write_ptr <= DATA /\ DATA \in Nat
  BY Sizes DEF FInv, Control, Phases, Volume
<1>2. CASE pc = "copy"
  <2>1. /\ Writing = Chunk /\ WritingAt = at /\ WritePhase /\ ~CompactPhase
    BY <1>2 DEF Writing, WritingAt, WritePhase, CompactPhase
  <2>2. Len(Chunk) \in Nat /\ done + Len(Chunk) <= OldLen(job.name)
    BY <1>2, ChunkFacts
  <2>3. /\ done \in Nat /\ at + (OldLen(job.name) - done) + Len(job.todo) <= DATA
        /\ OldLen(job.name) \in Nat /\ Len(job.todo) \in Nat
    BY <1>2, OldLenFacts, LineLen DEF FInv, Control, Phases, JobInv, RoomInv, WritePhase
  <2>4. k \in Nat /\ at + k <= DATA
    <3> DEFINE c == Len(Chunk)
               o == OldLen(job.name)
               t == Len(job.todo)
    <3>1. c \in Nat /\ o \in Nat /\ t \in Nat /\ done \in Nat /\ done + c <= o /\ at + (o - done) + t <= DATA /\ k \in 0 .. c
      BY <2>1, <2>2, <2>3
    <3> HIDE DEF c, o, t
    <3> QED
      BY <1>1, <3>1
  <2>5. ErasedFrom(at)
    BY <2>1 DEF CleanInv
  <2> QED
    BY <1>1, <2>1, <2>4, <2>5, Sizes DEF ErasedFrom
<1>3. CASE pc = "text"
  <2>1. /\ Writing = <<Head(job.todo)>> /\ WritingAt = at /\ WritePhase /\ ~CompactPhase
    BY <1>3 DEF Writing, WritingAt, WritePhase, CompactPhase
  <2>2. at + Len(job.todo) <= DATA /\ Len(job.todo) \in Nat \ {0}
    BY <1>3, LineLen DEF FInv, Control, JobInv, RoomInv, WritePhase
  <2>3. k \in 0 .. 1
    BY <2>1
  <2>4. ErasedFrom(at)
    BY <2>1 DEF CleanInv
  <2> QED
    BY <1>1, <2>1, <2>2, <2>3, <2>4, Sizes DEF ErasedFrom
<1>4. CASE pc = "compact_write"
  <2> DEFINE lo == sector * SECTOR
  <2>1. /\ lo \in Nat /\ Len(g_buf) \in 1 .. SECTOR /\ lo + Len(g_buf) <= Total
        /\ Total <= write_ptr /\ Total \in Nat
    BY <1>4, StagedEnd
  <2>2. Writing = g_buf /\ WritingAt = lo /\ ~WritePhase /\ Cells(sector) = lo .. lo + SECTOR - 1
    BY <1>4 DEF Writing, WritingAt, WritePhase, Cells
  <2>3. \A o \in Offsets \cap Cells(sector) : data[o] = ERASED
    BY <1>4 DEF CleanInv
  <2> HIDE DEF lo
  <2>4. ASSUME NEW c \in lo .. lo + k - 1
        PROVE  c \in Nat /\ c < Total /\ c \in Offsets /\ c \in Cells(sector)
    <3>1. k \in 0 .. Len(g_buf)
      BY <2>2
    <3> QED
      BY <1>1, <2>1, <2>2, <3>1, Sizes
  <2> QED
    BY <2>2, <2>3, <2>4
<1>5. CASE pc \notin {"copy", "text", "compact_write"}
  <2>1. Writing = <<>> /\ WritingAt = at /\ ~WritePhase
    BY <1>5 DEF Writing, WritingAt, WritePhase
  <2>2. k = 0
    BY <2>1
  <2> QED
    BY <1>1, <2>1, <2>2
<1> QED
  BY <1>2, <1>3, <1>4, <1>5

LEMMA CInit == Init => CleanInv
  BY DEF Init, CleanInv, WritePhase, CompactPhase

LEMMA CleanReturn ==
  ASSUME Return, ~clash', ErasedFrom(write_ptr)'
  PROVE  CleanInv'
  BY DEF Return, CleanInv, WritePhase, CompactPhase

LEMMA SameCells ==
  ASSUME CleanInv, ~WritePhase, pc # "off", UNCHANGED <<data, write_ptr, clash>>
  PROVE  ~clash' /\ ErasedFrom(write_ptr)'
  BY DEF CleanInv, ErasedFrom

LEMMA MountClean ==
  ASSUME "read" \notin Faults, FInv, CleanInv, NEW bad, mount(bad) \/ format(bad), bad \in SUBSET {0, 1}
  PROVE  CleanInv'
<1>1. CASE format(bad)
  <2>1. ErasedFrom(write_ptr)' /\ ~clash' /\ Return
    BY <1>1 DEF format, Formatted, ErasedFrom, CleanInv
  <2> QED
    BY <2>1, CleanReturn
<1>2. CASE mount(bad)
  <2> DEFINE s == Newest({0, 1} \ bad)
             e == SubSeq(dir[s].ents, 1, dir[s].count)
  <2>1. write_ptr' \in ScanTail(data, EndOfFiles(e)) /\ UNCHANGED <<data, clash>> /\ Return
    BY <1>2 DEF mount, flash
  <2>2. e \in Seq(DirEntry) /\ Placed(e, DATA)
    <3>1. s \in 0 .. 1
      BY DEF Newest
    <3> HIDE DEF s
    <3>2. dir[s].ents \in Seq(DirEntry) /\ dir[s].count \in 0 .. Len(dir[s].ents)
            /\ Placed(dir[s].ents, DATA) /\ Nest(dir[s].ents)
      <4>1. dir[s] \in Header
        BY <3>1 DEF FInv, Volume
      <4> QED
        BY <3>1, <4>1 DEF FInv, Volume, DirsPlaced, Header
    <3> QED
      BY <3>2, PrefixWithin, WithinKeeps
  <2> HIDE DEF e
  <2>3. EndOfFiles(e) \in 0 .. DATA
    BY <2>2, Ends
  <2>4. \A o \in Offsets : write_ptr' <= o => data[o] = ERASED
    BY <2>1, <2>3, Scanned
  <2>5. ErasedFrom(write_ptr)'
    BY <2>1, <2>4 DEF ErasedFrom
  <2> QED
    BY <2>1, <2>5, CleanReturn DEF CleanInv
<1> QED
  BY <1>1, <1>2

LEMMA OperationsClean ==
  ASSUME FInv, CleanInv, Operations
  PROVE  CleanInv'
<1>1. /\ pc = "idle" /\ UNCHANGED <<data, write_ptr, clash, sector>>
      /\ pc' \in {"dir_erase", "append", "compact"}
  <2>1. ASSUME AtRest, Persist, UNCHANGED <<dir_sector, generation, write_ptr>>
        PROVE  pc = "idle" /\ UNCHANGED <<data, write_ptr, clash, sector>> /\ pc' = "dir_erase"
    BY <2>1 DEF AtRest, Persist, flash, pack
  <2>2. ASSUME NEW n, NEW text, fs_append_line(n, text)
        PROVE  pc = "idle" /\ UNCHANGED <<data, write_ptr, clash, sector>> /\ pc' \in {"append", "compact"}
    BY <2>2 DEF AtRest, fs_append_line, flash, ram
  <2>3. ASSUME NEW n, fs_remove(n) PROVE AtRest /\ Persist /\ UNCHANGED <<dir_sector, generation, write_ptr>>
    BY <2>3 DEF fs_remove
  <2>4. ASSUME NEW n, NEW m, fs_rename(n, m) PROVE AtRest /\ Persist /\ UNCHANGED <<dir_sector, generation, write_ptr>>
    BY <2>4 DEF fs_rename
  <2>5. ASSUME NEW n, NEW m, fs_copy(n, m) PROVE AtRest /\ Persist /\ UNCHANGED <<dir_sector, generation, write_ptr>>
    BY <2>5 DEF fs_copy
  <2> QED
    BY <2>1, <2>2, <2>3, <2>4, <2>5 DEF Operations
<1>2. ~clash' /\ ErasedFrom(write_ptr)'
  BY <1>1, SameCells DEF WritePhase
<1>3. sector = 0
  BY <1>1 DEF FInv, Control, JobInv, CompactPhase, WritePhase
<1>4. \A o \in Offsets : ~(o < sector' * SECTOR)
  BY <1>1, <1>3, Sizes
<1> QED
  BY <1>1, <1>2, <1>4 DEF CleanInv, WritePhase, CompactPhase

LEMMA CompactionClean ==
  ASSUME FInv, CleanInv, Compaction
  PROVE  CleanInv'
<1>1. /\ CompactPhase /\ ~WritePhase /\ pc # "off" /\ sector \in Nat
      /\ ErasedFrom(write_ptr) /\ ~clash
      /\ \A o \in Offsets : Total <= o /\ o < sector * SECTOR => data[o] = ERASED
  <2>1. CompactPhase /\ ~WritePhase /\ pc # "off"
    BY DEF Compaction, CompactStage, CompactErase, CompactWrite, CompactEraseRest, CompactDone,
           CompactPhase, WritePhase
  <2> QED
    BY <2>1 DEF CleanInv, FInv, Control, Phases
<1>2. /\ sector * SECTOR \in Nat /\ (sector + 1) * SECTOR = sector * SECTOR + SECTOR
      /\ SECTOR \in Nat \ {0} /\ DATA \in Nat
  BY <1>1, Sizes
<1>3. write_ptr \in Nat
  BY Sizes DEF FInv, Volume
<1>4. CASE CompactStage
  <2>1. UNCHANGED <<data, entries, write_ptr, sector, clash>> /\ pc' = "compact_erase"
    BY <1>4 DEF CompactStage, flash, ram
  <2>2. Total' = Total
    BY <2>1, SameRegions
  <2> QED
    BY <1>1, <2>1, <2>2 DEF CleanInv, ErasedFrom, WritePhase, CompactPhase
<1>5. CASE CompactErase
  <2>1. UNCHANGED <<entries, write_ptr, sector, clash>> /\ pc' = "compact_write" /\ EraseSector(sector)
    BY <1>5 DEF CompactErase, ram, pack
  <2>2. Total' = Total
    BY <2>1, SameRegions
  <2>3. \A o \in Offsets : data'[o] = IF o \in Cells(sector) THEN ERASED ELSE data[o]
    BY <2>1, Erased
  <2> QED
    BY <1>1, <2>1, <2>2, <2>3 DEF CleanInv, ErasedFrom, WritePhase, CompactPhase
<1>6. CASE CompactWrite
  <2> DEFINE lo == sector * SECTOR
             n == Len(g_buf)
  <2>1. /\ pc = "compact_write" /\ UNCHANGED <<entries, write_ptr>> /\ pc' = "compact"
        /\ Program(lo, g_buf, n) /\ sector' = sector + 1
    BY <1>6 DEF CompactWrite, ram
  <2>2. /\ lo \in Nat /\ n \in 1 .. SECTOR /\ lo + n <= Total /\ Total <= write_ptr /\ Total \in Nat
        /\ (lo + n = Total \/ n = SECTOR)
    BY <2>1, StagedEnd
  <2>3. Writing = g_buf /\ WritingAt = lo /\ n \in 0 .. n
    BY <2>1, <2>2 DEF Writing, WritingAt
  <2>4. \A c \in lo .. lo + n - 1 : data[c] = ERASED
    BY <2>3, WritingClear
  <2>5. Total' = Total /\ sector' * SECTOR = lo + SECTOR /\ Cells(sector) = lo .. lo + SECTOR - 1
    BY <1>2, <2>1, SameRegions DEF Cells
  <2>6. \A o \in Offsets \cap Cells(sector) : data[o] = ERASED
    BY <2>1 DEF CleanInv
  <2> HIDE DEF lo, n
  <2>7. ~clash' /\ \A c \in Offsets : c \notin lo .. lo + n - 1 => data'[c] = data[c]
    BY <1>1, <2>1, <2>4, Programmed
  <2>8. ASSUME NEW o \in Offsets, Total <= o PROVE data'[o] = data[o]
    <3>1. o \in Nat /\ o \notin lo .. lo + n - 1
      BY <2>2, <2>8, Sizes
    <3> QED
      BY <2>7, <3>1
  <2>9. ErasedFrom(write_ptr)'
    <3> SUFFICES ASSUME NEW o \in Offsets, write_ptr <= o PROVE data'[o] = ERASED
      BY <2>1 DEF ErasedFrom
    <3>1. Total <= o
      BY <1>3, <2>2, Sizes
    <3> QED
      BY <1>1, <2>8, <3>1 DEF ErasedFrom
  <2>10. ASSUME NEW o \in Offsets, Total <= o, o < lo + SECTOR PROVE data'[o] = ERASED
    <3>1. o \in Nat /\ (o < lo \/ o \in lo .. lo + SECTOR - 1)
      BY <2>2, <2>10, Sizes
    <3>2. o < lo => data[o] = ERASED
      BY <1>1, <2>10 DEF lo
    <3> QED
      BY <2>5, <2>6, <2>8, <2>10, <3>1, <3>2
  <2> QED
    BY <2>1, <2>5, <2>7, <2>9, <2>10 DEF CleanInv, WritePhase, CompactPhase
<1>7. CASE CompactEraseRest
  <2> DEFINE lo == sector * SECTOR
  <2>1. /\ UNCHANGED <<entries, write_ptr, clash>> /\ pc' = "compact" /\ EraseSector(sector)
        /\ sector' = sector + 1
    BY <1>7 DEF CompactEraseRest, ram
  <2>2. Total' = Total /\ sector' * SECTOR = lo + SECTOR /\ Cells(sector) = lo .. lo + SECTOR - 1 /\ lo \in Nat
    BY <1>2, <2>1, SameRegions DEF Cells
  <2>3. \A o \in Offsets : data'[o] = IF o \in Cells(sector) THEN ERASED ELSE data[o]
    BY <2>1, Erased
  <2>4. \A o \in Offsets : Total <= o /\ o < lo => data[o] = ERASED
    BY <1>1
  <2> HIDE DEF lo
  <2>5. ASSUME NEW o \in Offsets, Total <= o, o < lo + SECTOR PROVE data'[o] = ERASED
    <3>1. o < lo \/ o \in lo .. lo + SECTOR - 1
      BY <1>2, <2>2, <2>5, Sizes
    <3> QED
      BY <2>2, <2>3, <2>4, <2>5, <3>1
  <2> QED
    BY <1>1, <2>1, <2>2, <2>3, <2>5 DEF CleanInv, ErasedFrom, WritePhase, CompactPhase
<1>8. CASE CompactDone
  <2>1. /\ UNCHANGED <<data, clash, sector>> /\ write_ptr' = Total /\ pc' = "dir_erase" /\ sector = SECTORS
    BY <1>8 DEF CompactDone, PackedTail, flash, pack
  <2>2. \A o \in Offsets : o < sector * SECTOR
    BY <2>1, Sizes DEF DATA
  <2>3. ErasedFrom(write_ptr)'
    BY <1>1, <2>1, <2>2 DEF ErasedFrom
  <2> QED
    BY <1>1, <2>1, <2>3 DEF CleanInv, WritePhase, CompactPhase
<1> QED
  BY <1>4, <1>5, <1>6, <1>7, <1>8 DEF Compaction

LEMMA AppendingClean ==
  ASSUME FInv, CleanInv, Appending
  PROVE  CleanInv'
<1>1. at \in Nat /\ write_ptr \in Nat
  BY Sizes DEF FInv, Control, Phases, Volume
<1>2. CASE AppendNoSpace
  <2>1. pc = "append" /\ UNCHANGED <<data, write_ptr, clash>> /\ Return
    BY <1>2 DEF AppendNoSpace, flash, ram
  <2>2. ~clash' /\ ErasedFrom(write_ptr)'
    BY <2>1, SameCells DEF WritePhase
  <2> QED
    BY <2>1, <2>2, CleanReturn
<1>3. CASE AppendBegin
  <2>1. pc = "append" /\ UNCHANGED <<data, clash>> /\ at' = write_ptr /\ pc' \in {"copy", "text"}
    BY <1>3 DEF AppendBegin, flash
  <2>2. ErasedFrom(at)'
    BY <2>1 DEF CleanInv, WritePhase, ErasedFrom
  <2> QED
    BY <2>1, <2>2 DEF CleanInv, WritePhase, CompactPhase
<1>4. ASSUME NEW n \in Nat, n \in 0 .. Len(Writing), WritePhase, WritingAt = at,
             Program(at, Writing, n)
      PROVE  ~clash' /\ \A o \in Offsets : at + n <= o => data'[o] = ERASED
  <2>1. \A c \in at .. at + n - 1 : data[c] = ERASED
    BY <1>4, WritingClear
  <2>2. ~clash' /\ \A c \in Offsets : c \notin at .. at + n - 1 => data'[c] = data[c]
    BY <1>4, <2>1, Programmed DEF CleanInv
  <2>3. ErasedFrom(at)
    BY <1>4 DEF CleanInv
  <2>4. ASSUME NEW o \in Offsets, at + n <= o PROVE data'[o] = ERASED
    <3>1. o \in Nat /\ at <= o /\ o \notin at .. at + n - 1
      BY <1>1, <1>4, <2>4, Sizes
    <3> QED
      BY <2>2, <2>3, <3>1 DEF ErasedFrom
  <2> QED
    BY <2>2, <2>4
<1>5. CASE AppendCopy
  <2>1. /\ pc = "copy" /\ Program(at, Chunk, Len(Chunk)) /\ at' = at + Len(Chunk)
        /\ pc' \in {"copy", "text"}
    BY <1>5 DEF AppendCopy
  <2>2. Writing = Chunk /\ WritingAt = at /\ WritePhase
    BY <2>1 DEF Writing, WritingAt, WritePhase
  <2>3. Len(Chunk) \in Nat
    BY <2>1, ChunkFacts
  <2>4. Len(Chunk) \in 0 .. Len(Writing)
    BY <2>2, <2>3
  <2>5. ~clash' /\ \A o \in Offsets : at + Len(Chunk) <= o => data'[o] = ERASED
    BY <1>4, <2>1, <2>2, <2>3, <2>4
  <2>6. ErasedFrom(at)'
    BY <2>1, <2>5 DEF ErasedFrom
  <2> QED
    BY <2>1, <2>5, <2>6 DEF CleanInv, WritePhase, CompactPhase
<1>6. CASE AppendText
  <2>1. /\ pc = "text" /\ Program(at, job.todo, 1) /\ at' = at + 1
        /\ \/ pc' = "text"
           \/ pc' = "dir_erase" /\ write_ptr' = at + 1
    BY <1>6 DEF AppendText
  <2>2. Writing = <<Head(job.todo)>> /\ WritingAt = at /\ WritePhase /\ Len(Writing) = 1
    BY <2>1 DEF Writing, WritingAt, WritePhase
  <2>3. 1 \in Nat /\ 1 \in 0 .. Len(Writing)
    BY <2>2
  <2>4. Program(at, Writing, 1)
    <3> DEFINE t == job.todo
    <3>1. \A c \in at .. at + 1 - 1 : c - at + 1 = 1
      BY <1>1
    <3>2. <<Head(t)>>[1] = t[1]
      <4>1. Line(t)
        BY <2>1, <2>2 DEF FInv, Control, JobInv
      <4> HIDE DEF t
      <4>2. PICK S : t \in Seq(S) /\ t # <<>>
        BY <4>1 DEF Line
      <4>3. Head(t) = t[1]
        BY <4>2
      <4> QED
        BY <4>3
    <3>3. \A c \in at .. at + 1 - 1 : t[c - at + 1] = Writing[c - at + 1]
      BY <2>2, <3>1, <3>2
    <3>4. data' = [c \in Offsets |-> IF c \in at .. at + 1 - 1 THEN t[c - at + 1] ELSE data[c]]
      BY <2>1 DEF Program
    <3>5. data' = [c \in Offsets |-> IF c \in at .. at + 1 - 1 THEN Writing[c - at + 1] ELSE data[c]]
      BY <3>3, <3>4
    <3> QED
      BY <2>1, <3>5 DEF Program
  <2>5. ~clash' /\ \A o \in Offsets : at + 1 <= o => data'[o] = ERASED
    BY <1>4, <2>2, <2>3, <2>4
  <2>6. CASE pc' = "text"
    BY <2>1, <2>5, <2>6 DEF CleanInv, WritePhase, CompactPhase, ErasedFrom
  <2>7. CASE pc' = "dir_erase" /\ write_ptr' = at + 1
    BY <2>1, <2>5, <2>7 DEF CleanInv, WritePhase, CompactPhase, ErasedFrom
  <2> QED
    BY <2>1, <2>6, <2>7
<1> QED
  BY <1>2, <1>3, <1>5, <1>6 DEF Appending

LEMMA PersistingClean ==
  ASSUME FInv, CleanInv, Persisting
  PROVE  CleanInv'
<1>1. /\ DirPhase /\ UNCHANGED <<data, write_ptr, clash>>
      /\ Return \/ pc' \in {"dir_entries", "dir_header", "append"}
  BY DEF Persisting, DirErase, DirEntries, DirHeader, DirPhase, ram
<1>2. ~clash' /\ ErasedFrom(write_ptr)'
  BY <1>1, SameCells DEF WritePhase, DirPhase
<1> QED
  BY <1>1, <1>2, CleanReturn DEF CleanInv, WritePhase, CompactPhase

LEMMA AppendFailsClean ==
  ASSUME "read" \notin Faults, FInv, CleanInv, NEW k \in 0 .. Len(Writing), AppendFails(k)
  PROVE  CleanInv'
<1>1. /\ Program(WritingAt, Writing, k) /\ Return /\ WritePhase
      /\ write_ptr' \in ScanTail(data', write_ptr)
  BY DEF AppendFails, WritePhase
<1>2. write_ptr \in 0 .. DATA
  BY DEF FInv, Volume
<1>3. \A o \in Offsets : write_ptr' <= o => data'[o] = ERASED
  BY <1>1, <1>2, Scanned
<1>4. ErasedFrom(write_ptr)'
  BY <1>3 DEF ErasedFrom
<1>5. ~clash'
  BY <1>1, Programmed, WritingClear DEF CleanInv
<1> QED
  BY <1>1, <1>4, <1>5, CleanReturn

LEMMA CompactFailsClean ==
  ASSUME FInv, CleanInv, NEW k \in 0 .. Len(Writing), CompactFails(k)
  PROVE  CleanInv'
<1>1. /\ Program(WritingAt, Writing, k) /\ Return /\ CompactPhase /\ UNCHANGED write_ptr
  BY DEF CompactFails, CompactPhase, ram
<1>2. ~WritePhase /\ pc # "off"
  BY <1>1 DEF WritePhase, CompactPhase
<1>3. ~clash'
  BY <1>1, Programmed, WritingClear DEF CleanInv
<1>4. write_ptr \in Nat
  BY Sizes DEF FInv, Volume
<1>5. ASSUME NEW o \in Offsets, write_ptr <= o
      PROVE  data'[o] = ERASED
  <2>1. o \notin WritingAt .. WritingAt + k - 1
    <3>1. CASE pc = "compact_write"
      <4>1. Total \in Nat /\ Total <= write_ptr /\ o \in Nat
        BY <3>1, StagedEnd, Sizes
      <4>2. \A c \in WritingAt .. WritingAt + k - 1 : c \in Nat /\ c < Total
        BY <1>1, WritingClear
      <4> QED
        BY <1>4, <1>5, <4>1, <4>2
    <3>2. CASE pc # "compact_write"
      <4>1. Writing = <<>> /\ WritingAt = at
        BY <1>1, <3>2 DEF CompactPhase, Writing, WritingAt
      <4>2. k = 0 /\ at \in Nat
        BY <4>1 DEF FInv, Control, Phases
      <4> QED
        BY <4>1, <4>2
    <3> QED
      BY <3>1, <3>2
  <2>2. data'[o] = data[o]
    BY <1>1, <2>1, Programmed
  <2>3. ErasedFrom(write_ptr)
    BY <1>2 DEF CleanInv
  <2> QED
    BY <1>5, <2>2, <2>3 DEF ErasedFrom
<1>6. ErasedFrom(write_ptr)'
  BY <1>1, <1>5 DEF ErasedFrom
<1> QED
  BY <1>1, <1>3, <1>6, CleanReturn

LEMMA DirFailsClean ==
  ASSUME FInv, CleanInv, NEW ents, DirFails(ents)
  PROVE  CleanInv'
<1>1. UNCHANGED <<data, write_ptr, clash>> /\ Return /\ DirPhase
  BY DEF DirFails, DirPhase, ram
<1>2. ~clash' /\ ErasedFrom(write_ptr)'
  BY <1>1, SameCells DEF WritePhase, DirPhase
<1> QED
  BY <1>1, <1>2, CleanReturn

LEMMA PowerLossClean ==
  ASSUME FInv, CleanInv, NEW k \in 0 .. Len(Writing), NEW ents, PowerLoss(k, ents)
  PROVE  CleanInv'
<1>1. Program(WritingAt, Writing, k) /\ pc' = "off"
  BY DEF PowerLoss
<1>2. ~clash'
  BY <1>1, Programmed, WritingClear DEF CleanInv
<1> QED
  BY <1>1, <1>2 DEF CleanInv, WritePhase, CompactPhase

LEMMA CStep == "read" \notin Faults /\ FInv /\ CleanInv /\ [Next]_vars => CleanInv'
<1> SUFFICES ASSUME "read" \notin Faults, FInv, CleanInv, [Next]_vars PROVE CleanInv'
  OBVIOUS
<1>1. CASE UNCHANGED vars
  <2>1. UNCHANGED <<data, entries, write_ptr, pc, at, sector, clash>>
    BY <1>1 DEF vars, flash, ram, append, pack
  <2>2. Total' = Total
    BY <2>1, SameRegions
  <2> QED
    BY <2>1, <2>2 DEF CleanInv, ErasedFrom, WritePhase, CompactPhase
<1>2. ASSUME NEW bad \in Unreadable, mount(bad) \/ format(bad) PROVE CleanInv'
  <2>1. bad \in SUBSET {0, 1}
    BY <1>2 DEF Unreadable
  <2> QED
    BY <1>2, <2>1, MountClean
<1>3. CASE Operations
  BY <1>3, OperationsClean
<1>4. CASE Compaction
  BY <1>4, CompactionClean
<1>5. CASE Appending
  BY <1>5, AppendingClean
<1>6. CASE Persisting
  BY <1>6, PersistingClean
<1>7. CASE Failures
  BY <1>7, AppendFailsClean, CompactFailsClean, DirFailsClean DEF Failures
<1>8. ASSUME NEW k \in 0 .. Len(Writing), NEW ents \in PartialEntries, PowerLoss(k, ents) PROVE CleanInv'
  BY <1>8, PowerLossClean
<1> QED
  BY <1>1, <1>2, <1>3, <1>4, <1>5, <1>6, <1>7, <1>8 DEF Next

LEMMA Clean == "read" \notin Faults => (Spec => []CleanInv)
<1> SUFFICES ASSUME "read" \notin Faults PROVE Spec => []CleanInv
  OBVIOUS
<1>1. FInv /\ FInv' /\ CleanInv /\ [Next]_vars => CleanInv'
  BY CStep
<1> QED
  BY Sane, CInit, <1>1, PTL DEF Spec

\* As long as reads succeed, no operation programs a cell that is not erased,
\* whatever failed before it and however often the power went. (A failed read
\* breaks it: the finding on fs_copy_read's run.)
THEOREM NeverProgramsTwiceKept == "read" \notin Faults => (Spec => []NeverProgramsTwice)
<1> SUFFICES ASSUME "read" \notin Faults PROVE Spec => []NeverProgramsTwice
  OBVIOUS
<1>1. CleanInv => NeverProgramsTwice
  BY DEF CleanInv, NeverProgramsTwice
<1> QED
  BY Clean, <1>1, PTL

\* What makes the tail writable: at rest it is erased.
THEOREM TailErasedKept == "read" \notin Faults => (Spec => []TailErased)
<1> SUFFICES ASSUME "read" \notin Faults PROVE Spec => []TailErased
  OBVIOUS
<1>1. FInv /\ CleanInv => TailErased
  BY Sizes DEF FInv, Volume, CleanInv, TailErased, WritePhase, ErasedFrom
<1> QED
  BY Sane, Clean, <1>1, PTL

(***************************************************************************)
(* StoreInv: what the files hold. Whatever Fs is at, what a caller could   *)
(* read when it was last at rest (shown) is still there, in RAM or in the  *)
(* flash that a mount would find, and what the operation under way is to   *)
(* make of it (goal) is what its directory in RAM will show.               *)
(***************************************************************************)
\* Names are short enough to be stored whole.
NamesFit == \A n \in Names : Truncated[n] = n

\* Reads succeed, and a behaviour has power losses or failing calls, not both
\* (unless only one thing goes wrong at all): a directory that could not be
\* written shows until the power goes, and not afterwards.
FaultsApart ==
  /\ "read" \notin Faults
  /\ "crash" \in Faults => Faults = {"crash"} \/ MaxFaults <= 1

Unique(ents) == \A i, j \in 1 .. Len(ents) : ents[i].name = ents[j].name => i = j

OnDisk(s) == SubSeq(dir[s].ents, 1, dir[s].count)

\* goal is one operation of the abstract store away from shown.
Effect ==
  \E n \in Names :
    \/ \E text \in Texts : goal = Store!With(n, Store!Contents(n) \o text \o <<EOL>>)
    \/ n \in DOMAIN shown /\ goal = Store!Without(n)
    \/ \E m \in Names :
         /\ n \in DOMAIN shown
         /\ \/ goal = Store!With(m, shown[n])
            \/ goal = [k \in (DOMAIN shown \ {n}) \cup {m} |-> IF k = m THEN shown[n] ELSE shown[k]]

ListInv == Unique(entries) /\ Len(entries) <= FS_MAX_FILES /\ faults \in Nat

\* The directory a mount would use is the one in RAM, or the one before it.
Fresh ==
  /\ dir_header(dir_sector) /\ dir[dir_sector].gen = generation
  /\ dir_header(Target) => dir[Target].gen < generation

CanCrash == "crash" \in Faults /\ faults < MaxFaults

OffInv ==
  /\ dir_header(0) /\ dir_header(1) => dir[0].gen # dir[1].gen
  /\ Unique(OnDisk(Newest({0, 1})))
  /\ ~compacting => OnFlash = shown
  /\ ~dir_header(0) /\ ~dir_header(1) => shown = <<>> /\ ~compacting

DiskInv ==
  /\ pc = "off" => OffInv
  /\ pc # "off" => Fresh /\ Unique(OnDisk(dir_sector))
  /\ pc # "off" /\ CanCrash /\ ~DirPhase => OnDisk(dir_sector) = entries
  /\ CanCrash /\ DirPhase /\ ~compacting => View(data, OnDisk(dir_sector)) = shown

JobPhase == CompactPhase \/ WritePhase \/ pc = "append" \/ (DirPhase /\ compacting)

ShowInv ==
  /\ (JobPhase /\ ~CompactPhase) \/ pc = "idle" => View(data, entries) = shown
  /\ DirPhase /\ ~compacting => View(data, entries) = goal /\ Effect

\* What an append is to make of its file.
Grows(c) ==
  /\ DOMAIN goal = DOMAIN shown \cup {job.name}
  /\ goal = [m \in DOMAIN goal |-> goal[m]]
  /\ \A m \in DOMAIN shown : m # job.name => goal[m] = shown[m]
  /\ Len(c) \in Nat /\ c = [i \in 1 .. Len(c) |-> c[i]]
  /\ find(job.name) # 0 => \A i \in 1 .. OldLen(job.name) : c[i] = shown[job.name][i]

GoalInv ==
  JobPhase =>
    LET c == goal[job.name] IN
    /\ Effect
    /\ find(job.name) = 0 => HasRoom(entries)
    /\ Grows(c)
    /\ pc # "text" => /\ Len(c) = OldLen(job.name) + Len(job.todo)
                      /\ \A j \in 1 .. Len(job.todo) : c[OldLen(job.name) + j] = job.todo[j]

\* What it has written of it.
WriteInv ==
  LET c == goal[job.name]
      b == NewBase(job.name)
  IN
  /\ pc = "copy" => /\ ~AtTail(job.name) /\ at = write_ptr + done
                    /\ \A i \in 1 .. done : data[write_ptr + i - 1] = c[i]
  /\ pc = "text" => /\ \A i \in 1 .. at - b : data[b + i - 1] = c[i]
                    /\ Len(c) = (at - b) + Len(job.todo)
                    /\ \A j \in 1 .. Len(job.todo) : job.todo[j] = c[(at - b) + j]

\* Cell c of a file, which a compaction in the given state (flash, sector, cells
\* staged, step) brings from offset p to offset q: it is where it was, staged for
\* the sector being written, or where it belongs.
PackedCell(q, p, c, d, s, staged, step) ==
  LET lo == s * SECTOR IN
  /\ q < lo => d[q] = c
  /\ lo <= q /\ step # "compact_write" => d[p] = c
  /\ lo + SECTOR <= q => d[p] = c
  /\ lo <= q /\ q < lo + SECTOR /\ step \in {"compact_erase", "compact_write"} => staged[q - lo + 1] = c

PackInv ==
  CompactPhase =>
    /\ DOMAIN shown = {entries[k].name : k \in 1 .. Len(entries)}
    /\ shown = [n \in DOMAIN shown |-> shown[n]]
    /\ \A k \in 1 .. Len(entries) :
         LET e == entries[k]
             v == shown[e.name]
         IN
         /\ v = [i \in 1 .. e.length |-> v[i]]
         /\ \A i \in 1 .. e.length : 
              PackedCell(NewOffset(e) + i - 1, e.offset + i - 1, v[i], data, sector, g_buf, pc)

StoreInv == ListInv /\ DiskInv /\ ShowInv /\ GoalInv /\ WriteInv /\ PackInv

(***************************************************************************)
(* What a directory shows.                                                 *)
(***************************************************************************)
NamesIn(ents) == {ents[i].name : i \in 1 .. Len(ents)}

LEMMA ViewFacts ==
  ASSUME NEW ents \in Seq(DirEntry), Unique(ents), NEW d
  PROVE  /\ View(d, ents) = [n \in DOMAIN View(d, ents) |-> View(d, ents)[n]]
         /\ DOMAIN View(d, ents) = NamesIn(ents)
         /\ \A i \in 1 .. Len(ents) : View(d, ents)[ents[i].name] = Content(d, ents[i])
<1> DEFINE at_(n) == Content(d, ents[Min(Indices(ents, n))])
<1>1. View(d, ents) = [n \in NamesIn(ents) |-> at_(n)]
  BY DEF View, NamesIn
<1>2. ASSUME NEW i \in 1 .. Len(ents)
      PROVE  at_(ents[i].name) = Content(d, ents[i]) /\ ents[i].name \in NamesIn(ents)
  <2> DEFINE S == Indices(ents, ents[i].name)
  <2>1. S \in SUBSET Nat /\ S # {} /\ S \subseteq 1 .. Len(ents)
    BY DEF Indices
  <2>2. \A j \in S : j = i
    BY DEF Indices, Unique
  <2> HIDE DEF S
  <2>3. Min(S) \in S
    BY ONLY <2>1, MinFacts
  <2>4. Min(S) = i
    BY <2>2, <2>3
  <2> QED
    BY <2>4 DEF S, NamesIn
<1> HIDE DEF at_
<1> QED
  BY <1>1, <1>2

LEMMA ViewIs ==
  ASSUME NEW ents \in Seq(DirEntry), Unique(ents), NEW d,
         NEW f, f = [n \in DOMAIN f |-> f[n]], DOMAIN f = NamesIn(ents),
         \A i \in 1 .. Len(ents) : f[ents[i].name] = Content(d, ents[i])
  PROVE  View(d, ents) = f
<1>1. /\ View(d, ents) = [n \in DOMAIN View(d, ents) |-> View(d, ents)[n]]
      /\ DOMAIN View(d, ents) = NamesIn(ents)
      /\ \A i \in 1 .. Len(ents) : View(d, ents)[ents[i].name] = Content(d, ents[i])
  BY ViewFacts
<1>2. \A n \in NamesIn(ents) : View(d, ents)[n] = f[n]
  BY <1>1 DEF NamesIn
<1> QED
  BY <1>1, <1>2

LEMMA SameContent ==
  ASSUME NEW e \in DirEntry, NEW c, NEW d, \A o \in Extent(e) : c[o] = d[o]
  PROVE  Content(c, e) = Content(d, e)
<1> DEFINE b == e.offset
           n == e.length
<1>1. b \in Nat /\ n \in Nat
  BY DEF DirEntry
<1>2. \A o \in b .. b + n - 1 : c[o] = d[o]
  BY DEF Extent
<1>3. Content(c, e) = [i \in 1 .. n |-> c[b + i - 1]] /\ Content(d, e) = [i \in 1 .. n |-> d[b + i - 1]]
  BY DEF Content
<1> HIDE DEF b, n
<1>4. \A i \in 1 .. n : c[b + i - 1] = d[b + i - 1]
  <2>1. \A i \in 1 .. n : b + i - 1 \in b .. b + n - 1
    BY ONLY <1>1
  <2> QED
    BY <1>2, <2>1
<1> QED
  BY <1>3, <1>4

\* Files show the same as long as their cells stay as they are.
LEMMA SameView ==
  ASSUME NEW ents \in Seq(DirEntry), Unique(ents), NEW c, NEW d,
         \A i \in 1 .. Len(ents) : \A o \in Extent(ents[i]) : c[o] = d[o]
  PROVE  View(c, ents) = View(d, ents)
<1>1. /\ View(d, ents) = [n \in DOMAIN View(d, ents) |-> View(d, ents)[n]]
      /\ DOMAIN View(d, ents) = NamesIn(ents)
      /\ \A i \in 1 .. Len(ents) : View(d, ents)[ents[i].name] = Content(d, ents[i])
  BY ViewFacts
<1>2. \A i \in 1 .. Len(ents) : Content(c, ents[i]) = Content(d, ents[i])
  BY SameContent
<1> HIDE DEF View
<1> QED
  BY <1>1, <1>2, ViewIs

\* A directory without its m-th entry, the names of the others being different.
LEMMA RemovedView ==
  ASSUME NEW s \in Seq(DirEntry), NEW m \in 1 .. Len(s), NEW d,
         \A i, j \in 1 .. Len(s) : i # m /\ j # m /\ s[i].name = s[j].name => i = j,
         NEW r, r = RemoveAt(s, m), NEW v, v = View(d, r)
  PROVE  /\ r \in Seq(DirEntry) /\ Unique(r) /\ Len(r) = Len(s) - 1
         /\ \A n : n \in NamesIn(r) <=> \E i \in 1 .. Len(s) : i # m /\ s[i].name = n
         /\ DOMAIN v = NamesIn(r) /\ v = [n \in DOMAIN v |-> v[n]]
         /\ \A i \in 1 .. Len(s) : i # m => v[s[i].name] = Content(d, s[i])
<1> DEFINE from(i) == IF i < m THEN i ELSE i + 1
           to(j) == IF j < m THEN j ELSE j - 1
<1>1. Len(s) \in Nat /\ m \in 1 .. Len(s)
  OBVIOUS
<1>2. /\ r \in Seq(DirEntry) /\ Len(r) = Len(s) - 1
      /\ \A i \in 1 .. Len(r) : r[i] = IF i < m THEN s[i] ELSE s[i + 1]
  <2> DEFINE x == RemoveAt(s, m)
  <2>1. /\ x \in Seq(DirEntry) /\ Len(x) = Len(s) - 1
        /\ \A i \in 1 .. Len(x) : x[i] = IF i < m THEN s[i] ELSE s[i + 1]
    BY Removed
  <2>2. r = x
    OBVIOUS
  <2> HIDE DEF x
  <2> QED
    BY <2>1, <2>2
<1>3. \A i \in 1 .. Len(r) : from(i) \in 1 .. Len(s) /\ from(i) # m /\ r[i] = s[from(i)]
  BY <1>1, <1>2
<1>4. \A i, k \in 1 .. Len(r) : from(i) = from(k) => i = k
  BY <1>1, <1>2
<1>5. \A j \in 1 .. Len(s) : j # m => to(j) \in 1 .. Len(r) /\ from(to(j)) = j
  BY <1>1, <1>2
<1> HIDE DEF from, to
<1>6. Unique(r)
  BY <1>3, <1>4 DEF Unique
<1>7. /\ v = [n \in DOMAIN v |-> v[n]] /\ DOMAIN v = NamesIn(r)
      /\ \A i \in 1 .. Len(r) : v[r[i].name] = Content(d, r[i])
  BY <1>2, <1>6, ViewFacts
<1>8. ASSUME NEW n
      PROVE  n \in NamesIn(r) <=> \E i \in 1 .. Len(s) : i # m /\ s[i].name = n
  <2>1. n \in NamesIn(r) <=> \E k \in 1 .. Len(r) : r[k].name = n
    BY DEF NamesIn
  <2> QED
    BY <1>3, <1>5, <2>1
<1>9. \A j \in 1 .. Len(s) : j # m => v[s[j].name] = Content(d, s[j])
  BY <1>3, <1>5, <1>7
<1> QED
  BY <1>2, <1>6, <1>7, <1>8, <1>9

\* A directory with one more entry.
LEMMA AppendedView ==
  ASSUME NEW s \in Seq(DirEntry), Unique(s), NEW e \in DirEntry, NEW d, e.name \notin NamesIn(s),
         NEW r \in Seq(DirEntry), Len(r) = Len(s) + 1, r[Len(s) + 1] = e,
         \A k \in 1 .. Len(s) : r[k] = s[k], NEW v, v = View(d, r)
  PROVE  /\ Unique(r)
         /\ (\A x : x \in DOMAIN v <=> x \in NamesIn(s) \/ x = e.name) /\ v = [n \in DOMAIN v |-> v[n]]
         /\ v[e.name] = Content(d, e)
         /\ \A n \in NamesIn(s) : v[n] = View(d, s)[n]
<1>1. /\ r \in Seq(DirEntry) /\ Len(r) = Len(s) + 1 /\ r[Len(s) + 1] = e /\ Len(s) \in Nat
      /\ \A k \in 1 .. Len(s) : r[k] = s[k]
  OBVIOUS
<1>2. \A k \in 1 .. Len(r) : k = Len(s) + 1 \/ k \in 1 .. Len(s)
  BY <1>1
<1>3. \A k \in 1 .. Len(s) : s[k].name \in NamesIn(s) /\ s[k].name # e.name /\ k \in 1 .. Len(r)
  BY <1>1 DEF NamesIn
<1>4. Len(s) + 1 \in 1 .. Len(r)
  BY <1>1
<1>5. Unique(r)
  BY <1>1, <1>2, <1>3 DEF Unique
<1>6. NamesIn(r) = NamesIn(s) \cup {e.name}
  BY <1>1, <1>2, <1>3, <1>4 DEF NamesIn
<1>7. \A k \in 1 .. Len(s) : View(d, s)[s[k].name] = Content(d, s[k])
  BY ViewFacts
<1>8. /\ v = [n \in DOMAIN v |-> v[n]] /\ DOMAIN v = NamesIn(r)
      /\ \A i \in 1 .. Len(r) : v[r[i].name] = Content(d, r[i])
  <2>1. r \in Seq(DirEntry) /\ Unique(r)
    BY <1>1, <1>5
  <2>2. /\ View(d, r) = [n \in DOMAIN View(d, r) |-> View(d, r)[n]]
        /\ DOMAIN View(d, r) = NamesIn(r)
        /\ \A i \in 1 .. Len(r) : View(d, r)[r[i].name] = Content(d, r[i])
    BY ONLY <2>1, ViewFacts
  <2>3. v = View(d, r)
    OBVIOUS
  <2> QED
    BY ONLY <2>2, <2>3
<1>9. v[e.name] = Content(d, e)
  BY <1>1, <1>4, <1>8
<1>10. \A k \in 1 .. Len(s) : v[s[k].name] = View(d, s)[s[k].name]
  BY <1>1, <1>3, <1>7, <1>8
<1>11. \A n \in NamesIn(s) : v[n] = View(d, s)[n]
  BY <1>10 DEF NamesIn
<1> QED
  BY <1>1, <1>5, <1>6, <1>8, <1>9, <1>11


\* What a directory in RAM that shows the files says of a name.
LEMMA Known ==
  ASSUME entries \in Seq(DirEntry), Unique(entries), View(data, entries) = shown, NEW n
  PROVE  /\ shown = [k \in DOMAIN shown |-> shown[k]] /\ DOMAIN shown = NamesIn(entries)
         /\ \A i \in 1 .. Len(entries) : shown[entries[i].name] = Content(data, entries[i])
         /\ find(n) # 0 <=> n \in DOMAIN shown
         /\ find(n) # 0 => /\ find(n) \in 1 .. Len(entries) /\ entries[find(n)].name = n
                           /\ entries[find(n)] \in DirEntry
                           /\ shown[n] = Content(data, entries[find(n)])
         /\ \A i \in 1 .. Len(entries) : entries[i].name = n => i = find(n)
<1>1. /\ shown = [k \in DOMAIN shown |-> shown[k]] /\ DOMAIN shown = NamesIn(entries)
      /\ \A i \in 1 .. Len(entries) : shown[entries[i].name] = Content(data, entries[i])
  <2>1. /\ View(data, entries) = [k \in DOMAIN View(data, entries) |-> View(data, entries)[k]]
        /\ DOMAIN View(data, entries) = NamesIn(entries)
        /\ \A i \in 1 .. Len(entries) : View(data, entries)[entries[i].name] = Content(data, entries[i])
    BY ViewFacts
  <2> HIDE DEF View
  <2> QED
    BY <2>1
<1>2. /\ find(n) # 0 => /\ find(n) \in 1 .. Len(entries) /\ entries[find(n)].name = n
                        /\ entries[find(n)] \in DirEntry
      /\ find(n) = 0 => \A i \in 1 .. Len(entries) : entries[i].name # n
  BY Found
<1>3. \A i \in 1 .. Len(entries) : entries[i].name = n => i = find(n)
  BY <1>2 DEF Unique
<1>4. find(n) # 0 <=> n \in DOMAIN shown
  BY <1>1, <1>2 DEF NamesIn
<1>5. find(n) # 0 => shown[n] = Content(data, entries[find(n)])
  BY <1>1, <1>2
<1> QED
  BY <1>1, <1>2, <1>3, <1>4, <1>5

\* An operation at rest.
LEMMA Rest ==
  ASSUME FInv, StoreInv, pc = "idle"
  PROVE  /\ Volume /\ entries \in Seq(DirEntry) /\ Unique(entries) /\ Len(entries) <= FS_MAX_FILES
         /\ Len(entries) \in Nat
         /\ View(data, entries) = shown /\ ~compacting /\ sector = 0
         /\ Fresh /\ Unique(OnDisk(dir_sector)) /\ (CanCrash => OnDisk(dir_sector) = entries)
<1>1. ~DirPhase /\ ~CompactPhase /\ pc # "off"
  BY DEF DirPhase, CompactPhase
<1>2. entries \in Seq(DirEntry) /\ Len(entries) \in Nat
  BY DEF FInv, Volume
<1>3. ~compacting /\ sector = 0
  BY <1>1 DEF FInv, Control, JobInv
<1> QED
  BY <1>1, <1>2, <1>3 DEF FInv, StoreInv, ListInv, DiskInv, ShowInv

LEMMA PersistStore ==
  ASSUME FInv, StoreInv, AtRest, Persist, UNCHANGED <<dir_sector, generation, write_ptr>>,
         Unique(entries'), Len(entries') <= FS_MAX_FILES, Effect'
  PROVE  StoreInv'
<1>1. /\ pc = "idle" /\ pc' = "dir_erase" /\ goal' = View(data, entries')
      /\ UNCHANGED <<data, dir, dir_sector, generation, job, compacting, shown, faults>>
  BY DEF AtRest, Persist, flash, append, pack
<1>2. /\ View(data, entries) = shown /\ ~compacting
      /\ Fresh /\ Unique(OnDisk(dir_sector)) /\ (CanCrash => OnDisk(dir_sector) = entries)
  BY <1>1, Rest
<1>3. ListInv'
  BY <1>1 DEF StoreInv, ListInv
<1>4. Fresh' /\ OnDisk(dir_sector)' = OnDisk(dir_sector) /\ CanCrash' = CanCrash
  BY <1>1, <1>2 DEF Fresh, dir_header, Target, OnDisk, CanCrash
<1>5. CanCrash' => View(data', OnDisk(dir_sector)') = shown'
  BY <1>1, <1>2, <1>4
<1>6. DiskInv'
  BY <1>1, <1>2, <1>4, <1>5 DEF DiskInv, DirPhase
<1>7. View(data', entries') = goal'
  BY <1>1
<1>8. ~JobPhase' /\ ~CompactPhase' /\ ~compacting'
  BY <1>1, <1>2 DEF JobPhase, CompactPhase, WritePhase
<1>9. ShowInv'
  BY <1>1, <1>7, <1>8 DEF ShowInv
<1>10. GoalInv' /\ PackInv'
  BY <1>8 DEF GoalInv, PackInv
<1>11. WriteInv'
  BY <1>1 DEF WriteInv
<1> QED
  BY <1>3, <1>6, <1>9, <1>10, <1>11 DEF StoreInv

LEMMA RemoveStore ==
  ASSUME FInv, StoreInv, NEW n \in Names, fs_remove(n)
  PROVE  StoreInv'
<1> DEFINE m == find(n)
           r == RemoveAt(entries, m)
<1>1. /\ pc = "idle" /\ AtRest /\ Persist /\ m # 0 /\ entries' = r
      /\ UNCHANGED <<dir_sector, generation, write_ptr, shown>> /\ goal' = View(data, entries')
  BY DEF fs_remove, AtRest, Persist
<1>2. /\ entries \in Seq(DirEntry) /\ Unique(entries) /\ Len(entries) <= FS_MAX_FILES
      /\ Len(entries) \in Nat /\ View(data, entries) = shown
  BY <1>1, Rest
<1>3. /\ DOMAIN shown = NamesIn(entries) /\ n \in DOMAIN shown
      /\ \A i \in 1 .. Len(entries) : shown[entries[i].name] = Content(data, entries[i])
      /\ m \in 1 .. Len(entries) /\ entries[m].name = n
      /\ \A i \in 1 .. Len(entries) : entries[i].name = n => i = m
  BY <1>1, <1>2, Known
<1> DEFINE v == View(data, r)
<1> HIDE DEF m
<1>a. r = RemoveAt(entries, m) /\ v = View(data, r)
  OBVIOUS
<1> HIDE DEF r, v
<1>4. /\ Unique(r) /\ Len(r) = Len(entries) - 1 /\ v = [k \in DOMAIN v |-> v[k]]
      /\ \A x : x \in DOMAIN v <=> \E i \in 1 .. Len(entries) : i # m /\ entries[i].name = x
      /\ \A i \in 1 .. Len(entries) : i # m => v[entries[i].name] = Content(data, entries[i])
  <2>1. \A i, j \in 1 .. Len(entries) : i # m /\ j # m /\ entries[i].name = entries[j].name => i = j
    BY <1>2 DEF Unique
  <2> QED
    BY <1>2, <1>3, <1>a, <2>1, RemovedView
<1>5. v = [k \in DOMAIN shown \ {n} |-> shown[k]]
  <2>1. \A x : x \in DOMAIN shown <=> \E i \in 1 .. Len(entries) : entries[i].name = x
    BY <1>3 DEF NamesIn
  <2>2. DOMAIN v = DOMAIN shown \ {n}
    <3>1. \A i \in 1 .. Len(entries) : i # m <=> entries[i].name # n
      BY ONLY <1>3
    <3>2. \A x : x \in DOMAIN v <=> x \in DOMAIN shown /\ x # n
      BY ONLY <1>4, <2>1, <3>1
    <3> QED
      BY ONLY <3>2
  <2>3. \A k \in DOMAIN v : v[k] = shown[k]
    BY <1>3, <1>4
  <2> QED
    BY <1>4, <2>2, <2>3
<1>6. goal' = [k \in DOMAIN shown' \ {n} |-> shown'[k]] /\ n \in DOMAIN shown'
  BY <1>1, <1>3, <1>5, <1>a
<1>7. Effect'
  BY <1>6 DEF Effect, Store!Without
<1>8. Len(entries') <= FS_MAX_FILES
  BY <1>1, <1>2, <1>4, GeometryAssumption
<1> QED
  BY <1>1, <1>4, <1>7, <1>8, PersistStore

LEMMA CopyStore ==
  ASSUME FInv, StoreInv, NamesFit, NEW src \in Names, NEW dst \in Names, fs_copy(src, dst)
  PROVE  StoreInv'
<1> DEFINE m == find(dst)
           rest == IF m = 0 THEN entries ELSE RemoveAt(entries, m)
           x == entries[find(src)]
           e == [x EXCEPT !.name = dst]
           r == Append(rest, e)
           v == View(data, r)
<1>1. /\ pc = "idle" /\ AtRest /\ Persist /\ find(src) # 0 /\ entries' = r /\ Len(rest) < FS_MAX_FILES
      /\ UNCHANGED <<dir_sector, generation, write_ptr, shown>> /\ goal' = View(data, entries')
  BY DEF fs_copy, AtRest, Persist, NamesFit, HasRoom
<1>2. /\ entries \in Seq(DirEntry) /\ Unique(entries) /\ Len(entries) <= FS_MAX_FILES
      /\ Len(entries) \in Nat /\ View(data, entries) = shown
  BY <1>1, Rest
<1>3. /\ shown = [k \in DOMAIN shown |-> shown[k]] /\ DOMAIN shown = NamesIn(entries)
      /\ \A i \in 1 .. Len(entries) : shown[entries[i].name] = Content(data, entries[i])
      /\ m # 0 => m \in 1 .. Len(entries) /\ entries[m].name = dst
      /\ \A i \in 1 .. Len(entries) : entries[i].name = dst => i = m
  BY <1>2, Known
<1>4. x \in DirEntry /\ shown[src] = Content(data, x) /\ src \in DOMAIN shown
  BY <1>1, <1>2, Known
<1> HIDE DEF x
<1>5. e \in DirEntry /\ e.name = dst /\ e.offset = x.offset /\ e.length = x.length
  BY <1>4 DEF DirEntry
<1>6. Content(data, e) = shown[src]
  BY <1>4, <1>5 DEF Content
<1> HIDE DEF e, m
<1>7. /\ rest \in Seq(DirEntry) /\ Unique(rest) /\ NamesIn(rest) = NamesIn(entries) \ {dst}
      /\ \A k \in NamesIn(rest) : View(data, rest)[k] = shown[k]
  <2>1. CASE m = 0
    <3>1. rest = entries
      BY <2>1
    <3>2. \A i \in 1 .. Len(entries) : entries[i].name # dst
      BY <1>3, <2>1, <1>2
    <3>3. dst \notin NamesIn(entries)
      BY <3>2 DEF NamesIn
    <3> HIDE DEF rest
    <3> QED
      BY <1>2, <3>1, <3>3
  <2>2. CASE m # 0
    <3> DEFINE w == View(data, rest)
    <3>1. rest = RemoveAt(entries, m) /\ m \in 1 .. Len(entries) /\ entries[m].name = dst
      BY <1>3, <2>2
    <3> HIDE DEF rest
    <3>2. \A i, j \in 1 .. Len(entries) : i # m /\ j # m /\ entries[i].name = entries[j].name => i = j
      BY <1>2 DEF Unique
    <3>3. w = View(data, rest)
      OBVIOUS
    <3> HIDE DEF w
    <3>4. /\ rest \in Seq(DirEntry) /\ Unique(rest) /\ DOMAIN w = NamesIn(rest)
          /\ \A y : y \in NamesIn(rest) <=> \E i \in 1 .. Len(entries) : i # m /\ entries[i].name = y
          /\ \A i \in 1 .. Len(entries) : i # m => w[entries[i].name] = Content(data, entries[i])
      BY <1>2, <3>1, <3>2, <3>3, RemovedView
    <3>5. NamesIn(rest) = NamesIn(entries) \ {dst}
      <4>1. \A i \in 1 .. Len(entries) : i # m <=> entries[i].name # dst
        BY <1>3, <3>1
      <4>2. \A y : y \in NamesIn(entries) <=> \E i \in 1 .. Len(entries) : entries[i].name = y
        BY DEF NamesIn
      <4> QED
        BY <3>4, <4>1, <4>2
    <3>6. \A k \in NamesIn(rest) : w[k] = shown[k]
      BY <1>3, <3>4
    <3> QED
      BY <3>3, <3>4, <3>5, <3>6
  <2> QED
    BY <2>1, <2>2
<1> HIDE DEF rest
<1>a. r = Append(rest, e) /\ v = View(data, r)
  OBVIOUS
<1> HIDE DEF r, v
<1>8. /\ Unique(r) /\ Len(r) = Len(rest) + 1
      /\ DOMAIN v = NamesIn(rest) \cup {dst} /\ v = [n \in DOMAIN v |-> v[n]]
      /\ v[dst] = shown[src] /\ \A n \in NamesIn(rest) : v[n] = View(data, rest)[n]
  <2>1. e.name \notin NamesIn(rest)
    BY <1>5, <1>7
  <2>2. /\ Unique(r) /\ Len(r) = Len(rest) + 1
        /\ \A y : y \in DOMAIN v <=> y \in NamesIn(rest) \/ y = e.name
        /\ v = [n \in DOMAIN v |-> v[n]]
        /\ v[e.name] = Content(data, e)
        /\ \A n \in NamesIn(rest) : v[n] = View(data, rest)[n]
    <3>1. rest \in Seq(DirEntry) /\ Unique(rest) /\ e \in DirEntry
      BY <1>5, <1>7
    <3>2. /\ r \in Seq(DirEntry) /\ Len(r) = Len(rest) + 1 /\ r[Len(rest) + 1] = e
          /\ \A k \in 1 .. Len(rest) : r[k] = rest[k]
      BY ONLY <1>a, <3>1
    <3>3. v = View(data, r)
      BY <1>a
    <3>4. /\ Unique(r)
          /\ \A y : y \in DOMAIN v <=> y \in NamesIn(rest) \/ y = e.name
          /\ v = [n \in DOMAIN v |-> v[n]]
          /\ v[e.name] = Content(data, e)
          /\ \A n \in NamesIn(rest) : v[n] = View(data, rest)[n]
      BY ONLY <2>1, <3>1, <3>2, <3>3, AppendedView
    <3> QED
      BY <3>2, <3>4
  <2> QED
    BY <1>5, <1>6, <2>2
<1>9. v = [n \in DOMAIN shown \cup {dst} |-> IF n = dst THEN shown[src] ELSE shown[n]]
  <2>1. NamesIn(rest) \cup {dst} = DOMAIN shown \cup {dst}
    BY <1>3, <1>7
  <2>2. \A n \in DOMAIN shown : n # dst => n \in NamesIn(rest) /\ View(data, rest)[n] = shown[n]
    BY <1>3, <1>7
  <2>3. \A n \in DOMAIN v : v[n] = IF n = dst THEN shown[src] ELSE shown[n]
    BY <1>8, <2>1, <2>2
  <2> QED
    BY <1>8, <2>1, <2>3
<1>10. goal' = [n \in DOMAIN shown' \cup {dst} |-> IF n = dst THEN shown'[src] ELSE shown'[n]]
        /\ src \in DOMAIN shown'
  BY <1>1, <1>4, <1>9, <1>a
<1>11. Effect'
  BY <1>10 DEF Effect, Store!With
<1>12. Len(entries') <= FS_MAX_FILES /\ Unique(entries')
  BY <1>1, <1>7, <1>8, GeometryAssumption
<1> QED
  BY <1>1, <1>11, <1>12, PersistStore

LEMMA RenameStore ==
  ASSUME FInv, StoreInv, NamesFit, NEW old \in Names, NEW new \in Names, fs_rename(old, new)
  PROVE  StoreInv'
<1> DEFINE i == find(old)
           j == Replaced(old, new)
           r == [entries EXCEPT ![i].name = new]
           e == [entries[i] EXCEPT !.name = new]
           f == [k \in (DOMAIN shown \ {old}) \cup {new} |-> IF k = new THEN shown[old] ELSE shown[k]]
<1>1. /\ pc = "idle" /\ AtRest /\ Persist /\ i # 0
      /\ entries' = IF j # 0 THEN RemoveAt(r, j) ELSE r
      /\ UNCHANGED <<dir_sector, generation, write_ptr, shown>> /\ goal' = View(data, entries')
  BY DEF fs_rename, AtRest, Persist, NamesFit
<1>2. /\ entries \in Seq(DirEntry) /\ Unique(entries) /\ Len(entries) <= FS_MAX_FILES
      /\ Len(entries) \in Nat /\ View(data, entries) = shown
  BY <1>1, Rest
<1>3. /\ DOMAIN shown = NamesIn(entries) /\ old \in DOMAIN shown
      /\ \A k \in 1 .. Len(entries) : shown[entries[k].name] = Content(data, entries[k])
      /\ i \in 1 .. Len(entries) /\ entries[i].name = old /\ entries[i] \in DirEntry
      /\ shown[old] = Content(data, entries[i])
      /\ \A k \in 1 .. Len(entries) : entries[k].name = old => k = i
  BY <1>1, <1>2, Known
<1>4. /\ j # 0 => j \in 1 .. Len(entries) /\ j # i /\ entries[j].name = new
      /\ \A k \in 1 .. Len(entries) : entries[k].name = new => k = i \/ k = j
  <2>1. /\ find(new) # 0 => find(new) \in 1 .. Len(entries) /\ entries[find(new)].name = new
        /\ \A k \in 1 .. Len(entries) : entries[k].name = new => k = find(new)
    BY <1>2, Known
  <2> QED
    BY <2>1 DEF Replaced
<1> HIDE DEF i, j
<1>5. e.offset = entries[i].offset /\ e.length = entries[i].length /\ e.name = new
  BY <1>3 DEF DirEntry
<1>6. Content(data, e) = shown[old]
  BY <1>3, <1>5 DEF Content
<1>7. /\ r \in Seq(DirEntry) /\ Len(r) = Len(entries)
      /\ \A k \in 1 .. Len(entries) : r[k] = IF k = i THEN e ELSE entries[k]
  BY <1>2, <1>3, RenamedWithin
<1> HIDE DEF r, e
<1>8. i \in 1 .. Len(r) /\ i # j /\ r[i] = e
  BY <1>3, <1>4, <1>7
<1>9. \A k \in 1 .. Len(r) : k # j /\ k # i => k \in 1 .. Len(entries) /\ r[k] = entries[k] /\ r[k].name # new /\ r[k].name # old
  BY <1>3, <1>4, <1>7
<1>10. \A k, l \in 1 .. Len(r) : k # j /\ l # j /\ r[k].name = r[l].name => k = l
  <2> SUFFICES ASSUME NEW k \in 1 .. Len(r), NEW l \in 1 .. Len(r), k # j, l # j, r[k].name = r[l].name PROVE k = l
    OBVIOUS
  <2>1. CASE k = i \/ l = i
    BY <1>5, <1>8, <1>9, <2>1
  <2>2. CASE k # i /\ l # i
    BY <1>2, <1>9, <2>2 DEF Unique
  <2> QED
    BY <2>1, <2>2
<1>11. \A x : x \in DOMAIN f <=> \E k \in 1 .. Len(r) : k # j /\ r[k].name = x
  <2>1. DOMAIN f = (DOMAIN shown \ {old}) \cup {new} /\ f = [k \in DOMAIN f |-> f[k]]
    OBVIOUS
  <2>2. \A k \in 1 .. Len(r) : k # j => r[k].name \in (DOMAIN shown \ {old}) \cup {new}
    BY <1>3, <1>5, <1>8, <1>9 DEF NamesIn
  <2>3. ASSUME NEW x \in DOMAIN shown, x # old, x # new
        PROVE  \E k \in 1 .. Len(r) : k # j /\ r[k].name = x
    <3>1. PICK k \in 1 .. Len(entries) : entries[k].name = x
      BY <1>3 DEF NamesIn
    <3>2. k \in 1 .. Len(r) /\ k # j /\ k # i
      BY <1>3, <1>4, <1>7, <2>3, <3>1
    <3> QED
      BY <1>9, <3>1, <3>2
  <2>4. \E k \in 1 .. Len(r) : k # j /\ r[k].name = new
    BY <1>5, <1>8
  <2> QED
    BY <2>1, <2>2, <2>3, <2>4
<1>12. f = [k \in DOMAIN f |-> f[k]]
  OBVIOUS
<1>13. \A k \in 1 .. Len(r) : k # j => f[r[k].name] = Content(data, r[k])
  <2> SUFFICES ASSUME NEW k \in 1 .. Len(r), k # j PROVE f[r[k].name] = Content(data, r[k])
    OBVIOUS
  <2>0. r[k].name \in DOMAIN f
    BY <1>11
  <2>1. CASE k = i
    BY <1>5, <1>6, <1>8, <2>1
  <2>2. CASE k # i
    <3>1. r[k] = entries[k] /\ r[k].name # new /\ k \in 1 .. Len(entries)
      BY <1>9, <2>2
    <3>2. shown[entries[k].name] = Content(data, entries[k])
      BY <1>3, <3>1
    <3> QED
      BY <2>0, <3>1, <3>2
  <2> QED
    BY <2>1, <2>2
<1> HIDE DEF f
<1>14. entries' \in Seq(DirEntry) /\ Unique(entries') /\ Len(entries') <= FS_MAX_FILES
         /\ View(data, entries') = f
  <2>1. CASE j = 0
    <3>1. entries' = r /\ \A k \in 1 .. Len(r) : k # j
      BY <1>1, <1>2, <1>7, <2>1
    <3>2. Unique(r)
      BY <1>10, <3>1 DEF Unique
    <3>3. \A k \in 1 .. Len(r) : f[r[k].name] = Content(data, r[k])
      BY <1>13, <3>1
    <3>4. DOMAIN f = NamesIn(r)
      <4>1. \A x : x \in NamesIn(r) <=> \E k \in 1 .. Len(r) : r[k].name = x
        BY DEF NamesIn
      <4> QED
        BY <1>11, <3>1, <4>1
    <3>5. View(data, r) = f
      BY <1>7, <1>12, <3>2, <3>3, <3>4, ViewIs
    <3> QED
      BY <1>2, <1>7, <3>1, <3>2, <3>5
  <2>2. CASE j # 0
    <3> DEFINE s == RemoveAt(r, j)
               v == View(data, s)
    <3>1. entries' = s /\ j \in 1 .. Len(r)
      BY <1>1, <1>4, <1>7, <2>2
    <3>2. s = RemoveAt(r, j) /\ v = View(data, s)
      OBVIOUS
    <3> HIDE DEF s, v
    <3>3. /\ s \in Seq(DirEntry) /\ Unique(s) /\ Len(s) = Len(r) - 1
          /\ \A x : x \in NamesIn(s) <=> \E k \in 1 .. Len(r) : k # j /\ r[k].name = x
          /\ DOMAIN v = NamesIn(s) /\ v = [k \in DOMAIN v |-> v[k]]
          /\ \A k \in 1 .. Len(r) : k # j => v[r[k].name] = Content(data, r[k])
      BY <1>7, <1>10, <3>1, <3>2, RemovedView
    <3>4. DOMAIN v = DOMAIN f
      BY <1>11, <3>3
    <3>5. \A k \in DOMAIN v : v[k] = f[k]
      BY <1>13, <3>3
    <3>6. v = f
      BY <1>12, <3>3, <3>4, <3>5
    <3>7. Len(s) <= FS_MAX_FILES
      BY <1>2, <1>7, <3>3, GeometryAssumption
    <3> QED
      BY <3>1, <3>2, <3>3, <3>6, <3>7
  <2> QED
    BY <2>1, <2>2
<1>15. goal' = [k \in (DOMAIN shown' \ {old}) \cup {new} |-> IF k = new THEN shown'[old] ELSE shown'[k]]
         /\ old \in DOMAIN shown'
  BY <1>1, <1>3, <1>14 DEF f
<1>16. Effect'
  BY <1>15 DEF Effect
<1> QED
  BY <1>1, <1>14, <1>16, PersistStore

LEMMA SameFind ==
  ASSUME entries' = entries
  PROVE  \A n : find(n)' = find(n) /\ OldLen(n)' = OldLen(n)
  BY DEF find, Indices, OldLen

\* The bytes of a file as a sequence.
LEMMA ContentSeq ==
  ASSUME NEW e \in DirEntry, NEW d
  PROVE  /\ Content(d, e) \in Seq({d[e.offset + i - 1] : i \in Nat}) /\ Len(Content(d, e)) = e.length
         /\ \A i \in 1 .. e.length : Content(d, e)[i] = d[e.offset + i - 1]
<1> DEFINE m == e.length
           c == Content(d, e)
           S == {d[e.offset + i - 1] : i \in Nat}
           f == [i \in 1 .. m |-> d[e.offset + i - 1]]
<1>1. m \in Nat
  BY DEF DirEntry
<1>2. c = f
  BY DEF Content
<1>3. \A i \in 1 .. m : d[e.offset + i - 1] \in S
  BY <1>1
<1> HIDE DEF m, S
<1>4. f \in Seq(S) /\ Len(f) = m
  BY <1>1, <1>3
<1>5. \A i \in 1 .. m : f[i] = d[e.offset + i - 1]
  OBVIOUS
<1> HIDE DEF c, f
<1> QED
  BY <1>2, <1>4, <1>5 DEF c, m, S

LEMMA AppendLineStore ==
  ASSUME FInv, StoreInv, NamesFit, NEW n \in Names, NEW text \in Texts, fs_append_line(n, text)
  PROVE  StoreInv'
<1> DEFINE old == Store!Contents(n)
<1>a. PICK line : line = text \o <<EOL>>
  OBVIOUS
<1>b. PICK c : c = old \o line
  OBVIOUS
<1>1. /\ pc = "idle" /\ (find(n) = 0 => HasRoom(entries))
      /\ job' = [name |-> n, todo |-> line] /\ compacting' \in BOOLEAN
      /\ pc' = IF compacting' THEN "compact" ELSE "append"
      /\ goal' = Store!With(n, c)
      /\ UNCHANGED <<data, dir, entries, dir_sector, generation, write_ptr, at, done, sector, g_buf,
                     shown, faults>>
  BY <1>a, <1>b DEF fs_append_line, AtRest, flash, ram, NamesFit
<1>2. /\ Volume /\ entries \in Seq(DirEntry) /\ Unique(entries) /\ Len(entries) <= FS_MAX_FILES
      /\ View(data, entries) = shown /\ ~compacting /\ sector = 0
      /\ Fresh /\ Unique(OnDisk(dir_sector)) /\ (CanCrash => OnDisk(dir_sector) = entries)
  BY <1>1, Rest
<1>3. /\ shown = [k \in DOMAIN shown |-> shown[k]] /\ DOMAIN shown = NamesIn(entries)
      /\ \A i \in 1 .. Len(entries) : shown[entries[i].name] = Content(data, entries[i])
      /\ find(n) # 0 <=> n \in DOMAIN shown
      /\ find(n) # 0 => entries[find(n)] \in DirEntry /\ shown[n] = Content(data, entries[find(n)])
  BY <1>2, Known
<1>4. \E S : old \in Seq(S) /\ Len(old) = OldLen(n) /\ text \in Seq(S) /\ <<EOL>> \in Seq(S)
  <2> DEFINE A == {data[entries[find(n)].offset + i - 1] : i \in Nat}
             S == A \cup ToSet(text) \cup {EOL}
  <2>1. old \in Seq(A) /\ Len(old) = OldLen(n)
    <3>1. CASE find(n) = 0
      <4>1. old = <<>> /\ OldLen(n) = 0
        BY <1>3, <3>1 DEF Store!Contents, OldLen
      <4> HIDE DEF old, A
      <4> QED
        BY <4>1
    <3>2. CASE find(n) # 0
      <4> DEFINE e == entries[find(n)]
      <4>1. e \in DirEntry /\ old = Content(data, e) /\ OldLen(n) = e.length
        BY <1>3, <3>2 DEF Store!Contents, OldLen
      <4> HIDE DEF old
      <4>2. Content(data, e) \in Seq(A) /\ Len(Content(data, e)) = e.length
        BY <4>1, ContentSeq
      <4> QED
        BY <4>1, <4>2
    <3> QED
      BY <3>1, <3>2
  <2>2. text \in Seq(ToSet(text))
    BY TextsAssumption
  <2>3. <<EOL>> \in Seq({EOL})
    OBVIOUS
  <2> HIDE DEF A, old
  <2>4. Seq(A) \subseteq Seq(S) /\ Seq(ToSet(text)) \subseteq Seq(S) /\ Seq({EOL}) \subseteq Seq(S)
    <3>1. A \subseteq S /\ ToSet(text) \subseteq S /\ {EOL} \subseteq S
      OBVIOUS
    <3> HIDE DEF S
    <3>2. \A X : X \subseteq S => Seq(X) \subseteq Seq(S)
      OBVIOUS
    <3> QED
      BY <3>1, <3>2
  <2> QED
    BY <2>1, <2>2, <2>3, <2>4
<1> HIDE DEF old
<1>5. /\ c = old \o text \o <<EOL>>
      /\ Len(line) \in Nat /\ c = [i \in 1 .. Len(c) |-> c[i]] /\ Len(c) \in Nat
      /\ Len(c) = OldLen(n) + Len(line)
      /\ \A i \in 1 .. OldLen(n) : c[i] = old[i]
      /\ \A j \in 1 .. Len(line) : c[OldLen(n) + j] = line[j]
  <2>1. PICK S : old \in Seq(S) /\ Len(old) = OldLen(n) /\ text \in Seq(S) /\ <<EOL>> \in Seq(S)
    BY <1>4
  <2> DEFINE end == <<EOL>>
  <2>2. line = text \o end /\ end \in Seq(S)
    BY <1>a, <2>1
  <2> HIDE DEF end
  <2>3. /\ c = old \o text \o end
        /\ line \in Seq(S) /\ c \in Seq(S) /\ c = [i \in 1 .. Len(c) |-> c[i]]
        /\ Len(old) \in Nat /\ Len(line) \in Nat /\ Len(c) = Len(old) + Len(line)
        /\ \A i \in 1 .. Len(old) : c[i] = old[i]
        /\ \A j \in 1 .. Len(line) : c[Len(old) + j] = line[j]
    <3>0. old \in Seq(S) /\ text \in Seq(S) /\ end \in Seq(S) /\ line = text \o end /\ c = old \o line
      BY <1>b, <2>1, <2>2
    <3>1. line \in Seq(S)
      BY <3>0, ConcatProperties
    <3>2. c = old \o text \o end
      <4>1. (old \o text) \o end = old \o (text \o end)
        BY ONLY <3>0, ConcatAssociative
      <4> QED
        BY ONLY <3>0, <4>1
    <3>3. /\ old \o line \in Seq(S) /\ Len(old \o line) = Len(old) + Len(line)
          /\ \A i \in 1 .. Len(old) + Len(line) :
               (old \o line)[i] = IF i <= Len(old) THEN old[i] ELSE line[i - Len(old)]
      BY ONLY <3>0, <3>1, ConcatProperties
    <3>4. /\ c \in Seq(S) /\ Len(c) = Len(old) + Len(line)
          /\ \A i \in 1 .. Len(old) + Len(line) : c[i] = IF i <= Len(old) THEN old[i] ELSE line[i - Len(old)]
      BY ONLY <3>0, <3>3
    <3>5. Len(old) \in Nat /\ Len(line) \in Nat /\ c = [i \in 1 .. Len(c) |-> c[i]]
      <4>1. c \in Seq(S)
        BY <3>4
      <4>2. c = [i \in 1 .. Len(c) |-> c[i]]
        BY ONLY <4>1
      <4> QED
        BY <3>0, <3>1, <4>2
    <3> DEFINE x == Len(old)
               y == Len(line)
    <3>6. /\ x \in Nat /\ y \in Nat
          /\ \A i \in 1 .. x + y : c[i] = IF i <= x THEN old[i] ELSE line[i - x]
      BY <3>4, <3>5
    <3> HIDE DEF x, y
    <3>7. (\A i \in 1 .. x : c[i] = old[i]) /\ \A j \in 1 .. y : c[x + j] = line[j]
      <4>1. \A i \in 1 .. x : i \in 1 .. x + y /\ i <= x
        BY ONLY <3>6
      <4>2. \A j \in 1 .. y : x + j \in 1 .. x + y /\ ~(x + j <= x) /\ (x + j) - x = j
        BY ONLY <3>6
      <4> QED
        BY ONLY <3>6, <4>1, <4>2
    <3> QED
      BY <3>1, <3>2, <3>4, <3>5, <3>7 DEF x, y
  <2>4. Len(c) \in Nat
    BY <2>3
  <2> QED
    BY <2>1, <2>3, <2>4 DEF end
<1>6. /\ DOMAIN goal' = DOMAIN shown \cup {n} /\ goal' = [m \in DOMAIN goal' |-> goal'[m]]
      /\ goal'[n] = c /\ \A m \in DOMAIN shown : m # n => goal'[m] = shown[m]
  BY <1>1 DEF Store!With
<1>7. Effect'
  <2>1. goal' = Store!With(n, old \o text \o <<EOL>>)
    BY <1>1, <1>5
  <2> QED
    <3>1. goal' = [m \in DOMAIN shown' \cup {n} |-> IF m = n THEN old \o text \o <<EOL>> ELSE shown'[m]]
      BY <1>1, <2>1 DEF Store!With
    <3>2. old = IF n \in DOMAIN shown' THEN shown'[n] ELSE <<>>
      BY <1>1 DEF Store!Contents, old
    <3>3. \E nn \in Names, tt \in Texts :
            goal' = [m \in DOMAIN shown' \cup {nn} |->
                       IF m = nn THEN (IF nn \in DOMAIN shown' THEN shown'[nn] ELSE <<>>) \o tt \o <<EOL>>
                       ELSE shown'[m]]
      BY <3>1, <3>2
    <3> QED
      BY <3>3 DEF Effect, Store!With, Store!Contents
<1>8. ListInv'
  BY <1>1 DEF StoreInv, ListInv
<1>9. ~DirPhase' /\ ~WritePhase' /\ pc' \notin {"off", "idle", "copy", "text"}
  BY <1>1 DEF DirPhase, WritePhase
<1>10. DiskInv'
  <2>1. Fresh' /\ OnDisk(dir_sector)' = OnDisk(dir_sector) /\ CanCrash' = CanCrash
    BY <1>1, <1>2 DEF Fresh, dir_header, Target, OnDisk, CanCrash
  <2> QED
    BY <1>1, <1>2, <1>9, <2>1 DEF DiskInv
<1>11. ShowInv'
  BY <1>1, <1>2, <1>9 DEF ShowInv
<1>12. GoalInv'
  <2>1. /\ job'.name = n /\ job'.todo = line /\ find(n)' = find(n) /\ OldLen(n)' = OldLen(n)
        /\ goal'[job'.name] = c /\ shown' = shown /\ entries' = entries
    BY <1>1, <1>6, SameFind
  <2>2. find(n) # 0 => \A i \in 1 .. OldLen(n) : c[i] = shown[n][i]
    BY <1>3, <1>5 DEF Store!Contents, old
  <2>3. Grows(c)'
    BY <1>5, <1>6, <2>1, <2>2 DEF Grows
  <2>4. find(job.name)' = 0 => HasRoom(entries)'
    BY <1>1, <2>1 DEF HasRoom
  <2> QED
    BY <1>5, <1>7, <2>1, <2>3, <2>4 DEF GoalInv
<1>13. WriteInv'
  BY <1>9 DEF WriteInv
<1>14. PackInv'
  <2> SUFFICES ASSUME CompactPhase' PROVE PackInv'
    BY DEF PackInv
  <2>1. DOMAIN shown = {entries[k].name : k \in 1 .. Len(entries)}
    BY <1>3 DEF NamesIn
  <2>2. ASSUME NEW k \in 1 .. Len(entries)
        PROVE  LET e == entries[k]
                   v == shown[e.name]
               IN  /\ v = [i \in 1 .. e.length |-> v[i]]
                   /\ \A i \in 1 .. e.length : /\ NewOffset(e) + i - 1 \in Nat
                                               /\ data[e.offset + i - 1] = v[i]
    <3> DEFINE e == entries[k]
               v == shown[e.name]
    <3>1. e \in DirEntry /\ v = Content(data, e)
      BY <1>2, <1>3
    <3>2. v = [i \in 1 .. e.length |-> v[i]] /\ \A i \in 1 .. e.length : data[e.offset + i - 1] = v[i]
      BY <3>1, ContentSeq DEF Content
    <3>3. NewOffset(e) \in Nat
      BY <1>2, Moving
    <3> HIDE DEF e
    <3>4. \A i \in 1 .. e.length : NewOffset(e) + i - 1 \in Nat
      BY <3>1, <3>3 DEF DirEntry
    <3> QED
      BY <3>2, <3>4 DEF e
  <2>3. /\ Regions' = Regions /\ sector' * SECTOR = 0 /\ \A e : NewOffset(e)' = NewOffset(e)
        /\ pc' = "compact"
    BY <1>1, <1>2, <1>9, SameRegions, Sizes DEF NewOffset, CompactPhase
  <2>4. UNCHANGED <<data, entries, shown>>
    BY <1>1
  <2> QED
    BY <1>3, <2>1, <2>2, <2>3, <2>4 DEF PackInv, PackedCell
<1> QED
  BY <1>8, <1>10, <1>11, <1>12, <1>13, <1>14 DEF StoreInv

(***************************************************************************)
(* Mounting and formatting.                                                *)
(***************************************************************************)
LEMMA NewestFacts ==
  ASSUME dir \in [0 .. 1 -> Header], NEW t \in 0 .. 1, dir_header(t),
         dir_header(0) /\ dir_header(1) => dir[0].gen # dir[1].gen,
         NEW s, s = Newest({0, 1})
  PROVE  /\ s \in 0 .. 1 /\ dir_header(s)
         /\ dir_header(1 - s) => dir[1 - s].gen < dir[s].gen
<1>1. dir[0].gen \in Nat /\ dir[1].gen \in Nat
  BY DEF Header
<1>2. s = IF dir_header(1) /\ (~dir_header(0) \/ dir[1].gen > dir[0].gen) THEN 1 ELSE 0
  BY DEF Newest
<1>3. t = 0 \/ t = 1
  OBVIOUS
<1>4. CASE s = 1
  BY <1>1, <1>2, <1>3, <1>4
<1>5. CASE s = 0
  BY <1>1, <1>2, <1>3, <1>5
<1> QED
  BY <1>2, <1>4, <1>5

LEMMA Shown ==
  ASSUME Return
  PROVE  /\ pc' = "idle" /\ ~JobPhase' /\ ~DirPhase' /\ ~CompactPhase'
         /\ View(data', entries') = shown' /\ GoalInv' /\ WriteInv' /\ PackInv' /\ ShowInv'
<1>1. pc' = "idle" /\ compacting' = FALSE /\ shown' = View(data', entries')
  BY DEF Return
<1>2. ~JobPhase' /\ ~DirPhase' /\ ~CompactPhase'
  BY <1>1 DEF JobPhase, DirPhase, CompactPhase, WritePhase
<1> QED
  BY <1>1, <1>2 DEF GoalInv, WriteInv, PackInv, ShowInv

LEMMA ReturnStore ==
  ASSUME Return, ListInv', Fresh', Unique(OnDisk(dir_sector))',
         CanCrash' => (OnDisk(dir_sector) = entries)'
  PROVE  StoreInv'
<1>1. pc' = "idle" /\ ~DirPhase'
  BY Shown
<1>2. DiskInv'
  BY <1>1 DEF DiskInv
<1> QED
  BY <1>2, Shown DEF StoreInv

LEMMA NoReads ==
  ASSUME FaultsApart, NEW bad \in Unreadable
  PROVE  bad = {}
  BY DEF FaultsApart, Unreadable

LEMMA MountStore ==
  ASSUME FInv, StoreInv, mount({})
  PROVE  /\ StoreInv' /\ pc = "off"
         /\ OffInv /\ shown' = OnFlash
<1> DEFINE s == Newest({0, 1})
           e == SubSeq(dir[s].ents, 1, dir[s].count)
<1>1. /\ pc = "off" /\ (\E t \in 0 .. 1 : dir_header(t))
      /\ entries' = e /\ dir_sector' = s /\ generation' = dir[s].gen
      /\ UNCHANGED <<data, dir, faults>> /\ Return
  <2>1. {0, 1} \ {} = {0, 1} /\ {0, 1} = 0 .. 1
    OBVIOUS
  <2> QED
    BY <2>1 DEF mount, flash
<1>2. OffInv /\ ListInv /\ dir \in [0 .. 1 -> Header] /\ DirsPlaced
  BY <1>1 DEF StoreInv, DiskInv, FInv, Volume
<1>3. s \in 0 .. 1 /\ dir_header(s) /\ (dir_header(1 - s) => dir[1 - s].gen < dir[s].gen)
  <2>1. dir_header(0) /\ dir_header(1) => dir[0].gen # dir[1].gen
    BY <1>2 DEF OffInv
  <2> HIDE DEF s
  <2>2. s = Newest({0, 1})
    BY DEF s
  <2> QED
    BY <1>1, <1>2, <2>1, <2>2, NewestFacts
<1> HIDE DEF s
<1>4. e = OnDisk(s)
  BY DEF OnDisk
<1>5. Len(e) <= FS_MAX_FILES /\ Unique(e)
  <2>1. dir[s].ents \in Seq(DirEntry) /\ dir[s].count \in 0 .. Len(dir[s].ents)
    BY <1>2, <1>3 DEF DirsPlaced, Header
  <2>2. Len(e) = dir[s].count /\ dir[s].count <= FS_MAX_FILES
    BY <1>3, <2>1, PrefixWithin DEF dir_header
  <2> QED
    BY <1>2, <1>4, <2>2 DEF OffInv, s
<1>6. ListInv'
  BY <1>1, <1>2, <1>5 DEF ListInv
<1>7. Fresh'
  BY <1>1, <1>3 DEF Fresh, dir_header, Target
<1>8. OnDisk(dir_sector)' = entries'
  BY <1>1, <1>4 DEF OnDisk
<1>9. StoreInv'
  BY <1>1, <1>5, <1>6, <1>7, <1>8, ReturnStore
<1>10. shown' = OnFlash
  BY <1>1, Shown DEF OnFlash, s
<1> QED
  BY <1>1, <1>2, <1>9, <1>10

LEMMA FormatStore ==
  ASSUME FInv, StoreInv, format({})
  PROVE  /\ StoreInv' /\ pc = "off"
         /\ OffInv /\ ~dir_header(0) /\ ~dir_header(1) /\ shown' = <<>>
<1>1. /\ pc = "off" /\ ~dir_header(0) /\ ~dir_header(1)
      /\ Formatted /\ UNCHANGED faults /\ Return
  BY DEF format
<1>2. OffInv /\ ListInv
  BY <1>1 DEF StoreInv, DiskInv
<1>3. /\ entries' = <<>> /\ dir_sector' = 0 /\ generation' = 1
      /\ dir'[0].valid /\ dir'[0].count = 0 /\ dir'[0].gen = 1 /\ dir'[0].ents = <<>>
      /\ ~dir'[1].valid
  <2> DEFINE f == [ErasedDir EXCEPT !.valid = TRUE, !.gen = 1]
  <2>1. /\ entries' = <<>> /\ dir_sector' = 0 /\ generation' = 1
        /\ dir' = [s \in 0 .. 1 |-> IF s = 0 THEN f ELSE ErasedDir]
    BY <1>1 DEF Formatted
  <2>2. f.valid /\ f.gen = 1 /\ f.count = 0 /\ f.ents = <<>> /\ ~ErasedDir.valid
    BY DEF ErasedDir
  <2> HIDE DEF f
  <2>3. dir'[0] = f /\ dir'[1] = ErasedDir
    BY <2>1
  <2> QED
    BY <2>1, <2>2, <2>3
<1>4. SubSeq(<<>>, 1, 0) = <<>> /\ Unique(<<>>) /\ Len(<<>>) = 0
  BY DEF Unique
<1>5. OnDisk(dir_sector)' = <<>>
  BY <1>3, <1>4 DEF OnDisk
<1>6. Fresh'
  BY <1>3, GeometryAssumption DEF Fresh, dir_header, Target
<1>7. ListInv'
  BY <1>1, <1>2, <1>3, <1>4, GeometryAssumption DEF ListInv
<1>8. StoreInv'
  BY <1>1, <1>3, <1>4, <1>5, <1>6, <1>7, ReturnStore
<1>9. shown' = <<>>
  <2>1. shown' = View(data', <<>>)
    BY <1>1, <1>3, Shown
  <2>2. {<<>>[i].name : i \in 1 .. Len(<<>>)} = {}
    BY <1>4
  <2>3. \A d : View(d, <<>>) = <<>>
    BY <2>2 DEF View
  <2> QED
    BY <2>1, <2>3
<1> QED
  BY <1>1, <1>2, <1>8, <1>9

(***************************************************************************)
(* Appending.                                                              *)
(***************************************************************************)
\* What StoreInv says while the power is on and the directory is not written.
LEMMA Alive ==
  ASSUME FInv, StoreInv, pc # "off"
  PROVE  /\ Volume /\ entries \in Seq(DirEntry) /\ Unique(entries) /\ Len(entries) <= FS_MAX_FILES
         /\ Len(entries) \in Nat /\ faults \in Nat
         /\ Fresh /\ Unique(OnDisk(dir_sector)) /\ (CanCrash /\ ~DirPhase => OnDisk(dir_sector) = entries)
  BY DEF FInv, Volume, StoreInv, ListInv, DiskInv

\* Nothing of the directory changes, and no fault is undone.
LEMMA SameDir ==
  ASSUME UNCHANGED <<dir, dir_sector, generation>>, faults \in Nat, faults' \in {faults, faults + 1}
  PROVE  /\ Fresh => Fresh'
         /\ OnDisk(dir_sector)' = OnDisk(dir_sector) /\ (CanCrash' => CanCrash)
<1>1. Fresh => Fresh'
  BY DEF Fresh, dir_header, Target
<1>2. OnDisk(dir_sector)' = OnDisk(dir_sector)
  BY DEF OnDisk
<1>3. CanCrash' => CanCrash
  <2>1. faults' < MaxFaults => faults < MaxFaults
    BY GeometryAssumption
  <2> QED
    BY <2>1 DEF CanCrash
<1> QED
  BY <1>1, <1>2, <1>3

LEMMA SameEffect ==
  ASSUME Effect, UNCHANGED <<shown, goal>>
  PROVE  Effect'
<1>1. PICK n \in Names :
        \/ \E text \in Texts : goal = Store!With(n, Store!Contents(n) \o text \o <<EOL>>)
        \/ n \in DOMAIN shown /\ goal = Store!Without(n)
        \/ \E m \in Names :
             /\ n \in DOMAIN shown
             /\ \/ goal = Store!With(m, shown[n])
                \/ goal = [k \in (DOMAIN shown \ {n}) \cup {m} |-> IF k = m THEN shown[n] ELSE shown[k]]
  BY DEF Effect
<1>2. CASE \E text \in Texts : goal = Store!With(n, Store!Contents(n) \o text \o <<EOL>>)
  <2>1. PICK text \in Texts : goal = Store!With(n, Store!Contents(n) \o text \o <<EOL>>)
    BY <1>2
  <2>2. (goal = Store!With(n, Store!Contents(n) \o text \o <<EOL>>))'
    BY <2>1 DEF Store!With, Store!Contents
  <2> QED
    BY <2>2 DEF Effect
<1>3. CASE n \in DOMAIN shown /\ goal = Store!Without(n)
  BY <1>3 DEF Effect, Store!Without
<1>4. CASE \E m \in Names : n \in DOMAIN shown /\ goal = Store!With(m, shown[n])
  <2>1. PICK m \in Names : n \in DOMAIN shown /\ goal = Store!With(m, shown[n])
    BY <1>4
  <2>2. (n \in DOMAIN shown /\ goal = Store!With(m, shown[n]))'
    BY <2>1 DEF Store!With
  <2> QED
    BY <2>2 DEF Effect
<1>5. CASE \E m \in Names :
             /\ n \in DOMAIN shown
             /\ goal = [k \in (DOMAIN shown \ {n}) \cup {m} |-> IF k = m THEN shown[n] ELSE shown[k]]
  BY <1>5 DEF Effect
<1> QED
  BY <1>1, <1>2, <1>3, <1>4, <1>5

LEMMA AppendNow ==
  ASSUME FInv, StoreInv, WritePhase \/ pc = "append"
  PROVE  /\ pc # "off" /\ ~DirPhase /\ ~CompactPhase /\ ~compacting /\ JobPhase
         /\ View(data, entries) = shown /\ Effect
         /\ job.name \in Names /\ Len(job.todo) \in Nat \ {0}
         /\ find(job.name) = 0 => HasRoom(entries)
         /\ Grows(goal[job.name])
<1>1. pc # "off" /\ ~DirPhase /\ ~CompactPhase /\ JobPhase
  BY DEF WritePhase, DirPhase, CompactPhase, JobPhase
<1>2. ~compacting /\ job.name \in Names /\ Len(job.todo) \in Nat \ {0}
  BY <1>1, LineLen DEF FInv, Control, JobInv
<1> QED
  BY <1>1, <1>2 DEF StoreInv, ShowInv, GoalInv

LEMMA NoSpaceStore ==
  ASSUME FInv, StoreInv, AppendNoSpace
  PROVE  StoreInv' /\ shown' = shown
<1>1. pc = "append" /\ Return /\ UNCHANGED <<data, dir, entries, dir_sector, generation, faults>>
  BY DEF AppendNoSpace, flash, ram
<1>2. pc # "off" /\ ~DirPhase /\ View(data, entries) = shown
  BY <1>1, AppendNow
<1>3. /\ Unique(entries) /\ Len(entries) <= FS_MAX_FILES /\ faults \in Nat
      /\ Fresh /\ Unique(OnDisk(dir_sector)) /\ (CanCrash => OnDisk(dir_sector) = entries)
  BY <1>2, Alive
<1>4. Fresh' /\ OnDisk(dir_sector)' = OnDisk(dir_sector) /\ (CanCrash' => CanCrash)
  BY <1>1, <1>3, SameDir
<1>5. ListInv'
  BY <1>1, <1>3 DEF ListInv
<1>6. StoreInv'
  BY <1>1, <1>3, <1>4, <1>5, ReturnStore
<1> QED
  BY <1>1, <1>2, <1>6, Shown

\* What the entry of the file under way holds so far.
LEMMA OldBytes ==
  ASSUME FInv, StoreInv, WritePhase \/ pc = "append", NEW n, n = job.name, find(n) # 0,
         NEW i \in 1 .. OldLen(n)
  PROVE  goal[n][i] = data[entries[find(n)].offset + i - 1]
<1> DEFINE e == entries[find(n)]
<1>1. Volume /\ entries \in Seq(DirEntry) /\ Unique(entries) /\ View(data, entries) = shown /\ Grows(goal[n])
  BY Alive, AppendNow
<1>2. e \in DirEntry /\ shown[n] = Content(data, e)
  BY <1>1, Known
<1>3. goal[n][i] = shown[n][i]
  BY <1>1 DEF Grows
<1>4. OldLen(n) = e.length
  BY DEF OldLen
<1> HIDE DEF e
<1>5. Content(data, e)[i] = data[e.offset + i - 1]
  BY <1>2, <1>4, ContentSeq
<1> QED
  BY <1>2, <1>3, <1>5 DEF e

LEMMA BeginStore ==
  ASSUME FInv, StoreInv, AppendBegin
  PROVE  StoreInv'
<1> DEFINE n == job.name
<1>1. /\ pc = "append" /\ at' = write_ptr /\ done' = (IF AtTail(n) THEN OldLen(n) ELSE 0)
      /\ pc' = (IF done' < OldLen(n) THEN "copy" ELSE "text")
      /\ UNCHANGED <<data, dir, entries, dir_sector, generation, write_ptr, job, compacting, sector, g_buf,
                     shown, goal, faults>>
  BY DEF AppendBegin, flash, ram, pack, seen
<1>2. /\ Volume /\ entries \in Seq(DirEntry) /\ Unique(entries) /\ Len(entries) <= FS_MAX_FILES /\ faults \in Nat
      /\ Fresh /\ Unique(OnDisk(dir_sector)) /\ (CanCrash => OnDisk(dir_sector) = entries)
      /\ View(data, entries) = shown /\ ~compacting
  BY <1>1, Alive, AppendNow
<1>3. /\ pc' \in {"copy", "text"} /\ ~DirPhase' /\ ~CompactPhase' /\ JobPhase' /\ pc' # "off"
  BY <1>1 DEF DirPhase, CompactPhase, JobPhase, WritePhase
<1>4. PICK c : c = goal[n]
  OBVIOUS
<1>5. /\ Effect /\ (find(n) = 0 => HasRoom(entries)) /\ Grows(c)
      /\ Len(c) = OldLen(n) + Len(job.todo)
      /\ \A j \in 1 .. Len(job.todo) : c[OldLen(n) + j] = job.todo[j]
      /\ Len(job.todo) \in Nat
  <2>1. JobPhase /\ Len(job.todo) \in Nat
    BY <1>1, AppendNow
  <2> QED
    BY <1>1, <1>4, <2>1 DEF StoreInv, GoalInv
<1>6. /\ \A m : find(m)' = find(m) /\ OldLen(m)' = OldLen(m)
      /\ \A m : AtTail(m)' = AtTail(m) /\ NewBase(m)' = NewBase(m)
  BY <1>1, SameFind DEF AtTail, NewBase
<1>7. ListInv'
  BY <1>1, <1>2 DEF ListInv
<1>8. DiskInv'
  BY <1>1, <1>2, <1>3, SameDir DEF DiskInv
<1>9. ShowInv'
  BY <1>1, <1>2, <1>3 DEF ShowInv
<1>10. GoalInv'
  <2>1. Effect'
    BY <1>1, <1>5, SameEffect
  <2>2. Grows(c)'
    BY <1>1, <1>5, <1>6 DEF Grows
  <2>3. HasRoom(entries)' = HasRoom(entries) /\ goal'[job'.name] = c
    BY <1>1, <1>4
  <2> QED
    BY <1>1, <1>5, <1>6, <2>1, <2>2, <2>3 DEF GoalInv
<1>11. WriteInv'
  <2>1. OldLen(n) \in Nat /\ write_ptr \in Nat
    BY <1>2, OldLenFacts, Sizes DEF Volume
  <2>2. ASSUME pc' = "copy"
        PROVE  ~AtTail(n) /\ done' = 0 /\ at' = write_ptr + done'
    BY <1>1, <2>1, <2>2
  <2>3. ASSUME pc' = "text"
        PROVE  /\ at' - NewBase(n) = OldLen(n)
               /\ \A i \in 1 .. OldLen(n) : data[NewBase(n) + i - 1] = c[i]
    <3>1. CASE AtTail(n)
      <4>1. find(n) # 0 /\ NewBase(n) = write_ptr - OldLen(n) /\ NewBase(n) = entries[find(n)].offset
        BY <1>2, <3>1, OldLenFacts DEF NewBase
      <4>2. \A i \in 1 .. OldLen(n) : data[NewBase(n) + i - 1] = c[i]
        BY <1>1, <1>4, <4>1, OldBytes
      <4> QED
        BY <1>1, <2>1, <4>1, <4>2
    <3>2. CASE ~AtTail(n)
      <4>1. OldLen(n) = 0 /\ NewBase(n) = write_ptr
        BY <1>1, <2>1, <2>3, <3>2 DEF NewBase
      <4> QED
        BY <1>1, <2>1, <4>1
    <3> QED
      BY <3>1, <3>2
  <2>4. /\ job' = job /\ data' = data /\ write_ptr' = write_ptr /\ goal'[job'.name] = c
        /\ AtTail(job.name)' = AtTail(n) /\ NewBase(job.name)' = NewBase(n)
    BY <1>1, <1>4, <1>6
  <2>5. pc' = "copy" => /\ ~AtTail(job.name)' /\ at' = write_ptr' + done'
                        /\ \A i \in 1 .. done' : data'[write_ptr' + i - 1] = c[i]
    BY <2>2, <2>4
  <2>6. pc' = "text" => /\ \A i \in 1 .. at' - NewBase(job.name)' : data'[NewBase(job.name)' + i - 1] = c[i]
                        /\ Len(c) = (at' - NewBase(job.name)') + Len(job'.todo)
                        /\ \A j \in 1 .. Len(job'.todo) : job'.todo[j] = c[(at' - NewBase(job.name)') + j]
    BY <1>5, <2>3, <2>4
  <2> HIDE DEF n
  <2> QED
    BY <2>4, <2>5, <2>6 DEF WriteInv
<1>12. PackInv'
  BY <1>3 DEF PackInv
<1> QED
  BY <1>7, <1>8, <1>9, <1>10, <1>11, <1>12 DEF StoreInv

\* Writing from the tail on leaves the files as they are.
LEMMA Beyond ==
  ASSUME FInv, StoreInv, WritePhase, NEW cells, NEW k \in Nat, Program(at, cells, k)
  PROVE  /\ write_ptr \in Nat /\ at \in Nat /\ write_ptr <= at
         /\ \A i \in 1 .. Len(entries) : \A o \in Extent(entries[i]) : data'[o] = data[o]
         /\ View(data', entries) = shown
         /\ \A o \in Offsets : o < at => data'[o] = data[o]
         /\ \A j \in 1 .. k : at + j - 1 \in Offsets => data'[at + j - 1] = cells[j]
<1>1. /\ Volume /\ entries \in Seq(DirEntry) /\ Unique(entries) /\ View(data, entries) = shown
  BY Alive, AppendNow
<1>2. /\ write_ptr \in Nat /\ at \in Nat /\ write_ptr <= at /\ write_ptr <= DATA /\ DATA \in Nat
      /\ Offsets = 0 .. DATA - 1
  BY <1>1, Sizes DEF FInv, Control, RoomInv, Phases, WritePhase, Volume
<1>3. \A c \in Offsets : data'[c] = IF c \in at .. at + k - 1 THEN cells[c - at + 1] ELSE data[c]
  BY DataTyped
<1>4. \A o \in Offsets : o < at => data'[o] = data[o]
  BY <1>2, <1>3
<1>5. ASSUME NEW i \in 1 .. Len(entries), NEW o \in Extent(entries[i])
      PROVE  data'[o] = data[o]
  <2>1. entries[i] \in DirEntry /\ entries[i].offset + entries[i].length <= write_ptr
    BY <1>1 DEF Volume, Placed
  <2>2. entries[i].offset \in Nat /\ entries[i].length \in Nat
    BY <2>1 DEF DirEntry
  <2>3. o \in Nat /\ o < write_ptr
    <3> DEFINE a == entries[i].offset
               b == entries[i].length
    <3>1. a \in Nat /\ b \in Nat /\ a + b <= write_ptr /\ o \in a .. a + b - 1
      BY <2>1, <2>2 DEF Extent
    <3> HIDE DEF a, b
    <3> QED
      BY ONLY <1>2, <3>1
  <2> QED
    BY <1>2, <1>4, <2>3
<1>6. View(data', entries) = View(data, entries)
  BY <1>1, <1>5, SameView
<1>7. ASSUME NEW j \in 1 .. k, at + j - 1 \in Offsets
      PROVE  data'[at + j - 1] = cells[j]
  <2>1. at + j - 1 \in at .. at + k - 1 /\ (at + j - 1) - at + 1 = j
    BY <1>2
  <2> QED
    BY <1>3, <1>7, <2>1
<1> QED
  BY <1>1, <1>2, <1>4, <1>5, <1>6, <1>7

LEMMA CopyTurnStore ==
  ASSUME FInv, StoreInv, AppendCopy
  PROVE  StoreInv'
<1> DEFINE n == job.name
           t == job.todo
<1>1. PICK m : m = Len(Chunk)
  OBVIOUS
<1>2. PICK c : c = goal[n]
  OBVIOUS
<1>a. PICK off : off = entries[find(n)].offset
  OBVIOUS
<1>3. /\ pc = "copy" /\ WritePhase /\ Program(at, Chunk, m) /\ at' = at + m /\ done' = done + m
      /\ pc' = (IF done' < OldLen(n) THEN "copy" ELSE "text")
      /\ UNCHANGED <<dir, entries, dir_sector, generation, write_ptr, job, compacting, sector, g_buf,
                     shown, goal, faults>>
  BY <1>1 DEF AppendCopy, WritePhase, ram, pack, seen
<1>4. /\ Volume /\ entries \in Seq(DirEntry) /\ Unique(entries) /\ Len(entries) <= FS_MAX_FILES /\ faults \in Nat
      /\ Fresh /\ Unique(OnDisk(dir_sector)) /\ (CanCrash => OnDisk(dir_sector) = entries)
      /\ ~compacting /\ JobPhase
  BY <1>3, Alive, AppendNow
<1>5. /\ pc' \in {"copy", "text"} /\ ~DirPhase' /\ ~CompactPhase' /\ JobPhase' /\ pc' # "off"
  BY <1>3 DEF DirPhase, CompactPhase, JobPhase, WritePhase
<1>6. /\ Effect /\ (find(n) = 0 => HasRoom(entries)) /\ Grows(c)
      /\ Len(c) = OldLen(n) + Len(t) /\ Len(t) \in Nat
      /\ \A j \in 1 .. Len(t) : c[OldLen(n) + j] = t[j]
  <2>1. Len(t) \in Nat
    BY <1>3, AppendNow
  <2> QED
    BY <1>2, <1>3, <1>4, <2>1 DEF StoreInv, GoalInv
<1>7. /\ \A x : find(x)' = find(x) /\ OldLen(x)' = OldLen(x)
      /\ \A x : AtTail(x)' = AtTail(x)
      /\ ~AtTail(n) => NewBase(n)' = write_ptr
  BY <1>3, SameFind DEF AtTail, NewBase
<1>8. /\ m \in Nat \ {0} /\ done + m <= OldLen(n) /\ find(n) \in 1 .. Len(entries)
      /\ \A i \in 1 .. m : Chunk[i] = data[off + done + i - 1]
      /\ done \in Nat /\ OldLen(n) \in Nat /\ off \in Nat
      /\ at + (OldLen(n) - done) <= DATA
  <2>1. done \in Nat /\ at \in Nat /\ OldLen(n) \in Nat
    BY <1>4, OldLenFacts DEF FInv, Control, Phases
  <2>2. at + (OldLen(n) - done) + Len(t) <= DATA /\ DATA \in Nat /\ done < OldLen(n)
    BY <1>3, Sizes DEF FInv, Control, RoomInv
  <2>3. at + (OldLen(n) - done) <= DATA
    BY <1>6, <2>1, <2>2
  <2> QED
    BY <1>1, <1>3, <1>a, <2>1, <2>3, ChunkFacts
<1>9. /\ write_ptr \in Nat /\ at \in Nat /\ write_ptr <= at
      /\ View(data', entries) = shown
      /\ \A o \in Offsets : o < at => data'[o] = data[o]
      /\ \A j \in 1 .. m : at + j - 1 \in Offsets => data'[at + j - 1] = Chunk[j]
  BY <1>3, <1>8, Beyond
<1>10. /\ ~AtTail(n) /\ at = write_ptr + done
       /\ \A i \in 1 .. done : data[write_ptr + i - 1] = c[i]
  BY <1>2, <1>3 DEF StoreInv, WriteInv
<1>11. ASSUME NEW i \in 1 .. done + m
       PROVE  data'[write_ptr + i - 1] = c[i]
  <2>1. write_ptr + i - 1 \in Offsets
    BY <1>8, <1>9, <1>10, Sizes
  <2>2. CASE i <= done
    <3>1. write_ptr + i - 1 < at /\ i \in 1 .. done
      BY <1>8, <1>9, <1>10, <2>2
    <3> QED
      BY <1>9, <1>10, <2>1, <3>1
  <2>3. CASE ~(i <= done)
    <3>1. PICK j \in 1 .. m : i = done + j
      <4>1. i - done \in 1 .. m /\ i = done + (i - done)
        BY <1>8, <2>3
      <4> QED
        BY <4>1
    <3>2. write_ptr + i - 1 = at + j - 1
      BY <1>8, <1>9, <1>10, <3>1
    <3>3. data'[write_ptr + i - 1] = data[off + done + j - 1]
      BY <1>8, <1>9, <2>1, <3>2
    <3>4. off + done + j - 1 = off + i - 1 /\ i \in 1 .. OldLen(n)
      <4>1. m \in Nat /\ done \in Nat /\ off \in Nat /\ OldLen(n) \in Nat /\ done + m <= OldLen(n)
        BY <1>8
      <4> DEFINE x == OldLen(n)
      <4> HIDE DEF x
      <4> QED
        BY <3>1, <4>1 DEF x
    <3>5. c[i] = data[off + i - 1]
      <4>1. find(n) # 0
        BY <1>4, <1>8
      <4>2. goal[n][i] = data[entries[find(n)].offset + i - 1]
        BY <1>3, <3>4, <4>1, OldBytes
      <4> QED
        BY <1>2, <1>a, <4>2
    <3> QED
      BY <3>3, <3>4, <3>5
  <2> QED
    BY <2>2, <2>3
<1>12. ListInv'
  BY <1>3, <1>4 DEF ListInv
<1>13. DiskInv'
  BY <1>3, <1>4, <1>5, SameDir DEF DiskInv
<1>14. ShowInv'
  BY <1>3, <1>5, <1>9 DEF ShowInv
<1>15. GoalInv'
  <2>1. Effect'
    BY <1>3, <1>6, SameEffect
  <2>2. Grows(c)'
    BY <1>3, <1>6, <1>7 DEF Grows
  <2>3. HasRoom(entries)' = HasRoom(entries) /\ goal'[job'.name] = c
    BY <1>2, <1>3
  <2> QED
    BY <1>3, <1>6, <1>7, <2>1, <2>2, <2>3 DEF GoalInv
<1>16. WriteInv'
  <2>1. /\ job' = job /\ write_ptr' = write_ptr /\ goal'[job'.name] = c
        /\ AtTail(job.name)' = AtTail(n) /\ NewBase(job.name)' = write_ptr
    BY <1>2, <1>3, <1>7, <1>10
  <2>2. at' = write_ptr' + done' /\ \A i \in 1 .. done' : data'[write_ptr' + i - 1] = c[i]
    BY <1>3, <1>8, <1>9, <1>10, <1>11
  <2>3. pc' = "copy" => ~AtTail(job.name)'
    BY <1>10, <2>1
  <2>4. ASSUME pc' = "text"
        PROVE  /\ \A i \in 1 .. at' - NewBase(job.name)' : data'[NewBase(job.name)' + i - 1] = c[i]
               /\ Len(c) = (at' - NewBase(job.name)') + Len(job'.todo)
               /\ \A j \in 1 .. Len(job'.todo) : job'.todo[j] = c[(at' - NewBase(job.name)') + j]
    <3>1. done' = OldLen(n)
      BY <1>3, <1>8, <2>4
    <3>2. at' - NewBase(job.name)' = OldLen(n) /\ done' = OldLen(n)
      <4>1. /\ at' = at + m /\ at = write_ptr + done /\ done' = done + m /\ NewBase(job.name)' = write_ptr
            /\ m \in Nat /\ done \in Nat /\ write_ptr \in Nat
        BY <1>3, <1>8, <1>9, <1>10, <2>1
      <4>2. at' - write_ptr = done + m
        BY ONLY <4>1
      <4> QED
        BY <3>1, <4>1, <4>2
    <3> QED
      BY <1>6, <2>1, <2>2, <3>2
  <2> QED
    BY <2>1, <2>2, <2>3, <2>4 DEF WriteInv
<1>17. PackInv'
  BY <1>5 DEF PackInv
<1> QED
  BY <1>12, <1>13, <1>14, <1>15, <1>16, <1>17 DEF StoreInv

LEMMA AppendFailsStore ==
  ASSUME FInv, StoreInv, FaultsApart, NEW k \in 0 .. Len(Writing), AppendFails(k)
  PROVE  StoreInv' /\ shown' = shown
<1>1. /\ pc \in {"copy", "text"} /\ Program(WritingAt, Writing, k) /\ Return /\ faults' = faults + 1
      /\ UNCHANGED <<dir, entries, dir_sector, generation>>
  BY DEF AppendFails, FaultsApart, Fault
<1>2. WritePhase /\ WritingAt = at /\ pc # "off"
  BY <1>1 DEF WritePhase, WritingAt
<1>3. k \in Nat
  <2>1. Len(Writing) \in Nat
    <3>1. CASE pc = "copy"
      BY <3>1, ChunkFacts DEF Writing
    <3>2. CASE pc = "text"
      BY <3>2 DEF Writing
    <3> QED
      BY <1>1, <3>1, <3>2
  <2> QED
    BY <2>1
<1>4. View(data', entries) = shown
  BY <1>1, <1>2, <1>3, Beyond
<1>5. /\ Unique(entries) /\ Len(entries) <= FS_MAX_FILES /\ faults \in Nat /\ ~DirPhase
      /\ Fresh /\ Unique(OnDisk(dir_sector)) /\ (CanCrash => OnDisk(dir_sector) = entries)
  BY <1>2, Alive, AppendNow
<1>6. Fresh' /\ OnDisk(dir_sector)' = OnDisk(dir_sector) /\ (CanCrash' => CanCrash)
  BY <1>1, <1>5, SameDir
<1>7. ListInv'
  BY <1>1, <1>5 DEF ListInv
<1>8. StoreInv'
  BY <1>1, <1>5, <1>6, <1>7, ReturnStore
<1> QED
  BY <1>1, <1>4, <1>8, Shown

\* What a cell of line t adds to the new text c of file n, which begins at b.
Written(n, c, b, t) ==
         /\ b \in Nat /\ at \in Nat /\ write_ptr \in Nat /\ b <= write_ptr /\ write_ptr <= at /\ at + 1 <= DATA
         /\ \A i \in 1 .. at + 1 - b : data'[b + i - 1] = c[i]
         /\ Len(t) \in Nat \ {0} /\ Len(c) = (at + 1 - b) + (Len(t) - 1)
         /\ job'.name = n /\ Len(job'.todo) = Len(t) - 1
         /\ \A j \in 1 .. Len(t) - 1 : job'.todo[j] = c[(at + 1 - b) + j]
         /\ View(data', entries) = shown
         /\ \A i \in 1 .. Len(entries) : \A o \in Extent(entries[i]) : data'[o] = data[o]

LEMMA Wrote ==
  ASSUME FInv, StoreInv, AppendText, NEW n, n = job.name, NEW c, c = goal[n], NEW b, b = NewBase(n),
         NEW t, t = job.todo
  PROVE  Written(n, c, b, t)
<1>1. pc = "text" /\ WritePhase /\ Program(at, t, 1) /\ job' = [job EXCEPT !.todo = Tail(@)]
  BY DEF AppendText, WritePhase
<1>2. /\ write_ptr \in Nat /\ at \in Nat /\ write_ptr <= at /\ View(data', entries) = shown
      /\ \A i \in 1 .. Len(entries) : \A o \in Extent(entries[i]) : data'[o] = data[o]
      /\ \A o \in Offsets : o < at => data'[o] = data[o]
      /\ \A j \in 1 .. 1 : at + j - 1 \in Offsets => data'[at + j - 1] = t[j]
  BY <1>1, Beyond
<1>3. Volume /\ Line(t) /\ Len(t) \in Nat \ {0} /\ at + Len(t) <= DATA
  BY <1>1, LineLen DEF FInv, Control, JobInv, RoomInv
<1>4. b \in Nat /\ b <= write_ptr
  BY <1>2, <1>3, BaseFacts
<1>5. /\ \A i \in 1 .. at - b : data[b + i - 1] = c[i]
      /\ Len(c) = (at - b) + Len(t)
      /\ \A j \in 1 .. Len(t) : t[j] = c[(at - b) + j]
  BY <1>1 DEF StoreInv, WriteInv
<1>6. at \in Offsets /\ data'[at] = t[1] /\ DATA \in Nat /\ Offsets = 0 .. DATA - 1 /\ at + 1 <= DATA
  <2>1. at \in Offsets /\ DATA \in Nat /\ at + 1 <= DATA
    BY <1>2, <1>3, Sizes
  <2>2. at + 1 - 1 = at /\ 1 \in 1 .. 1
    BY <1>2
  <2> QED
    BY <1>2, <2>1, <2>2, Sizes
<1>7. ASSUME NEW i \in 1 .. at + 1 - b PROVE data'[b + i - 1] = c[i]
  <2>1. CASE i <= at - b
    <3>1. i \in 1 .. at - b /\ b + i - 1 \in Offsets /\ b + i - 1 < at
      BY ONLY <1>2, <1>4, <1>6, <2>1, i \in 1 .. at + 1 - b
    <3> QED
      BY <1>2, <1>5, <3>1
  <2>2. CASE ~(i <= at - b)
    <3>1. i = (at - b) + 1 /\ b + i - 1 = at
      BY ONLY <1>2, <1>4, <2>2, i \in 1 .. at + 1 - b
    <3>2. t[1] = c[(at - b) + 1]
      BY <1>3, <1>5
    <3> QED
      BY <1>6, <3>1, <3>2
  <2> QED
    BY <2>1, <2>2
<1>8. Len(Tail(t)) = Len(t) - 1 /\ \A j \in 1 .. Len(t) - 1 : Tail(t)[j] = t[j + 1]
  <2>1. PICK S : t \in Seq(S) /\ t # <<>>
    BY <1>3 DEF Line
  <2> QED
    BY ONLY <2>1
<1>9. ASSUME NEW j \in 1 .. Len(t) - 1 PROVE Tail(t)[j] = c[(at + 1 - b) + j]
  <2>1. j + 1 \in 1 .. Len(t) /\ (at - b) + (j + 1) = (at + 1 - b) + j
    <3> DEFINE l == Len(t)
    <3>1. l \in Nat /\ j \in 1 .. l - 1
      BY <1>3
    <3> HIDE DEF l
    <3>2. j + 1 \in 1 .. l /\ (at - b) + (j + 1) = (at + 1 - b) + j
      BY ONLY <1>2, <1>4, <3>1
    <3> QED
      BY <3>2 DEF l
  <2> QED
    BY <1>5, <1>8, <2>1
<1>10. Len(c) = (at + 1 - b) + (Len(t) - 1)
  <2> DEFINE l == Len(t)
  <2>1. l \in Nat /\ Len(c) = (at - b) + l
    BY <1>3, <1>5
  <2> HIDE DEF l
  <2>2. Len(c) = (at + 1 - b) + (l - 1)
    BY ONLY <1>2, <1>4, <2>1
  <2> QED
    BY <2>2 DEF l
<1>11. job'.name = n /\ job'.todo = Tail(t)
  <2>1. job = [name |-> n, todo |-> t]
    BY DEF FInv, Control, Phases
  <2>2. job' = [name |-> n, todo |-> Tail(t)]
    BY <1>1, <2>1
  <2> QED
    BY <2>2
<1> QED
  <2>1. Len(job'.todo) = Len(t) - 1 /\ \A j \in 1 .. Len(t) - 1 : job'.todo[j] = c[(at + 1 - b) + j]
    <3> DEFINE u == Tail(t)
    <3>1. job'.todo = u /\ Len(u) = Len(t) - 1 /\ \A j \in 1 .. Len(t) - 1 : u[j] = c[(at + 1 - b) + j]
      BY <1>8, <1>9, <1>11
    <3> HIDE DEF u
    <3> QED
      BY <3>1
  <2> QED
    BY <1>2, <1>3, <1>4, <1>6, <1>7, <1>10, <1>11, <2>1 DEF Written

LEMMA MoreStore ==
  ASSUME FInv, StoreInv, AppendText, Len(job.todo) > 1
  PROVE  StoreInv'
<1> DEFINE n == job.name
<1>1. PICK c : c = goal[n]
  OBVIOUS
<1>2. PICK b : b = NewBase(n)
  OBVIOUS
<1>3. PICK t : t = job.todo
  OBVIOUS
<1>4. /\ pc = "text" /\ pc' = "text" /\ WritePhase /\ at' = at + 1
      /\ UNCHANGED <<dir, entries, dir_sector, generation, write_ptr, compacting, sector, g_buf, shown, goal, faults>>
  BY DEF AppendText, WritePhase, ram, pack, seen
<1>5. /\ \A i \in 1 .. at + 1 - b : data'[b + i - 1] = c[i]
      /\ Len(c) = (at + 1 - b) + (Len(t) - 1)
      /\ job'.name = n /\ Len(job'.todo) = Len(t) - 1
      /\ \A j \in 1 .. Len(t) - 1 : job'.todo[j] = c[(at + 1 - b) + j]
      /\ View(data', entries) = shown /\ at \in Nat /\ b \in Nat
  <2>1. Written(n, c, b, t)
    BY <1>1, <1>2, <1>3, Wrote
  <2> QED
    BY <2>1 DEF Written
<1>6. /\ Volume /\ entries \in Seq(DirEntry) /\ Unique(entries) /\ Len(entries) <= FS_MAX_FILES /\ faults \in Nat
      /\ Fresh /\ Unique(OnDisk(dir_sector)) /\ (CanCrash => OnDisk(dir_sector) = entries) /\ JobPhase
  BY <1>4, Alive, AppendNow
<1>7. ~DirPhase' /\ ~CompactPhase' /\ JobPhase' /\ pc' # "off"
  BY <1>4 DEF DirPhase, CompactPhase, JobPhase, WritePhase
<1>8. Effect /\ (find(n) = 0 => HasRoom(entries)) /\ Grows(c)
  BY <1>1, <1>6 DEF StoreInv, GoalInv
<1>9. /\ \A x : find(x)' = find(x) /\ OldLen(x)' = OldLen(x)
      /\ \A x : AtTail(x)' = AtTail(x) /\ NewBase(x)' = NewBase(x)
  BY <1>4, SameFind DEF AtTail, NewBase
<1>10. ListInv'
  BY <1>4, <1>6 DEF ListInv
<1>11. DiskInv'
  BY <1>4, <1>6, <1>7, SameDir DEF DiskInv
<1>12. ShowInv'
  BY <1>4, <1>5, <1>7 DEF ShowInv
<1>13. GoalInv'
  <2>1. Effect'
    BY <1>4, <1>8, SameEffect
  <2>2. Grows(c)'
    BY <1>4, <1>5, <1>8, <1>9 DEF Grows
  <2>3. HasRoom(entries)' = HasRoom(entries) /\ goal'[job'.name] = c
    BY <1>1, <1>4, <1>5
  <2> QED
    BY <1>4, <1>5, <1>8, <1>9, <2>1, <2>2, <2>3 DEF GoalInv
<1>14. WriteInv'
  <2>1. goal'[job'.name] = c /\ NewBase(job.name)' = b /\ at' = at + 1 /\ pc' = "text"
    BY <1>1, <1>2, <1>4, <1>5, <1>9
  <2>2. /\ \A i \in 1 .. at' - b : data'[b + i - 1] = c[i]
        /\ Len(c) = (at' - b) + Len(job'.todo)
        /\ \A j \in 1 .. Len(job'.todo) : job'.todo[j] = c[(at' - b) + j]
    <3> DEFINE m == Len(job'.todo)
               l == Len(t)
               x == at + 1 - b
               y == at' - b
    <3>1. m = l - 1 /\ y = x /\ Len(c) = x + (l - 1)
      <4>1. m = l - 1
        BY <1>5
      <4>2. Len(c) = x + (l - 1)
        BY <1>5
      <4>3. y = x
        BY <1>4, <1>5
      <4> QED
        BY ONLY <4>1, <4>2, <4>3
    <3>2. /\ \A i \in 1 .. x : data'[b + i - 1] = c[i]
          /\ \A j \in 1 .. l - 1 : job'.todo[j] = c[x + j]
      BY <1>5
    <3> HIDE DEF m, l, x, y
    <3>3. /\ \A i \in 1 .. y : data'[b + i - 1] = c[i]
          /\ Len(c) = y + m
          /\ \A j \in 1 .. m : job'.todo[j] = c[y + j]
      BY <3>1, <3>2
    <3> QED
      BY <3>3 DEF m, y
  <2> QED
    BY <2>1, <2>2 DEF WriteInv
<1>15. PackInv'
  BY <1>7 DEF PackInv
<1> QED
  BY <1>10, <1>11, <1>12, <1>13, <1>14, <1>15 DEF StoreInv

LEMMA LastStore ==
  ASSUME FInv, StoreInv, NamesFit, AppendText, ~(Len(job.todo) > 1)
  PROVE  StoreInv'
<1> DEFINE n == job.name
           f == IF find(n) = 0 THEN Len(entries) + 1 ELSE find(n)
<1>1. PICK c : c = goal[n]
  OBVIOUS
<1>2. PICK b : b = NewBase(n)
  OBVIOUS
<1>3. PICK t : t = job.todo
  OBVIOUS
<1>b. ~(Len(t) > 1)
  BY <1>3
<1>a. PICK end : end = at + 1
  OBVIOUS
<1>4. PICK len : len = (end - write_ptr) + (IF AtTail(n) THEN OldLen(n) ELSE 0)
  OBVIOUS
<1>5. /\ pc = "text" /\ pc' = "dir_erase" /\ WritePhase
      /\ entries' = (IF find(n) = 0 THEN Append(entries, Entry(n, end, len))
                     ELSE [entries EXCEPT ![find(n)].offset = end - len, ![find(n)].length = len])
      /\ UNCHANGED <<dir, dir_sector, generation, compacting, sector, g_buf, shown, goal, faults>>
  <2>1. /\ pc = "text" /\ pc' = "dir_erase"
        /\ UNCHANGED <<dir, dir_sector, generation, compacting, sector, g_buf, shown, goal, faults>>
    BY DEF AppendText, pack, seen
  <2>2. entries' = (IF find(n) = 0 THEN Append(entries, Entry(n, end, len))
                    ELSE [entries EXCEPT ![find(n)].offset = end - len, ![find(n)].length = len])
    BY <1>4, <1>a DEF AppendText
  <2> QED
    BY <2>1, <2>2 DEF WritePhase
<1>6. /\ b \in Nat /\ at \in Nat /\ write_ptr \in Nat /\ b <= write_ptr /\ write_ptr <= at /\ at + 1 <= DATA
      /\ \A i \in 1 .. at + 1 - b : data'[b + i - 1] = c[i]
      /\ Len(t) \in Nat \ {0} /\ Len(c) = (at + 1 - b) + (Len(t) - 1)
      /\ \A i \in 1 .. Len(entries) : \A o \in Extent(entries[i]) : data'[o] = data[o]
      /\ View(data', entries) = shown
  <2>1. Written(n, c, b, t)
    BY <1>1, <1>2, <1>3, Wrote
  <2> QED
    BY <2>1 DEF Written
<1>7. /\ Volume /\ entries \in Seq(DirEntry) /\ Unique(entries) /\ Len(entries) <= FS_MAX_FILES
      /\ Len(entries) \in Nat /\ faults \in Nat
      /\ Fresh /\ Unique(OnDisk(dir_sector)) /\ (CanCrash => OnDisk(dir_sector) = entries)
      /\ JobPhase /\ n \in Names /\ ~compacting /\ View(data, entries) = shown
  BY <1>5, Alive, AppendNow
<1>8. Effect /\ (find(n) = 0 => HasRoom(entries)) /\ Grows(c)
  BY <1>1, <1>7 DEF StoreInv, GoalInv
<1>9. /\ shown = [k \in DOMAIN shown |-> shown[k]] /\ DOMAIN shown = NamesIn(entries)
      /\ \A i \in 1 .. Len(entries) : shown[entries[i].name] = Content(data, entries[i])
      /\ find(n) # 0 => n \in DOMAIN shown
      /\ \A i \in 1 .. Len(entries) : entries[i].name = n => i = find(n)
      /\ find(n) # 0 => find(n) \in 1 .. Len(entries)
  BY <1>7, Known
<1>10. b + len = at + 1 /\ len \in Nat /\ end \in 0 .. DATA /\ write_ptr <= end
  <2>1. end \in Nat /\ write_ptr <= end /\ end \in 0 .. DATA
    BY <1>6, <1>a, Sizes
  <2> HIDE DEF n
  <2> QED
    BY <1>2, <1>4, <1>7, <1>a, <2>1, BaseFacts
<1>11. PICK r : r = entries'
  OBVIOUS
<1>12. /\ r \in Seq(DirEntry) /\ f \in 1 .. Len(r)
       /\ Len(r) = (IF find(n) = 0 THEN Len(entries) + 1 ELSE Len(entries))
       /\ r[f].offset = b /\ r[f].length = len /\ r[f].name = n
       /\ \A k \in 1 .. Len(r) : k # f => k \in 1 .. Len(entries) /\ r[k] = entries[k]
  <2> HIDE DEF n
  <2>1. Truncated[n] = n
    BY <1>7 DEF NamesFit
  <2>2. Volume /\ n \in Names /\ end \in 0 .. DATA /\ write_ptr <= end
        /\ len = (end - write_ptr) + (IF AtTail(n) THEN OldLen(n) ELSE 0)
    BY <1>4, <1>7, <1>10
  <2> DEFINE q == IF find(n) = 0 THEN Append(entries, Entry(n, end, len))
                  ELSE [entries EXCEPT ![find(n)].offset = end - len, ![find(n)].length = len]
  <2>3. Longer(q, f, n, len, end)
    BY ONLY <2>2, Grown
  <2>4. q = r
    BY <1>5, <1>11
  <2> HIDE DEF q, f
  <2>5. Longer(r, f, n, len, end)
    BY <2>3, <2>4
  <2> QED
    BY <1>2, <2>1, <2>5 DEF Longer
<1>13. \A k \in 1 .. Len(r) : k # f => r[k].name # n /\ r[k].name \in DOMAIN shown
  BY <1>7, <1>9, <1>12 DEF NamesIn
<1>14. Unique(r)
  <2> SUFFICES ASSUME NEW i \in 1 .. Len(r), NEW j \in 1 .. Len(r), r[i].name = r[j].name PROVE i = j
    BY DEF Unique
  <2> HIDE DEF f, n
  <2>1. CASE i = f \/ j = f
    BY <1>12, <1>13, <2>1
  <2>2. CASE i # f /\ j # f
    BY <1>7, <1>12, <2>2 DEF Unique
  <2> QED
    BY <2>1, <2>2
<1>15. Len(r) <= FS_MAX_FILES
  BY <1>7, <1>8, <1>12, GeometryAssumption DEF HasRoom
<1>16. View(data', r) = goal
  <2>1. DOMAIN goal = NamesIn(r) /\ goal = [m \in DOMAIN goal |-> goal[m]]
    <3>1. DOMAIN goal = DOMAIN shown \cup {n} /\ goal = [m \in DOMAIN goal |-> goal[m]]
      BY <1>8 DEF Grows
    <3>2. ASSUME NEW x \in DOMAIN shown \cup {n} PROVE x \in NamesIn(r)
      <4>1. CASE x = n
        BY <1>12, <4>1 DEF NamesIn
      <4>2. CASE x # n
        <5>1. PICK i \in 1 .. Len(entries) : entries[i].name = x
          BY <1>9, <4>2 DEF NamesIn
        <5>2. i # f /\ i \in 1 .. Len(r)
          BY <1>7, <1>9, <1>12, <4>2, <5>1, Found
        <5>3. r[i] = entries[i]
          <6>1. \A k \in 1 .. Len(entries) : k \in 1 .. Len(r) /\ k # f => r[k] = entries[k]
            BY <1>12
          <6> QED
            BY <5>2, <6>1
        <5> QED
          BY <5>1, <5>2, <5>3 DEF NamesIn
      <4> QED
        BY <4>1, <4>2
    <3>3. ASSUME NEW k \in 1 .. Len(r) PROVE r[k].name \in DOMAIN shown \cup {n}
      BY <1>12, <1>13
    <3> QED
      BY <3>1, <3>2, <3>3 DEF NamesIn
  <2>2. ASSUME NEW k \in 1 .. Len(r)
        PROVE  goal[r[k].name] = Content(data', r[k])
    <3>1. CASE k # f
      <4>1. k \in 1 .. Len(entries) /\ r[k] = entries[k] /\ r[k].name # n /\ r[k].name \in DOMAIN shown
        BY <1>12, <1>13, <3>1
      <4>2. goal[r[k].name] = shown[r[k].name]
        BY <1>8, <4>1 DEF Grows
      <4>3. entries[k] \in DirEntry /\ \A o \in Extent(entries[k]) : data'[o] = data[o]
        BY <1>6, <1>7, <4>1
      <4>4. Content(data', entries[k]) = Content(data, entries[k])
        BY <4>3, SameContent
      <4> QED
        BY <1>9, <4>1, <4>2, <4>4
    <3>2. CASE k = f
      <4>1. r[k].name = n /\ r[k].offset = b /\ r[k].length = len
        BY <1>12, <3>2
      <4>2. Content(data', r[k]) = [i \in 1 .. len |-> data'[b + i - 1]]
        BY <4>1 DEF Content
      <4>3. len = at + 1 - b /\ Len(c) = len
        <5> DEFINE l == Len(t)
                   k_ == Len(c)
        <5>1. /\ l \in Nat \ {0} /\ ~(l > 1) /\ k_ = (at + 1 - b) + (l - 1)
              /\ at \in Nat /\ b \in Nat /\ len \in Nat /\ b + len = at + 1
          BY <1>b, <1>6, <1>10
        <5> HIDE DEF l, k_
        <5>2. len = at + 1 - b /\ k_ = len
          BY ONLY <5>1
        <5> QED
          BY <5>2 DEF k_
      <4>4. c = [i \in 1 .. len |-> c[i]] /\ \A i \in 1 .. len : data'[b + i - 1] = c[i]
        BY <1>6, <1>8, <4>3 DEF Grows
      <4> QED
        BY <1>1, <4>1, <4>2, <4>4
    <3> QED
      BY <3>1, <3>2
  <2> QED
    BY <1>12, <1>14, <2>1, <2>2, ViewIs
<1>17. DirPhase' /\ ~JobPhase' /\ ~CompactPhase' /\ pc' # "off" /\ ~compacting' /\ pc' # "idle"
  BY <1>5, <1>7 DEF DirPhase, JobPhase, CompactPhase, WritePhase
<1>18. ListInv'
  BY <1>5, <1>7, <1>11, <1>14, <1>15 DEF ListInv
<1>19. DiskInv'
  <2>1. Fresh' /\ OnDisk(dir_sector)' = OnDisk(dir_sector) /\ (CanCrash' => CanCrash)
    BY <1>5, <1>7, SameDir
  <2>2. CanCrash' => View(data', OnDisk(dir_sector)') = shown'
    BY <1>5, <1>6, <1>7, <2>1
  <2> QED
    BY <1>7, <1>17, <2>1, <2>2 DEF DiskInv
<1>20. ShowInv'
  <2>1. View(data', entries') = goal'
    BY <1>5, <1>11, <1>16
  <2>2. Effect'
    BY <1>5, <1>8, SameEffect
  <2> QED
    BY <1>17, <2>1, <2>2 DEF ShowInv
<1>21. GoalInv' /\ PackInv'
  BY <1>17 DEF GoalInv, PackInv
<1>22. WriteInv'
  BY <1>5 DEF WriteInv
<1> QED
  BY <1>18, <1>19, <1>20, <1>21, <1>22 DEF StoreInv

(***************************************************************************)
(* Writing the directory.                                                  *)
(***************************************************************************)
LEMMA TargetSet ==
  ASSUME Volume, NEW h, dir' = [dir EXCEPT ![Target] = h]
  PROVE  /\ Target \in 0 .. 1 /\ Target # dir_sector /\ dir_sector \in 0 .. 1 /\ 1 - Target = dir_sector
         /\ dir'[Target] = h /\ dir'[dir_sector] = dir[dir_sector]
  BY DEF Volume, Target

\* Whatever the target becomes, the directory in use stays what it was.
LEMMA DirKept ==
  ASSUME FInv, StoreInv, pc # "off", NEW h, dir' = [dir EXCEPT ![Target] = h],
         h.valid /\ h.count <= FS_MAX_FILES => h.gen < generation,
         UNCHANGED <<dir_sector, generation>>
  PROVE  Fresh' /\ OnDisk(dir_sector)' = OnDisk(dir_sector)
<1>1. Volume /\ Fresh
  BY Alive
<1>2. dir'[Target] = h /\ dir'[dir_sector] = dir[dir_sector] /\ Target' = Target
  BY <1>1, TargetSet DEF Target
<1>3. Fresh'
  BY <1>1, <1>2 DEF Fresh, dir_header
<1>4. OnDisk(dir_sector)' = OnDisk(dir_sector)
  BY <1>2 DEF OnDisk
<1> QED
  BY <1>3, <1>4

LEMMA DirTurn ==
  ASSUME FInv, StoreInv, DirPhase, DirPhase', NEW h, dir' = [dir EXCEPT ![Target] = h],
         h.valid /\ h.count <= FS_MAX_FILES => h.gen < generation,
         UNCHANGED <<data, entries, dir_sector, generation, write_ptr, job, compacting, shown, goal, faults>>
  PROVE  StoreInv'
<1>1. pc # "off" /\ pc' # "off" /\ pc # "text" /\ pc' \notin {"copy", "text", "append", "idle"}
      /\ ~CompactPhase /\ ~CompactPhase' /\ ~WritePhase' /\ ~WritePhase /\ pc # "append"
  BY DEF DirPhase, CompactPhase, WritePhase
<1>2. /\ Volume /\ entries \in Seq(DirEntry) /\ Unique(entries) /\ Len(entries) <= FS_MAX_FILES
      /\ faults \in Nat /\ Unique(OnDisk(dir_sector))
  BY <1>1, Alive
<1>3. Fresh' /\ OnDisk(dir_sector)' = OnDisk(dir_sector) /\ CanCrash' = CanCrash
  BY <1>1, DirKept DEF CanCrash
<1>4. ListInv'
  BY <1>2 DEF ListInv
<1>5. DiskInv'
  BY <1>1, <1>2, <1>3 DEF StoreInv, DiskInv
<1>6. JobPhase' = JobPhase
  BY <1>1 DEF JobPhase
<1>7. ShowInv'
  <2>1. Effect => Effect'
    BY SameEffect
  <2> QED
    BY <1>1, <1>6, <2>1 DEF StoreInv, ShowInv
<1>8. GoalInv'
  <2> SUFFICES ASSUME JobPhase' PROVE GoalInv'
    BY DEF GoalInv
  <2>1. PICK c : c = goal[job.name]
    OBVIOUS
  <2>2. /\ Effect /\ (find(job.name) = 0 => HasRoom(entries)) /\ Grows(c)
        /\ Len(c) = OldLen(job.name) + Len(job.todo)
        /\ \A j \in 1 .. Len(job.todo) : c[OldLen(job.name) + j] = job.todo[j]
    BY <1>1, <1>6, <2>1 DEF StoreInv, GoalInv
  <2>3. find(job.name)' = find(job.name) /\ OldLen(job.name)' = OldLen(job.name) /\ job' = job
    BY SameFind
  <2>4. Effect'
    BY <2>2, SameEffect
  <2>5. Grows(c)'
    BY <2>2, <2>3 DEF Grows
  <2> QED
    BY <2>1, <2>2, <2>3, <2>4, <2>5 DEF GoalInv, HasRoom
<1>9. WriteInv' /\ PackInv'
  BY <1>1 DEF WriteInv, PackInv
<1> QED
  BY <1>4, <1>5, <1>7, <1>8, <1>9 DEF StoreInv

LEMMA DirEraseStore ==
  ASSUME FInv, StoreInv, DirErase
  PROVE  StoreInv'
<1>1. /\ DirPhase /\ DirPhase' /\ dir' = [dir EXCEPT ![Target] = ErasedDir]
      /\ UNCHANGED <<data, entries, dir_sector, generation, write_ptr, job, compacting, shown, goal, faults>>
  BY DEF DirErase, DirPhase, ram, append, pack, seen
<1>2. ~ErasedDir.valid
  BY DEF ErasedDir
<1> QED
  BY <1>1, <1>2, DirTurn

LEMMA DirEntriesStore ==
  ASSUME FInv, StoreInv, DirEntries
  PROVE  StoreInv'
<1> DEFINE h == [dir[Target] EXCEPT !.ents = entries]
<1>1. /\ DirPhase /\ DirPhase' /\ dir' = [dir EXCEPT ![Target] = h] /\ pc # "off"
      /\ UNCHANGED <<data, entries, dir_sector, generation, write_ptr, job, compacting, shown, goal, faults>>
  BY DEF DirEntries, DirPhase, ram, append, pack, seen
<1>2. Volume /\ Fresh
  BY <1>1, Alive
<1>3. dir[Target] \in Header
  BY <1>2 DEF Volume, Target
<1>4. h.valid = dir[Target].valid /\ h.count = dir[Target].count /\ h.gen = dir[Target].gen
  BY <1>3 DEF Header
<1>5. h.valid /\ h.count <= FS_MAX_FILES => h.gen < generation
  BY <1>2, <1>4 DEF Fresh, dir_header
<1> HIDE DEF h
<1> QED
  BY <1>1, <1>5, DirTurn

\* The header makes the directory in RAM the one on flash.
LEMMA HeaderWritten ==
  ASSUME FInv, StoreInv, DirHeader
  PROVE  /\ pc = "dir_header" /\ UNCHANGED <<data, entries, faults>>
         /\ ListInv' /\ Fresh' /\ OnDisk(dir_sector)' = entries /\ Unique(entries)
<1> DEFINE h == [dir[Target] EXCEPT !.valid = TRUE, !.gen = generation + 1, !.count = Len(entries)]
<1>1. /\ pc = "dir_header" /\ dir' = [dir EXCEPT ![Target] = h] /\ dir_sector' = Target
      /\ generation' = generation + 1 /\ UNCHANGED <<data, entries, faults>>
  BY DEF DirHeader, NextGeneration
<1>2. /\ Volume /\ Fresh /\ entries \in Seq(DirEntry) /\ Unique(entries) /\ Len(entries) <= FS_MAX_FILES
      /\ Len(entries) \in Nat /\ faults \in Nat
  BY <1>1, Alive
<1>3. /\ Target \in 0 .. 1 /\ Target # dir_sector /\ 1 - Target = dir_sector
      /\ dir'[Target] = h /\ dir'[dir_sector] = dir[dir_sector]
  BY <1>1, <1>2, TargetSet
<1>4. h.valid /\ h.gen = generation + 1 /\ h.count = Len(entries) /\ h.ents = entries
  <2>1. dir[Target] \in Header /\ dir[Target].ents = entries
    BY <1>1, <1>2, <1>3 DEF FInv, Control, Phases, Volume
  <2> QED
    BY <2>1 DEF Header
<1> HIDE DEF h
<1>5. generation \in Nat /\ dir[dir_sector].gen = generation
  BY <1>2 DEF Volume, Fresh
<1>6. dir_header(dir_sector)' /\ dir'[dir_sector'].gen = generation'
  BY <1>1, <1>2, <1>3, <1>4 DEF dir_header
<1>7. Target' = dir_sector /\ dir'[Target'].gen < generation'
  BY <1>1, <1>3, <1>5 DEF Target
<1>8. Fresh'
  BY <1>6, <1>7 DEF Fresh
<1>9. OnDisk(dir_sector)' = entries
  <2>1. SubSeq(entries, 1, Len(entries)) = entries
    BY <1>2
  <2> QED
    BY <1>1, <1>3, <1>4, <2>1 DEF OnDisk
<1>10. ListInv'
  BY <1>1, <1>2 DEF ListInv
<1> QED
  BY <1>1, <1>2, <1>8, <1>9, <1>10

LEMMA DirHeaderStore ==
  ASSUME FInv, StoreInv, DirHeader
  PROVE  /\ StoreInv'
         /\ shown' = shown \/ (Effect /\ shown' = goal)
<1>1. /\ pc = "dir_header" /\ UNCHANGED <<data, entries, faults>>
      /\ ListInv' /\ Fresh' /\ OnDisk(dir_sector)' = entries /\ Unique(entries)
  BY HeaderWritten
<1>2. DirPhase /\ ~CompactPhase /\ pc # "text"
  BY <1>1 DEF DirPhase, CompactPhase
<1>3. CASE ~compacting
  <2>1. Return
    BY <1>3 DEF DirHeader
  <2>2. View(data, entries) = goal /\ Effect
    BY <1>2, <1>3 DEF StoreInv, ShowInv
  <2>3. shown' = goal
    BY <1>1, <2>1, <2>2, Shown
  <2>4. StoreInv'
    BY <1>1, <2>1, ReturnStore
  <2> QED
    BY <2>2, <2>3, <2>4
<1>4. CASE compacting
  <2>1. /\ pc' = "append" /\ compacting' = FALSE
        /\ UNCHANGED <<job, at, done, g_buf, shown, goal>>
    BY <1>4 DEF DirHeader, append, seen
  <2>2. ~DirPhase' /\ ~CompactPhase' /\ JobPhase /\ pc' \notin {"off", "copy", "text"}
    BY <1>2, <1>4, <2>1 DEF DirPhase, CompactPhase, JobPhase
  <2>3. View(data, entries) = shown
    BY <1>2, <2>2 DEF StoreInv, ShowInv
  <2>4. DiskInv'
    BY <1>1, <2>2 DEF DiskInv
  <2>5. ShowInv'
    BY <1>1, <2>1, <2>2, <2>3 DEF ShowInv
  <2>6. GoalInv'
    <3>1. PICK c : c = goal[job.name]
      OBVIOUS
    <3>2. /\ Effect /\ (find(job.name) = 0 => HasRoom(entries)) /\ Grows(c)
          /\ Len(c) = OldLen(job.name) + Len(job.todo)
          /\ \A j \in 1 .. Len(job.todo) : c[OldLen(job.name) + j] = job.todo[j]
      BY <1>2, <2>2, <3>1 DEF StoreInv, GoalInv
    <3>3. find(job.name)' = find(job.name) /\ OldLen(job.name)' = OldLen(job.name) /\ job' = job
      BY <1>1, <2>1, SameFind
    <3>4. Effect'
      BY <2>1, <3>2, SameEffect
    <3>5. Grows(c)'
      BY <2>1, <3>2, <3>3 DEF Grows
    <3> QED
      BY <1>1, <2>1, <3>1, <3>2, <3>3, <3>4, <3>5 DEF GoalInv, HasRoom
  <2>7. WriteInv' /\ PackInv'
    BY <2>1, <2>2 DEF WriteInv, PackInv
  <2>8. StoreInv'
    BY <1>1, <2>4, <2>5, <2>6, <2>7 DEF StoreInv
  <2> QED
    BY <2>1, <2>8
<1> QED
  BY <1>3, <1>4

LEMMA DirFailsStore ==
  ASSUME FInv, StoreInv, FaultsApart, NEW ents, DirFails(ents)
  PROVE  /\ StoreInv'
         /\ shown' = shown \/ (Effect /\ shown' = goal)
<1> DEFINE h == [dir[Target] EXCEPT !.ents = ents]
<1>1. /\ DirPhase /\ pc # "off" /\ pc \notin {"idle", "append"} /\ ~CompactPhase /\ ~WritePhase
      /\ "erase" \in Faults \/ "write" \in Faults
      /\ faults' = faults + 1 /\ faults < MaxFaults /\ dir' = [dir EXCEPT ![Target] = h]
      /\ UNCHANGED <<data, entries, dir_sector, generation, write_ptr>> /\ Return
  BY DEF DirFails, DirPhase, CompactPhase, WritePhase, Fault, ram
<1>2. /\ Volume /\ Fresh /\ Unique(entries) /\ Len(entries) <= FS_MAX_FILES /\ faults \in Nat
      /\ Unique(OnDisk(dir_sector))
  BY <1>1, Alive
<1>3. h.valid /\ h.count <= FS_MAX_FILES => h.gen < generation
  <2>1. dir[Target] \in Header
    BY <1>2 DEF Volume, Target
  <2>2. h.valid = dir[Target].valid /\ h.count = dir[Target].count /\ h.gen = dir[Target].gen
    BY <2>1 DEF Header
  <2> HIDE DEF h
  <2> QED
    BY <1>2, <2>2 DEF Fresh, dir_header
<1> HIDE DEF h
<1>4. Fresh' /\ OnDisk(dir_sector)' = OnDisk(dir_sector)
  BY <1>1, <1>3, DirKept
<1>5. ~CanCrash'
  <2>1. "crash" \in Faults => MaxFaults <= 1
    BY <1>1 DEF FaultsApart
  <2>2. MaxFaults <= 1 => ~(faults' < MaxFaults)
    BY <1>1, <1>2, GeometryAssumption
  <2> QED
    BY <2>1, <2>2 DEF CanCrash
<1>6. ListInv'
  BY <1>1, <1>2 DEF ListInv
<1>7. StoreInv'
  BY <1>1, <1>2, <1>4, <1>5, <1>6, ReturnStore
<1>8. shown' = View(data, entries)
  BY <1>1, Shown
<1>9. CASE compacting
  BY <1>1, <1>7, <1>8, <1>9 DEF StoreInv, ShowInv, JobPhase
<1>10. CASE ~compacting
  BY <1>1, <1>7, <1>8, <1>10 DEF StoreInv, ShowInv
<1> QED
  BY <1>9, <1>10

(***************************************************************************)
(* Compaction.                                                             *)
(***************************************************************************)
LEMMA Ride ==
  ASSUME NEW off \in Nat, NEW n \in Nat, NEW src \in Nat, NEW dst \in Nat, NEW end \in Nat,
         NEW to \in Nat, NEW i \in 1 .. n, NEW q, NEW p,
         to = dst + (off - src), dst <= to, to + n <= end, q = to + i - 1, p = off + i - 1
  PROVE  /\ q \in Nat /\ p \in Nat /\ dst <= q /\ q < end /\ p < off + n
         /\ src + (q - dst) = p /\ (to <= off => q <= p)
OBVIOUS

\* Where the cells of a file come from and go to.
LEMMA Trip ==
  ASSUME Volume, NEW k \in 1 .. Len(entries), NEW i \in 1 .. entries[k].length,
         NEW q, q = NewOffset(entries[k]) + i - 1, NEW p, p = entries[k].offset + i - 1
  PROVE  /\ q \in Nat /\ p \in Offsets /\ q < Total
         /\ Sound => q <= p /\ q \in Offsets /\ Source(q) = data[p]
<1> DEFINE e == entries[k]
           R(r) == r.dst <= q /\ q < RegionEnd(r)
<1>1. e \in DirEntry /\ e.offset + e.length <= write_ptr /\ write_ptr \in Nat /\ write_ptr <= DATA
  BY Sizes DEF Volume, Placed
<1>2. e.offset \in Nat /\ e.length \in Nat /\ p = e.offset + i - 1 /\ i \in 1 .. e.length
  BY <1>1 DEF DirEntry
<1>3. PICK j \in 1 .. Len(Regions) :
        /\ Regions[j] \in Region
        /\ NewOffset(e) = Regions[j].dst + (e.offset - Regions[j].src)
        /\ NewOffset(e) \in Nat /\ Regions[j].dst <= NewOffset(e)
        /\ NewOffset(e) + e.length <= RegionEnd(Regions[j])
        /\ RegionEnd(Regions[j]) <= Total
        /\ (Sound => NewOffset(e) <= e.offset)
  BY Moving DEF Volume
<1>a. q = NewOffset(e) + i - 1
  OBVIOUS
<1> HIDE DEF e
<1>4. Regions[j].dst \in Nat /\ Regions[j].src \in Nat /\ Regions[j].len \in Nat /\ RegionEnd(Regions[j]) \in Nat
  BY <1>3, EndIsNat DEF Region
<1>5. /\ q \in Nat /\ p \in Nat /\ R(Regions[j]) /\ p < e.offset + e.length
      /\ Regions[j].src + (q - Regions[j].dst) = p /\ (NewOffset(e) <= e.offset => q <= p)
  <2> DEFINE src == Regions[j].src
             dst == Regions[j].dst
             end == RegionEnd(Regions[j])
             off == e.offset
             n   == e.length
             to  == NewOffset(e)
  <2>1. /\ off \in Nat /\ n \in Nat /\ src \in Nat /\ dst \in Nat /\ end \in Nat /\ to \in Nat
        /\ i \in 1 .. n /\ to = dst + (off - src) /\ dst <= to /\ to + n <= end /\ q = to + i - 1 /\ p = off + i - 1
    BY <1>2, <1>3, <1>4, <1>a
  <2> HIDE DEF src, dst, end, off, n, to
  <2>2. /\ q \in Nat /\ p \in Nat /\ dst <= q /\ q < end /\ p < off + n
        /\ src + (q - dst) = p /\ (to <= off => q <= p)
    BY ONLY <2>1, Ride
  <2> QED
    BY <2>2 DEF src, dst, end, off, n, to
<1>6. Total \in Nat /\ q < Total
  BY <1>3, <1>4, <1>5, Repacked DEF Volume
<1>7. p < write_ptr /\ p < DATA /\ p \in Offsets
  <2> DEFINE x == e.offset + e.length
  <2>0. x \in Nat
    BY ONLY <1>2
  <2>1. p \in Nat /\ p < x
    BY <1>5
  <2>2. x <= write_ptr /\ write_ptr \in Nat /\ write_ptr <= DATA
    BY ONLY <1>1
  <2> HIDE DEF x
  <2> QED
    BY <2>0, <2>1, <2>2, Sizes
<1>8. ASSUME NEW r \in ToSet(Regions), R(r)
      PROVE  r = Regions[j]
  <2>1. PICK l \in 1 .. Len(Regions) : r = Regions[l] /\ Regions[l] \in Region
    <3>1. Regions \in Seq(Region)
      BY Repacked DEF Volume
    <3> QED
      BY <3>1 DEF ToSet
  <2>2. Regions[l].dst \in Nat /\ RegionEnd(Regions[l]) \in Nat
    BY <2>1, EndIsNat DEF Region
  <2>3. ASSUME l < j PROVE FALSE
    <3>1. RegionEnd(Regions[l]) <= Regions[j].dst
      BY <2>3, Repacked DEF Volume
    <3>2. q < RegionEnd(Regions[l])
      BY <1>8, <2>1
    <3>3. Regions[j].dst <= q /\ q \in Nat
      BY <1>5
    <3> QED
      BY ONLY <1>4, <2>2, <3>1, <3>2, <3>3
  <2>4. ASSUME j < l PROVE FALSE
    <3>1. RegionEnd(Regions[j]) <= Regions[l].dst
      BY <2>4, Repacked DEF Volume
    <3>2. Regions[l].dst <= q
      BY <1>8, <2>1
    <3>3. q < RegionEnd(Regions[j]) /\ q \in Nat
      BY <1>5
    <3> QED
      BY ONLY <1>4, <2>2, <3>1, <3>2, <3>3
  <2>5. Len(Regions) \in Nat
    BY Repacked DEF Volume
  <2>6. l = j
    BY <2>3, <2>4, <2>5
  <2> QED
    BY <2>1, <2>6
<1>9. Regions[j] \in ToSet(Regions)
  <2>1. Regions \in Seq(Region)
    BY Repacked DEF Volume
  <2> QED
    BY <2>1 DEF ToSet
<1>10. Source(q) = data[Regions[j].src + (q - Regions[j].dst)]
  <2> DEFINE r == CHOOSE r \in ToSet(Regions) : r.dst <= q /\ q < RegionEnd(r)
  <2>1. r = Regions[j]
    BY <1>5, <1>8, <1>9
  <2>2. Source(q) = data[r.src + (q - r.dst)]
    BY DEF Source
  <2> HIDE DEF r
  <2> QED
    BY <2>1, <2>2
<1>11. Sound => q <= p /\ q \in Offsets
  <2> SUFFICES ASSUME Sound PROVE q <= p /\ q \in Offsets
    OBVIOUS
  <2>1. q <= p
    BY <1>3, <1>5
  <2> QED
    BY <1>5, <1>7, <2>1, Sizes
<1> QED
  BY <1>5, <1>6, <1>7, <1>10, <1>11

\* What StoreInv says of a cell in a compaction.
LEMMA Packing ==
  ASSUME FInv, StoreInv, CompactPhase, NEW k \in 1 .. Len(entries), NEW i \in 1 .. entries[k].length
  PROVE  PackedCell(NewOffset(entries[k]) + i - 1, entries[k].offset + i - 1, shown[entries[k].name][i],
                    data, sector, g_buf, pc)
BY DEF StoreInv, PackInv

\* A step of a compaction that keeps the cells keeps the rest.
LEMMA PackTurn ==
  ASSUME FInv, StoreInv, CompactPhase, CompactPhase',
         UNCHANGED <<dir, entries, dir_sector, generation, job, compacting, shown, goal, faults>>,
         \A k \in 1 .. Len(entries) : \A i \in 1 .. entries[k].length :
           (
           PackedCell(NewOffset(entries[k]) + i - 1, entries[k].offset + i - 1, shown[entries[k].name][i],
                      data, sector, g_buf, pc))'
  PROVE  StoreInv'
<1>1. /\ pc # "off" /\ pc' \notin {"off", "idle", "text", "copy"} /\ ~DirPhase /\ ~DirPhase' /\ JobPhase /\ JobPhase'
      /\ pc # "text"
  BY DEF DirPhase, CompactPhase, JobPhase
<1>2. /\ Volume /\ entries \in Seq(DirEntry) /\ Unique(entries) /\ Len(entries) <= FS_MAX_FILES
      /\ faults \in Nat /\ Fresh /\ Unique(OnDisk(dir_sector)) /\ (CanCrash => OnDisk(dir_sector) = entries)
  BY <1>1, Alive
<1>3. Fresh' /\ OnDisk(dir_sector)' = OnDisk(dir_sector) /\ (CanCrash' => CanCrash)
  BY <1>2, SameDir
<1>4. ListInv' /\ DiskInv'
  BY <1>1, <1>2, <1>3 DEF ListInv, DiskInv
<1>5. ShowInv' /\ WriteInv'
  BY <1>1 DEF ShowInv, WriteInv
<1>6. GoalInv'
  <2>1. PICK c : c = goal[job.name]
    OBVIOUS
  <2>2. /\ Effect /\ (find(job.name) = 0 => HasRoom(entries)) /\ Grows(c)
        /\ Len(c) = OldLen(job.name) + Len(job.todo)
        /\ \A j \in 1 .. Len(job.todo) : c[OldLen(job.name) + j] = job.todo[j]
    BY <1>1, <2>1 DEF StoreInv, GoalInv
  <2>3. find(job.name)' = find(job.name) /\ OldLen(job.name)' = OldLen(job.name) /\ job' = job
    BY SameFind
  <2>4. Effect'
    BY <2>2, SameEffect
  <2>5. Grows(c)'
    BY <2>2, <2>3 DEF Grows
  <2> QED
    BY <2>1, <2>2, <2>3, <2>4, <2>5 DEF GoalInv, HasRoom
<1>7. PackInv'
  <2>1. /\ DOMAIN shown = {entries[k].name : k \in 1 .. Len(entries)}
        /\ shown = [n \in DOMAIN shown |-> shown[n]]
        /\ \A k \in 1 .. Len(entries) :
             shown[entries[k].name] = [i \in 1 .. entries[k].length |-> shown[entries[k].name][i]]
    BY DEF StoreInv, PackInv
  <2> QED
    BY <2>1 DEF PackInv
<1> QED
  BY <1>4, <1>5, <1>6, <1>7 DEF StoreInv

LEMMA StageStore ==
  ASSUME FInv, StoreInv, CompactStage
  PROVE  StoreInv'
<1> DEFINE lo == sector * SECTOR
<1>1. /\ pc = "compact" /\ pc' = "compact_erase" /\ Sound /\ sector < DestSectors /\ g_buf' = Staged(sector)
      /\ UNCHANGED <<data, dir, entries, dir_sector, generation, job, compacting, sector, shown, goal, faults>>
      /\ CompactPhase /\ CompactPhase'
  BY DEF CompactStage, CompactPhase, flash, ram, append, seen
<1>2. Volume /\ sector \in Nat /\ SECTOR \in Nat \ {0} /\ Total \in Nat
  BY <1>1, TotalFits, Sizes DEF FInv, Control, Phases
<1>3. /\ lo \in Nat /\ Len(g_buf') \in Nat
      /\ lo + Len(g_buf') = Total \/ Len(g_buf') = SECTOR
      /\ \A i \in 1 .. Len(g_buf') : g_buf'[i] = Source(lo + i - 1)
  <2>1. /\ Len(Staged(sector)) \in 1 .. SECTOR
        /\ lo + Len(Staged(sector)) = Total \/ Len(Staged(sector)) = SECTOR
        /\ \A i \in 1 .. Len(Staged(sector)) : Staged(sector)[i] = Source(lo + i - 1)
    BY <1>1, <1>2, StagedFacts
  <2>2. lo \in Nat
    BY <1>2
  <2> HIDE DEF lo
  <2>3. Len(Staged(sector)) \in Nat
    BY <1>2, <2>1
  <2> QED
    BY <1>1, <2>1, <2>2, <2>3
<1>4. ASSUME NEW k \in 1 .. Len(entries), NEW i \in 1 .. entries[k].length
      PROVE  (
           PackedCell(NewOffset(entries[k]) + i - 1, entries[k].offset + i - 1, shown[entries[k].name][i],
                      data, sector, g_buf, pc))'
  <2>1. PICK q : q = NewOffset(entries[k]) + i - 1
    OBVIOUS
  <2>2. PICK p : p = entries[k].offset + i - 1
    OBVIOUS
  <2>3. PICK c : c = shown[entries[k].name][i]
    OBVIOUS
  <2>4. PackedCell(q, p, c, data, sector, g_buf, pc)
    BY <1>1, <2>1, <2>2, <2>3, Packing
  <2>5. q \in Nat /\ q < Total /\ Source(q) = data[p]
    BY <1>1, <1>2, <2>1, <2>2, Trip
  <2>6. (q < lo => data[q] = c) /\ (lo <= q => data[p] = c)
    BY <1>1, <2>4 DEF PackedCell
  <2> HIDE DEF lo
  <2>7. ASSUME lo <= q, q < lo + SECTOR
        PROVE  g_buf'[q - lo + 1] = c
    <3>1. q - lo + 1 \in 1 .. Len(g_buf') /\ lo + (q - lo + 1) - 1 = q
      BY <1>2, <1>3, <2>5, <2>7
    <3>2. g_buf'[q - lo + 1] = Source(q)
      BY <1>3, <3>1
    <3> QED
      BY <2>5, <2>6, <2>7, <3>2
  <2>8. lo + SECTOR <= q => lo <= q
    BY <1>2, <1>3, <2>5
  <2>9. /\ lo = sector' * SECTOR /\ data' = data
    BY <1>1 DEF lo
  <2>10. PackedCell(q, p, c, data', sector', g_buf', pc')
    BY <2>6, <2>7, <2>8, <2>9 DEF PackedCell
  <2>11. /\ (NewOffset(entries[k]) + i - 1)' = q /\ (entries[k].offset + i - 1)' = p
         /\ (shown[entries[k].name][i])' = c
    BY <1>1, <2>1, <2>2, <2>3, SameRegions DEF NewOffset
  <2> QED
    BY <2>10, <2>11
<1> QED
  BY <1>1, <1>4, PackTurn

\* A step of a compaction, cell by cell: q is where the cell goes, p where it is from.
CellsKept ==
  \A q, p \in Offsets : \A c :
    q <= p /\ q < Total /\ PackedCell(q, p, c, data, sector, g_buf, pc)
      => PackedCell(q, p, c, data', sector', g_buf', pc')

LEMMA CellsTurn ==
  ASSUME FInv, StoreInv, CompactPhase, CompactPhase', Sound,
         UNCHANGED <<dir, entries, dir_sector, generation, job, compacting, shown, goal, faults>>,
         CellsKept
  PROVE  StoreInv'
<1>1. Volume
  BY DEF FInv
<1>2. ASSUME NEW k \in 1 .. Len(entries), NEW i \in 1 .. entries[k].length
      PROVE  (
           PackedCell(NewOffset(entries[k]) + i - 1, entries[k].offset + i - 1, shown[entries[k].name][i],
                      data, sector, g_buf, pc))'
  <2>1. PICK q : q = NewOffset(entries[k]) + i - 1
    OBVIOUS
  <2>2. PICK p : p = entries[k].offset + i - 1
    OBVIOUS
  <2>3. PICK c : c = shown[entries[k].name][i]
    OBVIOUS
  <2>4. PackedCell(q, p, c, data, sector, g_buf, pc)
    BY <2>1, <2>2, <2>3, Packing
  <2>5. q \in Offsets /\ p \in Offsets /\ q <= p /\ q < Total
    BY <1>1, <2>1, <2>2, Trip
  <2>6. PackedCell(q, p, c, data', sector', g_buf', pc')
    BY <2>4, <2>5 DEF CellsKept
  <2>7. /\ (NewOffset(entries[k]) + i - 1)' = q /\ (entries[k].offset + i - 1)' = p
        /\ (shown[entries[k].name][i])' = c
    BY <2>1, <2>2, <2>3, SameRegions DEF NewOffset
  <2> QED
    BY <2>6, <2>7
<1> QED
  BY <1>2, PackTurn

LEMMA EraseStore ==
  ASSUME FInv, StoreInv, CompactErase
  PROVE  StoreInv'
<1>1. /\ pc = "compact_erase" /\ pc' = "compact_write" /\ EraseSector(sector)
      /\ UNCHANGED <<dir, entries, dir_sector, generation, job, compacting, sector, g_buf, shown, goal, faults>>
      /\ CompactPhase /\ CompactPhase'
  BY DEF CompactErase, CompactPhase, ram, append, pack, seen
<1>2. Sound /\ sector \in Nat
  BY <1>1 DEF FInv, Control, StageInv, Phases
<1>3. PICK lo : lo = sector * SECTOR
  OBVIOUS
<1>4. lo \in Nat /\ SECTOR \in Nat \ {0} /\ sector' * SECTOR = lo
  BY <1>1, <1>2, <1>3, Sizes
<1>5. \A o \in Offsets : data'[o] = IF o \in lo .. lo + SECTOR - 1 THEN ERASED ELSE data[o]
  BY <1>1, <1>3, Erased DEF Cells
<1>6. ASSUME NEW q \in Offsets, NEW p \in Offsets, NEW c, q <= p, PackedCell(q, p, c, data, sector, g_buf, pc)
      PROVE  PackedCell(q, p, c, data', sector', g_buf', pc')
  <2>1. /\ q < lo => data[q] = c
        /\ lo + SECTOR <= q => data[p] = c
        /\ lo <= q /\ q < lo + SECTOR => g_buf[q - lo + 1] = c
    BY <1>1, <1>3, <1>6 DEF PackedCell
  <2>2. q \in Nat /\ p \in Nat
    BY Sizes
  <2>3. q < lo => data'[q] = c
    BY <1>4, <1>5, <2>1, <2>2
  <2>4. lo + SECTOR <= q => data'[p] = c
    <3>1. lo + SECTOR <= q => p \notin lo .. lo + SECTOR - 1
      BY <1>4, <1>6, <2>2
    <3> QED
      BY <1>5, <2>1, <3>1
  <2> QED
    BY <1>1, <1>4, <2>1, <2>3, <2>4 DEF PackedCell
<1>7. CellsKept
  BY <1>6 DEF CellsKept
<1> QED
  BY <1>1, <1>2, <1>7, CellsTurn

LEMMA WriteStore ==
  ASSUME FInv, StoreInv, CompactWrite
  PROVE  StoreInv'
<1>1. PICK lo : lo = sector * SECTOR
  OBVIOUS
<1>2. PICK m : m = Len(g_buf)
  OBVIOUS
<1>3. PICK total : total = Total
  OBVIOUS
<1>4. /\ pc = "compact_write" /\ pc' = "compact" /\ Program(lo, g_buf, m)
      /\ UNCHANGED <<dir, entries, dir_sector, generation, job, compacting, shown, goal, faults>>
      /\ sector' = sector + 1 /\ CompactPhase /\ CompactPhase'
  BY <1>1, <1>2 DEF CompactWrite, CompactPhase, ram, append, seen
<1>5. Sound /\ sector \in Nat
  BY <1>4 DEF FInv, Control, StageInv, Phases
<1>6. /\ lo \in Nat /\ SECTOR \in Nat \ {0} /\ sector' * SECTOR = lo + SECTOR
      /\ m \in 1 .. SECTOR /\ total \in Nat
      /\ lo + m = total \/ m = SECTOR
  <2>1. /\ lo \in Nat /\ m \in 1 .. SECTOR /\ total \in Nat /\ (lo + m = total \/ m = SECTOR)
        /\ (sector + 1) * SECTOR = lo + SECTOR
    BY <1>1, <1>2, <1>3, <1>4, StagedEnd
  <2> QED
    BY <1>4, <2>1, Sizes
<1>7. \A c \in Offsets : data'[c] = IF c \in lo .. lo + m - 1 THEN g_buf[c - lo + 1] ELSE data[c]
  BY <1>4, DataTyped
<1>8. ASSUME NEW q \in Offsets, NEW p \in Offsets, NEW c, q <= p, q < Total, PackedCell(q, p, c, data, sector, g_buf, pc)
      PROVE  PackedCell(q, p, c, data', sector', g_buf', pc')
  <2>1. /\ q < lo => data[q] = c
        /\ lo + SECTOR <= q => data[p] = c
        /\ lo <= q /\ q < lo + SECTOR => g_buf[q - lo + 1] = c
    BY <1>1, <1>4, <1>8 DEF PackedCell
  <2>2. q \in Nat /\ p \in Nat /\ q < total
    BY <1>3, <1>8, Sizes
  <2>3. q < lo => data'[q] = c
    <3>1. q < lo => q \notin lo .. lo + m - 1
      BY <1>6, <2>2
    <3> QED
      BY <1>7, <2>1, <3>1
  <2>4. lo <= q /\ q < lo + SECTOR => data'[q] = c
    <3>1. lo <= q /\ q < lo + SECTOR => q \in lo .. lo + m - 1
      BY <1>6, <2>2
    <3> QED
      BY <1>7, <2>1, <3>1
  <2>5. lo + SECTOR <= q => data'[p] = c
    <3>1. lo + SECTOR <= q => p \notin lo .. lo + m - 1
      BY <1>6, <1>8, <2>2
    <3> QED
      BY <1>7, <2>1, <3>1
  <2>6. q < lo + SECTOR => data'[q] = c
    BY <1>6, <2>2, <2>3, <2>4
  <2>7. lo + SECTOR + SECTOR <= q => lo + SECTOR <= q
    BY <1>6, <2>2
  <2> QED
    BY <1>4, <1>6, <2>5, <2>6, <2>7 DEF PackedCell
<1>9. CellsKept
  BY <1>8 DEF CellsKept
<1> QED
  BY <1>4, <1>5, <1>9, CellsTurn

\* What is packed ends below the sectors that are only erased.
LEMMA AllPacked ==
  ASSUME FInv, CompactPhase, Sound, sector >= DestSectors
  PROVE  sector * SECTOR \in Nat /\ Total <= sector * SECTOR /\ Total \in Nat
<1>1. sector \in Nat /\ Total \in Nat /\ SECTOR \in Nat \ {0}
  BY TotalFits, Sizes DEF FInv, Control, Phases
<1> DEFINE d == (Total + SECTOR - 1) \div SECTOR
<1>2. Total + SECTOR - 1 \in Nat /\ Total + SECTOR - 1 >= Total
  BY <1>1
<1>3. d \in Nat /\ Total + SECTOR - 1 < SECTOR * d + SECTOR
  BY <1>1, <1>2, DivBounds
<1>4. d <= sector
  BY DEF DestSectors
<1> HIDE DEF d
<1>5. SECTOR * d \in Nat /\ SECTOR * d <= SECTOR * sector
  BY <1>1, <1>3, <1>4, TimesMonotone
<1>6. SECTOR * sector = sector * SECTOR /\ sector * SECTOR \in Nat
  BY <1>1
<1> DEFINE x == SECTOR * d
           y == sector * SECTOR
<1>7. x \in Nat /\ y \in Nat /\ x <= y /\ Total + SECTOR - 1 < x + SECTOR
  BY <1>3, <1>5, <1>6
<1> HIDE DEF x, y
<1>8. Total <= y
  BY <1>1, <1>7
<1> QED
  BY <1>1, <1>6, <1>8 DEF y

LEMMA EraseRestStore ==
  ASSUME FInv, StoreInv, CompactEraseRest
  PROVE  StoreInv'
<1>1. PICK lo : lo = sector * SECTOR
  OBVIOUS
<1>2. /\ pc = "compact" /\ pc' = "compact" /\ EraseSector(sector) /\ Sound /\ sector >= DestSectors
      /\ UNCHANGED <<dir, entries, dir_sector, generation, job, compacting, shown, goal, faults>>
      /\ sector' = sector + 1 /\ CompactPhase /\ CompactPhase'
  BY DEF CompactEraseRest, CompactPhase, ram, append, seen
<1>3. lo \in Nat /\ Total <= lo /\ Total \in Nat /\ SECTOR \in Nat \ {0} /\ sector' * SECTOR = lo + SECTOR
  <2>1. lo \in Nat /\ Total <= lo /\ Total \in Nat
    BY <1>1, <1>2, AllPacked
  <2>2. sector \in Nat /\ SECTOR \in Nat \ {0}
    BY Sizes DEF FInv, Control, Phases
  <2>3. (sector + 1) * SECTOR = sector * SECTOR + SECTOR
    BY <2>2
  <2> QED
    BY <1>1, <1>2, <2>1, <2>2, <2>3
<1>4. \A o \in Offsets : data'[o] = IF o \in lo .. lo + SECTOR - 1 THEN ERASED ELSE data[o]
  BY <1>1, <1>2, Erased DEF Cells
<1>5. ASSUME NEW q \in Offsets, NEW p \in Offsets, NEW c, q < Total, PackedCell(q, p, c, data, sector, g_buf, pc)
      PROVE  PackedCell(q, p, c, data', sector', g_buf', pc')
  <2>1. q \in Nat /\ q < lo /\ q < lo + SECTOR
    BY <1>3, <1>5, Sizes
  <2>2. data[q] = c
    BY <1>1, <1>5, <2>1 DEF PackedCell
  <2>3. data'[q] = c /\ ~(lo + SECTOR <= q) /\ ~(lo + SECTOR + SECTOR <= q)
    BY <1>3, <1>4, <2>1, <2>2
  <2> QED
    BY <1>2, <1>3, <2>3 DEF PackedCell
<1>6. CellsKept
  BY <1>5 DEF CellsKept
<1> QED
  BY <1>2, <1>6, CellsTurn

\* Packed, the files are where the directory in RAM now says.
LEMMA DoneStore ==
  ASSUME FInv, StoreInv, CompactDone
  PROVE  StoreInv'
<1>1. /\ pc = "compact" /\ pc' = "dir_erase" /\ Sound /\ sector >= DestSectors /\ entries' = Moved
      /\ UNCHANGED <<data, dir, dir_sector, generation, job, compacting, shown, goal, faults>>
      /\ CompactPhase
  BY DEF CompactDone, CompactPhase, Moved, flash, append, pack, seen
<1>2. /\ ~DirPhase /\ pc # "off" /\ JobPhase /\ pc # "text"
      /\ DirPhase' /\ ~CompactPhase' /\ pc' \notin {"off", "text", "copy"} /\ compacting'
  BY <1>1 DEF DirPhase, CompactPhase, JobPhase, FInv, Control, JobInv
<1>3. /\ Volume /\ entries \in Seq(DirEntry) /\ Unique(entries) /\ Len(entries) <= FS_MAX_FILES
      /\ faults \in Nat /\ Fresh /\ Unique(OnDisk(dir_sector)) /\ Len(entries) \in Nat
  BY <1>2, Alive
<1>4. /\ Moved \in Seq(DirEntry) /\ Len(Moved) = Len(entries)
      /\ \A k \in 1 .. Len(entries) :
           /\ Moved[k].name = entries[k].name /\ Moved[k].length = entries[k].length
           /\ Moved[k].offset = NewOffset(entries[k])
  BY <1>3, MovedApart DEF Volume
<1>5. Unique(Moved)
  BY <1>3, <1>4 DEF Unique
<1>6. Fresh' /\ OnDisk(dir_sector)' = OnDisk(dir_sector)
  BY <1>1, <1>3, SameDir
<1>7. ListInv' /\ DiskInv'
  BY <1>1, <1>2, <1>3, <1>4, <1>5, <1>6 DEF ListInv, DiskInv
<1>8. View(data, Moved) = shown
  <2>1. /\ DOMAIN shown = {entries[k].name : k \in 1 .. Len(entries)}
        /\ shown = [n \in DOMAIN shown |-> shown[n]]
        /\ \A k \in 1 .. Len(entries) :
             shown[entries[k].name] = [i \in 1 .. entries[k].length |-> shown[entries[k].name][i]]
    BY <1>1 DEF StoreInv, PackInv
  <2>2. DOMAIN shown = NamesIn(Moved)
    BY <1>3, <1>4, <2>1 DEF NamesIn
  <2>3. ASSUME NEW k \in 1 .. Len(Moved)
        PROVE  shown[Moved[k].name] = Content(data, Moved[k])
    <3>1. PICK v : v = shown[entries[k].name]
      OBVIOUS
    <3>2. k \in 1 .. Len(entries) /\ v = [i \in 1 .. entries[k].length |-> v[i]]
      BY <1>4, <2>1, <3>1
    <3>3. ASSUME NEW i \in 1 .. entries[k].length
          PROVE  data[NewOffset(entries[k]) + i - 1] = v[i]
      <4>1. PICK q : q = NewOffset(entries[k]) + i - 1
        OBVIOUS
      <4>2. PackedCell(q, entries[k].offset + i - 1, v[i], data, sector, g_buf, pc)
        BY <1>1, <3>1, <3>2, <4>1, Packing
      <4>3. q \in Nat /\ q < Total
        BY <1>3, <3>2, <4>1, Trip
      <4>4. q < sector * SECTOR
        BY <1>1, <4>3, AllPacked
      <4> QED
        BY <4>1, <4>2, <4>4 DEF PackedCell
    <3>4. Content(data, Moved[k]) = [i \in 1 .. entries[k].length |-> data[NewOffset(entries[k]) + i - 1]]
      BY <1>4, <3>2 DEF Content
    <3>5. [i \in 1 .. entries[k].length |-> data[NewOffset(entries[k]) + i - 1]]
            = [i \in 1 .. entries[k].length |-> v[i]]
      BY <3>3
    <3> QED
      BY <1>4, <3>1, <3>2, <3>4, <3>5
  <2> QED
    BY <1>4, <1>5, <2>1, <2>2, <2>3, ViewIs
<1>9. ShowInv'
  BY <1>1, <1>2, <1>8 DEF ShowInv
<1>10. GoalInv'
  <2>1. PICK c : c = goal[job.name]
    OBVIOUS
  <2>2. /\ Effect /\ (find(job.name) = 0 => HasRoom(entries)) /\ Grows(c)
        /\ Len(c) = OldLen(job.name) + Len(job.todo)
        /\ \A j \in 1 .. Len(job.todo) : c[OldLen(job.name) + j] = job.todo[j]
    BY <1>2, <2>1 DEF StoreInv, GoalInv
  <2>3. PICK n : n = job.name
    OBVIOUS
  <2>4. Indices(Moved, n) = Indices(entries, n)
    BY <1>3, <1>4 DEF Indices
  <2>5. find(n)' = find(n)
    BY <1>1, <2>4 DEF find
  <2>6. find(n) # 0 => find(n) \in 1 .. Len(entries)
    BY <1>3, Found
  <2>7. OldLen(n)' = OldLen(n)
    BY <1>1, <1>4, <2>5, <2>6 DEF OldLen
  <2>8. job'.name = n /\ job' = job
    BY <1>1, <2>3
  <2>9. Effect'
    BY <1>1, <2>2, SameEffect
  <2>10. Grows(c)'
    BY <1>1, <2>2, <2>3, <2>5, <2>7, <2>8 DEF Grows
  <2>11. find(n)' = 0 => HasRoom(entries)'
    BY <1>1, <1>4, <2>2, <2>3, <2>5 DEF HasRoom
  <2> QED
    BY <1>1, <2>1, <2>2, <2>3, <2>5, <2>7, <2>8, <2>9, <2>10, <2>11 DEF GoalInv
<1>11. WriteInv' /\ PackInv'
  BY <1>2 DEF WriteInv, PackInv
<1> QED
  BY <1>7, <1>9, <1>10, <1>11 DEF StoreInv

\* A compaction that cannot be done changes nothing; one that fails may break
\* what the files show.
LEMMA CompactFailsStore ==
  ASSUME FInv, StoreInv, NEW k \in 0 .. Len(Writing), CompactFails(k)
  PROVE  StoreInv' /\ (shown' = shown \/ CompactionBroken)
<1>1. /\ CompactPhase /\ Return /\ UNCHANGED <<dir, entries, dir_sector, generation>>
      /\ IF Sound THEN faults' = faults + 1 ELSE faults' = faults
      /\ ~Sound => pc = "compact"
      /\ Program(WritingAt, Writing, k)
  BY DEF CompactFails, CompactPhase, Fault, ram, FInv, Control, StageInv
<1>2. pc # "off" /\ ~DirPhase /\ compacting
  BY <1>1 DEF CompactPhase, DirPhase, FInv, Control, JobInv
<1>3. /\ Volume /\ entries \in Seq(DirEntry) /\ Unique(entries) /\ Len(entries) <= FS_MAX_FILES
      /\ faults \in Nat /\ Fresh /\ Unique(OnDisk(dir_sector)) /\ (CanCrash => OnDisk(dir_sector) = entries)
  BY <1>2, Alive
<1>4. faults' \in {faults, faults + 1}
  BY <1>1
<1>5. Fresh' /\ OnDisk(dir_sector)' = OnDisk(dir_sector) /\ (CanCrash' => CanCrash)
  BY <1>1, <1>3, <1>4, SameDir
<1>6. ListInv'
  BY <1>1, <1>3, <1>4 DEF ListInv
<1>7. StoreInv'
  BY <1>1, <1>3, <1>5, <1>6, ReturnStore
<1>8. CASE Sound
  <2>1. faults' # faults
    BY <1>1, <1>3, <1>8
  <2> QED
    BY <1>2, <1>7, <2>1 DEF CompactionBroken
<1>9. CASE ~Sound
  <2>1. pc = "compact" /\ sector = 0
    BY <1>1, <1>9 DEF FInv, Control, StageInv
  <2>2. sector * SECTOR = 0
    BY <2>1, Sizes
  <2>3. data' = data
    <3>1. Writing = <<>> /\ WritingAt = at /\ at \in Nat
      BY <2>1 DEF Writing, WritingAt, FInv, Control, Phases
    <3>2. k = 0
      BY <3>1
    <3>3. at .. at + k - 1 = {}
      BY <3>1, <3>2
    <3>4. \A c \in Offsets : data'[c] = data[c]
      BY <1>1, <3>1, <3>3, DataTyped
    <3>5. data' = [c \in Offsets |-> data'[c]] /\ data = [c \in Offsets |-> data[c]]
      BY <1>1, <1>3, DataTyped DEF Volume
    <3> QED
      BY <3>4, <3>5
  <2>4. View(data, entries) = shown
    <3>1. /\ DOMAIN shown = {entries[j].name : j \in 1 .. Len(entries)}
          /\ shown = [n \in DOMAIN shown |-> shown[n]]
          /\ \A j \in 1 .. Len(entries) :
               shown[entries[j].name] = [i \in 1 .. entries[j].length |-> shown[entries[j].name][i]]
      BY <1>1 DEF StoreInv, PackInv
    <3>2. DOMAIN shown = NamesIn(entries)
      BY <3>1 DEF NamesIn
    <3>3. ASSUME NEW j \in 1 .. Len(entries)
          PROVE  shown[entries[j].name] = Content(data, entries[j])
      <4>1. PICK v : v = shown[entries[j].name]
        OBVIOUS
      <4>2. ASSUME NEW i \in 1 .. entries[j].length
            PROVE  data[entries[j].offset + i - 1] = v[i]
        <5>1. PICK q : q = NewOffset(entries[j]) + i - 1
          OBVIOUS
        <5>2. PackedCell(q, entries[j].offset + i - 1, v[i], data, sector, g_buf, pc)
          BY <1>1, <4>1, <5>1, Packing
        <5>3. q \in Nat
          BY <1>3, <5>1, Trip
        <5> QED
          BY <2>1, <2>2, <5>2, <5>3 DEF PackedCell
      <4>3. v = [i \in 1 .. entries[j].length |-> v[i]]
        BY <3>1, <4>1
      <4> QED
        BY <4>1, <4>2, <4>3 DEF Content
    <3> QED
      BY <1>3, <3>1, <3>2, <3>3, ViewIs
  <2>5. shown' = View(data', entries')
    BY <1>1, Shown
  <2> QED
    BY <1>1, <1>7, <2>3, <2>4, <2>5
<1> QED
  BY <1>8, <1>9

(***************************************************************************)
(* Power loss.                                                             *)
(***************************************************************************)
\* Nothing is programmed but by the steps that write cells.
LEMMA NotWriting ==
  ASSUME FInv, ~WritePhase, pc # "compact_write", NEW k \in 0 .. Len(Writing), Program(WritingAt, Writing, k)
  PROVE  data' = data
<1>1. Writing = <<>> /\ WritingAt = at /\ at \in Nat
  BY DEF WritePhase, Writing, WritingAt, FInv, Control, Phases
<1>2. k = 0
  BY <1>1
<1>3. at .. at + k - 1 = {}
  BY <1>1, <1>2
<1>4. \A c \in Offsets : data'[c] = data[c]
  BY <1>1, <1>3, DataTyped
<1>5. data' = [c \in Offsets |-> data'[c]] /\ data = [c \in Offsets |-> data[c]]
  BY DataTyped DEF FInv, Volume
<1> QED
  BY <1>4, <1>5

\* What a mount will find is the directory in use, whatever the other sector
\* holds of the one being written.
LEMMA LossDir ==
  ASSUME FInv, StoreInv, NEW k, NEW ents, PowerLoss(k, ents)
  PROVE  /\ Newest({0, 1})' = dir_sector
         /\ (dir_header(0) /\ dir_header(1) => dir[0].gen # dir[1].gen)'
         /\ (OnDisk(Newest({0, 1})))' = OnDisk(dir_sector)
         /\ dir_header(0)' \/ dir_header(1)'
<1>1. PICK s : s = dir_sector
  OBVIOUS
<1>2. PICK t : t = Target
  OBVIOUS
<1>3. /\ pc # "off"
      /\ IF pc = "dir_entries" THEN dir' = [dir EXCEPT ![t].ents = ents] ELSE UNCHANGED dir
  BY <1>2 DEF PowerLoss
<1>4. Volume /\ Fresh
  BY <1>3, Alive
<1>5. s \in 0 .. 1 /\ t = 1 - s /\ generation \in Nat /\ dir[t] \in Header /\ dir[s] \in Header /\ s # t
  BY <1>1, <1>2, <1>4 DEF Volume, Target
<1>6. /\ dir'[s] = dir[s] /\ dir'[t].valid = dir[t].valid /\ dir'[t].gen = dir[t].gen
      /\ dir'[t].count = dir[t].count
  <2>1. CASE pc = "dir_entries"
    <3> DEFINE h == [dir[t] EXCEPT !.ents = ents]
    <3>1. h.valid = dir[t].valid /\ h.gen = dir[t].gen /\ h.count = dir[t].count
      BY <1>5 DEF Header
    <3>2. dir' = [dir EXCEPT ![t] = h]
      BY <1>3, <2>1
    <3> HIDE DEF h
    <3>3. dir'[t] = h /\ dir'[s] = dir[s]
      BY <1>4, <1>5, <3>2 DEF Volume
    <3> QED
      BY <3>1, <3>3
  <2>2. CASE pc # "dir_entries"
    BY <1>3, <2>2
  <2> QED
    BY <2>1, <2>2
<1>7. /\ dir[s].valid /\ dir[s].count <= FS_MAX_FILES /\ dir[s].gen = generation
      /\ dir[t].valid /\ dir[t].count <= FS_MAX_FILES => dir[t].gen < generation
  BY <1>1, <1>2, <1>4 DEF Fresh, dir_header
<1>8. dir[t].gen \in Nat
  BY <1>5 DEF Header
<1>9. /\ dir'[s].valid /\ dir'[s].count <= FS_MAX_FILES
      /\ dir'[t].valid /\ dir'[t].count <= FS_MAX_FILES => dir'[t].gen < dir'[s].gen
      /\ dir'[s].gen \in Nat /\ dir'[t].gen \in Nat
  BY <1>5, <1>6, <1>7, <1>8
<1>10. (s = 0 /\ t = 1) \/ (s = 1 /\ t = 0)
  BY <1>5
<1>11. Newest({0, 1})' = s
  BY <1>9, <1>10 DEF Newest, dir_header
<1>12. (dir_header(0) /\ dir_header(1) => dir[0].gen # dir[1].gen)'
  BY <1>9, <1>10 DEF dir_header
<1>13. (OnDisk(Newest({0, 1})))' = OnDisk(dir_sector)
  <2>1. (OnDisk(Newest({0, 1})))' = SubSeq(dir'[s].ents, 1, dir'[s].count)
    BY <1>11 DEF OnDisk
  <2> QED
    BY <1>1, <1>6, <2>1 DEF OnDisk
<1> QED
  BY <1>1, <1>9, <1>10, <1>11, <1>12, <1>13 DEF dir_header

LEMMA PowerLossStore ==
  ASSUME FInv, StoreInv, NEW k \in 0 .. Len(Writing), NEW ents, PowerLoss(k, ents)
  PROVE  StoreInv' /\ shown' = shown
<1>1. /\ pc # "off" /\ CanCrash /\ faults' = faults + 1 /\ Program(WritingAt, Writing, k)
      /\ entries' = <<>> /\ pc' = "off" /\ UNCHANGED <<compacting, shown, goal>>
  BY DEF PowerLoss, Fault, CanCrash, seen
<1>2. /\ Volume /\ entries \in Seq(DirEntry) /\ Unique(entries) /\ faults \in Nat
      /\ Fresh /\ Unique(OnDisk(dir_sector)) /\ (~DirPhase => OnDisk(dir_sector) = entries)
  BY <1>1, Alive
<1>3. /\ (dir_header(0) /\ dir_header(1) => dir[0].gen # dir[1].gen)'
      /\ (OnDisk(Newest({0, 1})))' = OnDisk(dir_sector)
      /\ dir_header(0)' \/ dir_header(1)'
  BY LossDir
<1>4. ~compacting => View(data', OnDisk(dir_sector)) = shown
  <2> SUFFICES ASSUME ~compacting PROVE View(data', OnDisk(dir_sector)) = shown
    OBVIOUS
  <2>1. ~CompactPhase
    BY DEF FInv, Control, JobInv
  <2>2. CASE DirPhase
    <3>1. ~WritePhase /\ pc # "compact_write"
      BY <2>2 DEF DirPhase, WritePhase
    <3>2. data' = data
      BY <1>1, <3>1, NotWriting
    <3> QED
      BY <1>1, <2>2, <3>2 DEF StoreInv, DiskInv
  <2>3. CASE WritePhase
    <3>1. WritingAt = at /\ ~DirPhase /\ Len(Writing) \in Nat
      <4>1. CASE pc = "copy"
        BY <4>1, ChunkFacts DEF Writing, WritingAt, DirPhase
      <4>2. CASE pc = "text"
        BY <4>2 DEF Writing, WritingAt, DirPhase
      <4> QED
        BY <2>3, <4>1, <4>2 DEF WritePhase
    <3>2. k \in Nat
      BY <3>1
    <3>3. View(data', entries) = shown
      BY <1>1, <2>3, <3>1, <3>2, Beyond
    <3> QED
      BY <1>2, <3>1, <3>3
  <2>4. CASE ~DirPhase /\ ~WritePhase
    <3>1. pc \in {"idle", "append"}
      BY <1>1, <2>1, <2>4 DEF FInv, Control, Phases
    <3>2. data' = data
      BY <1>1, <2>1, <2>4, NotWriting DEF CompactPhase
    <3>3. View(data, entries) = shown
      BY <2>1, <3>1 DEF StoreInv, ShowInv, JobPhase
    <3> QED
      BY <1>2, <2>4, <3>2, <3>3
  <2> QED
    BY <2>2, <2>3, <2>4
<1>5. OffInv'
  <2>1. ~compacting' => OnFlash' = shown'
    <3>1. OnFlash' = View(data', (OnDisk(Newest({0, 1})))')
      BY DEF OnFlash, OnDisk
    <3> QED
      BY <1>1, <1>3, <1>4, <3>1
  <2>2. (Unique(OnDisk(Newest({0, 1}))))'
    BY <1>2, <1>3 DEF Unique
  <2> QED
    BY <1>3, <2>1, <2>2 DEF OffInv
<1>6. ListInv'
  <2>1. Len(<<>>) = 0
    OBVIOUS
  <2> QED
    BY <1>1, <1>2, <2>1, GeometryAssumption DEF ListInv, Unique
<1>7. ~DirPhase' /\ ~CompactPhase' /\ ~JobPhase' /\ pc' \notin {"idle", "copy", "text"}
  BY <1>1 DEF DirPhase, CompactPhase, JobPhase, WritePhase
<1>8. DiskInv'
  BY <1>1, <1>5, <1>7 DEF DiskInv
<1>9. ShowInv' /\ GoalInv' /\ WriteInv' /\ PackInv'
  BY <1>7 DEF ShowInv, GoalInv, WriteInv, PackInv
<1> QED
  BY <1>1, <1>6, <1>8, <1>9 DEF StoreInv

(***************************************************************************)
(* fs.c implements FileStore.                                              *)
(***************************************************************************)
LEMMA StoreStart == Init => StoreInv /\ Store!Init
<1> SUFFICES ASSUME Init PROVE StoreInv /\ Store!Init
  OBVIOUS
<1>1. /\ pc = "off" /\ entries = <<>> /\ shown = <<>> /\ faults = 0 /\ ~compacting
      /\ dir = [s \in 0 .. 1 |-> ErasedDir]
  BY DEF Init
<1>2. ErasedDir.valid = FALSE /\ ErasedDir.count = 0 /\ ErasedDir.ents = <<>>
  BY DEF ErasedDir
<1>3. \A s \in 0 .. 1 : ~dir_header(s) /\ OnDisk(s) = <<>>
  BY <1>1, <1>2 DEF dir_header, OnDisk
<1>4. Len(<<>>) = 0 /\ Unique(<<>>)
  BY DEF Unique
<1>5. OnDisk(Newest({0, 1})) = <<>>
  BY <1>3 DEF Newest
<1>6. OnFlash = <<>>
  <2>1. OnFlash = View(data, <<>>)
    BY <1>5 DEF OnFlash, OnDisk
  <2>2. {<<>>[i].name : i \in 1 .. Len(<<>>)} = {}
    BY <1>4
  <2>3. \A d : View(d, <<>>) = <<>>
    BY <2>2 DEF View
  <2> QED
    BY <2>1, <2>3
<1>7. OffInv
  BY <1>1, <1>3, <1>4, <1>5, <1>6 DEF OffInv
<1>8. ~DirPhase /\ ~CompactPhase /\ ~JobPhase
  BY <1>1 DEF DirPhase, CompactPhase, JobPhase, WritePhase
<1>9. DiskInv
  BY <1>1, <1>7, <1>8 DEF DiskInv
<1>10. ListInv
  BY <1>1, <1>4, GeometryAssumption DEF ListInv
<1>11. ShowInv /\ GoalInv /\ WriteInv /\ PackInv
  BY <1>1, <1>8 DEF ShowInv, GoalInv, WriteInv, PackInv
<1> QED
  BY <1>1, <1>9, <1>10, <1>11 DEF StoreInv, Store!Init

LEMMA StoreStutter ==
  ASSUME StoreInv, UNCHANGED vars
  PROVE  StoreInv' /\ shown' = shown
<1>1. UNCHANGED <<data, dir, entries, dir_sector, generation, write_ptr, pc, job, at, done, compacting,
                  sector, g_buf, shown, goal, faults>>
  BY DEF vars, flash, ram, append, pack, seen
<1>2. ListInv'
  BY <1>1 DEF StoreInv, ListInv
<1>3. /\ DirPhase' = DirPhase /\ CompactPhase' = CompactPhase /\ WritePhase' = WritePhase
      /\ JobPhase' = JobPhase
  BY <1>1 DEF DirPhase, CompactPhase, WritePhase, JobPhase
<1>4. DiskInv'
  <2>1. OffInv => OffInv'
    BY <1>1 DEF OffInv, dir_header, Newest, OnDisk, OnFlash
  <2>2. Fresh => Fresh'
    BY <1>1 DEF Fresh, dir_header, Target
  <2>3. OnDisk(dir_sector)' = OnDisk(dir_sector) /\ CanCrash' = CanCrash
    BY <1>1 DEF OnDisk, CanCrash
  <2> QED
    BY <1>1, <1>3, <2>1, <2>2, <2>3 DEF StoreInv, DiskInv
<1>5. Effect => Effect'
  BY <1>1, SameEffect
<1>6. ShowInv'
  BY <1>1, <1>3, <1>5 DEF StoreInv, ShowInv
<1>7. \A n : /\ find(n)' = find(n) /\ OldLen(n)' = OldLen(n)
             /\ AtTail(n)' = AtTail(n) /\ NewBase(n)' = NewBase(n)
  BY <1>1, SameFind DEF AtTail, NewBase
<1>8. GoalInv'
  <2>1. PICK c : c = goal[job.name]
    OBVIOUS
  <2>2. Grows(c) => Grows(c)'
    BY <1>1, <1>7 DEF Grows
  <2> QED
    BY <1>1, <1>3, <1>5, <1>7, <2>1, <2>2 DEF StoreInv, GoalInv, HasRoom
<1>9. WriteInv'
  BY <1>1, <1>7 DEF StoreInv, WriteInv
<1>10. PackInv'
  <2>1. \A e : NewOffset(e)' = NewOffset(e)
    BY <1>1, SameRegions DEF NewOffset
  <2> QED
    BY <1>1, <1>3, <2>1 DEF StoreInv, PackInv, PackedCell
<1> QED
  BY <1>1, <1>2, <1>4, <1>6, <1>8, <1>9, <1>10 DEF StoreInv

LEMMA EffectNext ==
  ASSUME Effect, shown' = goal
  PROVE  Store!Next
<1>1. PICK n \in Names :
        \/ \E text \in Texts : goal = Store!With(n, Store!Contents(n) \o text \o <<EOL>>)
        \/ n \in DOMAIN shown /\ goal = Store!Without(n)
        \/ \E m \in Names :
             /\ n \in DOMAIN shown
             /\ \/ goal = Store!With(m, shown[n])
                \/ goal = [k \in (DOMAIN shown \ {n}) \cup {m} |-> IF k = m THEN shown[n] ELSE shown[k]]
  BY DEF Effect
<1>2. \/ \E text \in Texts : Store!fs_append_line(n, text)
      \/ Store!fs_remove(n)
      \/ \E m \in Names : Store!fs_copy(n, m) \/ Store!fs_rename(n, m)
  BY <1>1 DEF Store!fs_append_line, Store!fs_remove, Store!fs_copy, Store!fs_rename
<1> QED
  BY <1>2 DEF Store!Next

\* Every step of fs.c is a step of the file store, a stutter, or one that a
\* failing compaction is to answer for.
Answers == shown' = shown \/ Store!Next \/ CompactionBroken

LEMMA StartsStore ==
  ASSUME FInv, StoreInv, FaultsApart, NEW bad \in Unreadable, mount(bad) \/ format(bad)
  PROVE  StoreInv' /\ Answers
<1>1. bad = {}
  BY NoReads
<1>2. CASE mount(bad)
  <2>1. StoreInv' /\ pc = "off" /\ OffInv /\ shown' = OnFlash
    BY <1>1, <1>2, MountStore
  <2> QED
    BY <2>1 DEF OffInv, CompactionBroken, Answers
<1>3. CASE format(bad)
  <2>1. StoreInv' /\ OffInv /\ ~dir_header(0) /\ ~dir_header(1) /\ shown' = <<>>
    BY <1>1, <1>3, FormatStore
  <2> QED
    BY <2>1 DEF OffInv, Answers
<1> QED
  BY <1>2, <1>3

LEMMA StoreStep ==
  ASSUME FInv, StoreInv, NamesFit, FaultsApart, [Next]_vars
  PROVE  StoreInv' /\ Answers
<1>1. CASE UNCHANGED vars
  BY <1>1, StoreStutter DEF Answers
<1>2. ASSUME NEW bad \in Unreadable, mount(bad) \/ format(bad)
      PROVE  StoreInv' /\ Answers
  BY <1>2, StartsStore
<1>3. CASE Operations
  <2>1. PICK n \in Names :
          \/ fs_remove(n)
          \/ \E text \in Texts : fs_append_line(n, text)
          \/ \E m \in Names : fs_rename(n, m) \/ fs_copy(n, m)
    BY <1>3 DEF Operations
  <2>2. StoreInv'
    BY <2>1, RemoveStore, AppendLineStore, RenameStore, CopyStore
  <2>3. shown' = shown
    BY <2>1 DEF fs_remove, fs_append_line, fs_rename, fs_copy, Persist
  <2> QED
    BY <2>2, <2>3 DEF Answers
<1>4. CASE Compaction
  <2>1. StoreInv'
    BY <1>4, StageStore, EraseStore, WriteStore, EraseRestStore, DoneStore DEF Compaction
  <2>2. shown' = shown
    BY <1>4 DEF Compaction, CompactStage, CompactErase, CompactWrite, CompactEraseRest, CompactDone, seen
  <2> QED
    BY <2>1, <2>2 DEF Answers
<1>5. CASE Appending
  <2>1. CASE AppendNoSpace
    BY <2>1, NoSpaceStore DEF Answers
  <2>2. CASE AppendBegin \/ AppendCopy \/ AppendText
    <3>1. StoreInv'
      BY <2>2, BeginStore, CopyTurnStore, MoreStore, LastStore
    <3>2. shown' = shown
      BY <2>2 DEF AppendBegin, AppendCopy, AppendText, seen
    <3> QED
      BY <3>1, <3>2 DEF Answers
  <2> QED
    BY <1>5, <2>1, <2>2 DEF Appending
<1>6. CASE Persisting
  <2>1. CASE DirErase \/ DirEntries
    <3>1. StoreInv'
      BY <2>1, DirEraseStore, DirEntriesStore
    <3>2. shown' = shown
      BY <2>1 DEF DirErase, DirEntries, seen
    <3> QED
      BY <3>1, <3>2 DEF Answers
  <2>2. CASE DirHeader
    BY <2>2, DirHeaderStore, EffectNext DEF Answers
  <2> QED
    BY <1>6, <2>1, <2>2 DEF Persisting
<1>7. CASE Failures
  <2>1. ASSUME NEW k \in 0 .. Len(Writing), AppendFails(k)
        PROVE  StoreInv' /\ Answers
    BY <2>1, AppendFailsStore DEF Answers
  <2>2. ASSUME NEW k \in 0 .. Len(Writing), CompactFails(k)
        PROVE  StoreInv' /\ Answers
    BY <2>2, CompactFailsStore DEF Answers
  <2>3. ASSUME NEW ents, DirFails(ents)
        PROVE  StoreInv' /\ Answers
    BY <2>3, DirFailsStore, EffectNext DEF Answers
  <2> QED
    BY <1>7, <2>1, <2>2, <2>3 DEF Failures
<1>8. ASSUME NEW k \in 0 .. Len(Writing), NEW ents \in PartialEntries, PowerLoss(k, ents)
      PROVE  StoreInv' /\ Answers
  BY <1>8, PowerLossStore DEF Answers
<1> QED
  BY <1>1, <1>2, <1>3, <1>4, <1>5, <1>6, <1>7, <1>8 DEF Next

LEMMA Stored == NamesFit /\ FaultsApart => (Spec => []StoreInv)
<1> SUFFICES ASSUME NamesFit, FaultsApart PROVE Spec => []StoreInv
  OBVIOUS
<1>1. FInv /\ StoreInv /\ [Next]_vars => StoreInv'
  BY StoreStep
<1>2. Init => StoreInv
  BY StoreStart
<1> QED
  BY Sane, <1>1, <1>2, PTL DEF Spec

\* fs.c implements FileStore, through every append, copy, rename, remove and
\* compaction, every failing call and every power loss but those in a compaction.
THEOREM StoreImplemented == NamesFit /\ FaultsApart => (Spec => ImplementsStore)
<1> SUFFICES ASSUME NamesFit, FaultsApart PROVE Spec => ImplementsStore
  OBVIOUS
<1>1. Spec => []StoreInv
  BY Stored
<1>2. FInv /\ StoreInv /\ [Next]_vars => [Store!Next \/ CompactionBroken]_shown
  BY StoreStep DEF Answers
<1>3. Init => Store!Init
  BY StoreStart
<1> QED
  BY Sane, <1>1, <1>2, <1>3, PTL DEF Spec, ImplementsStore

\* When the power goes outside a compaction, what is on flash is what a caller
\* could read before: the files as the last operation left them.
THEOREM PowerLossSafeKept == NamesFit /\ FaultsApart => (Spec => []PowerLossSafeOutsideCompact)
<1> SUFFICES ASSUME NamesFit, FaultsApart PROVE Spec => []PowerLossSafeOutsideCompact
  OBVIOUS
<1>1. Spec => []StoreInv
  BY Stored
<1>2. StoreInv => PowerLossSafeOutsideCompact
  BY DEF StoreInv, DiskInv, OffInv, PowerLossSafeOutsideCompact, PowerLossSafe
<1> QED
  BY <1>1, <1>2, PTL

(***************************************************************************)
(* What compaction reclaims: the sort orders the files, so that no two     *)
(* regions begin at one cell, and the regions leave no gap between them.   *)
(***************************************************************************)
Sorted(s) == \A i, j \in 1 .. Len(s) : i < j => Before(s[i], s[j])

LEMMA Comparing ==
  ASSUME NEW e \in DirEntry, NEW f \in DirEntry, NEW g \in DirEntry
  PROVE  /\ Before(e, f) \/ Before(f, e)
         /\ Before(e, f) /\ Before(f, g) => Before(e, g)
  BY DEF Before, DirEntry

LEMMA InsertSorts ==
  ASSUME NEW s \in Seq(DirEntry), NEW e \in DirEntry, Sorted(s)
  PROVE  Sorted(Insert(s, e))
<1> DEFINE r == Insert(s, e)
<1>0. Len(s) \in Nat /\ \A i \in 1 .. Len(s) : s[i] \in DirEntry
  OBVIOUS
<1>1. Len(r) = Len(s) + 1 /\ Len(s) \in Nat /\ \A i \in 1 .. Len(s) : s[i] \in DirEntry
  BY <1>0, InsertedAt
<1>2. PICK k \in 0 .. Len(s) :
        /\ k = 0 \/ Before(s[k], e)
        /\ \A i \in 1 .. Len(s) : Before(s[i], e) => i <= k
        /\ \A i \in 1 .. k : r[i] = s[i]
        /\ r[k + 1] = e
        /\ \A i \in k + 1 .. Len(s) : r[i + 1] = s[i]
  BY InsertedAt
<1> HIDE DEF r
<1>3. ASSUME NEW i \in 1 .. k PROVE i \in 1 .. Len(s) /\ Before(s[i], e)
  <2>1. i \in 1 .. Len(s) /\ k \in 1 .. Len(s) /\ k # 0
    BY <1>1
  <2>2. Before(s[k], e)
    BY <1>2, <2>1
  <2>3. CASE i = k
    BY <2>1, <2>2, <2>3
  <2>4. CASE i # k
    <3>1. i < k
      BY <2>1, <2>4
    <3>2. Before(s[i], s[k])
      BY <2>1, <3>1 DEF Sorted
    <3> QED
      BY <1>1, <2>1, <2>2, <3>2, Comparing
  <2> QED
    BY <2>3, <2>4
<1>4. ASSUME NEW i \in k + 1 .. Len(s) PROVE i \in 1 .. Len(s) /\ Before(e, s[i])
  <2>1. i \in 1 .. Len(s) /\ ~(i <= k)
    BY <1>1
  <2>2. ~Before(s[i], e)
    BY <1>2, <2>1
  <2> QED
    BY <1>1, <2>1, <2>2, Comparing
<1>5. ASSUME NEW i \in 1 .. Len(r), NEW j \in 1 .. Len(r), i < j
      PROVE  Before(r[i], r[j])
  <2>1. \/ i \in 1 .. k /\ j \in 1 .. k
        \/ i \in 1 .. k /\ j = k + 1
        \/ i \in 1 .. k /\ j - 1 \in k + 1 .. Len(s)
        \/ i = k + 1 /\ j - 1 \in k + 1 .. Len(s)
        \/ i - 1 \in k + 1 .. Len(s) /\ j - 1 \in k + 1 .. Len(s)
    BY <1>1, <1>5
  <2>2. (i - 1) + 1 = i /\ (j - 1) + 1 = j /\ i < j
    BY <1>1, <1>5
  <2>3. CASE i \in 1 .. k /\ j \in 1 .. k
    <3>1. r[i] = s[i] /\ r[j] = s[j] /\ i \in 1 .. Len(s) /\ j \in 1 .. Len(s)
      BY <1>2, <1>3, <2>3
    <3> QED
      BY <2>2, <3>1 DEF Sorted
  <2>4. CASE i \in 1 .. k /\ j = k + 1
    BY <1>2, <1>3, <2>4
  <2>5. CASE i \in 1 .. k /\ j - 1 \in k + 1 .. Len(s)
    <3>1. r[i] = s[i] /\ r[j] = s[j - 1]
      BY <1>2, <2>2, <2>5
    <3>2. /\ s[i] \in DirEntry /\ s[j - 1] \in DirEntry
          /\ Before(s[i], e) /\ Before(e, s[j - 1])
      BY <1>1, <1>3, <1>4, <2>5
    <3> QED
      BY <3>1, <3>2, Comparing
  <2>6. CASE i = k + 1 /\ j - 1 \in k + 1 .. Len(s)
    BY <1>2, <1>4, <2>2, <2>6
  <2>7. CASE i - 1 \in k + 1 .. Len(s) /\ j - 1 \in k + 1 .. Len(s)
    <3>1. r[i] = s[i - 1] /\ r[j] = s[j - 1]
      BY <1>2, <2>2, <2>7
    <3>2. i - 1 \in 1 .. Len(s) /\ j - 1 \in 1 .. Len(s) /\ i - 1 < j - 1
      BY <1>4, <2>2, <2>7
    <3> QED
      BY <3>1, <3>2 DEF Sorted
  <2> QED
    BY <2>1, <2>3, <2>4, <2>5, <2>6, <2>7
<1> QED
  BY <1>5 DEF Sorted, r

LEMMA OrderSorts ==
  ASSUME NEW ents \in Seq(DirEntry)
  PROVE  Sorted(Order(ents)[Len(ents)])
<1> DEFINE N == Len(ents)
           f == Order(ents)
           P(k) == f[k] \in Seq(DirEntry) /\ Sorted(f[k])
           S == {k \in 0 .. N : ~P(k)}
<1>1. N \in Nat /\ \A k \in 1 .. N : ents[k] \in DirEntry
  OBVIOUS
<1>2. f[0] = <<>> /\ \A k \in 1 .. N : f[k] = Insert(f[k - 1], ents[k])
  BY OrderSteps
<1> HIDE DEF N, f
<1>3. P(0)
  BY <1>2 DEF Sorted
<1>4. ASSUME NEW k \in 1 .. N, P(k - 1) PROVE P(k)
  BY <1>1, <1>2, <1>4, InsertedAt, InsertSorts
<1>5. S = {}
  <2> HIDE DEF P
  <2> SUFFICES ASSUME S # {} PROVE FALSE
    OBVIOUS
  <2>1. S \in SUBSET Nat
    BY <1>1
  <2>2. PICK m \in S : \A x \in S : m <= x
    BY ONLY <2>1, S # {}, LeastExists
  <2>3. m \in 1 .. N /\ m - 1 \in 0 .. N /\ ~(m <= m - 1)
    BY <1>1, <1>3, <2>2
  <2>4. P(m - 1)
    BY <2>2, <2>3
  <2> QED
    BY <1>4, <2>2, <2>3, <2>4
<1>6. P(N)
  <2> HIDE DEF P
  <2> QED
    BY <1>1, <1>5
<1> QED
  BY <1>6 DEF N, f

\* The regions cover all cells below their end, and no two begin at one cell.
Tight(rs) ==
  /\ \A o \in 0 .. Packed(rs) - 1 : \E i \in 1 .. Len(rs) : rs[i].dst <= o /\ o < RegionEnd(rs[i])
  /\ \A i, j \in 1 .. Len(rs) : i < j => rs[i].src < rs[j].src

LEMMA Tightened ==
  ASSUME NEW es \in Seq(DirEntry), Sorted(es), NEW k \in 1 .. Len(es),
         NEW rs, Tiles(rs, es, k - 1), Tight(rs)
  PROVE  Tight(AddRegion(rs, es[k]))
<1> DEFINE e == es[k]
           new == [src |-> e.offset, len |-> e.length, dst |-> Packed(rs)]
           r == Append(rs, new)
<1>1. /\ rs \in Seq(Region) /\ Len(rs) \in Nat /\ e \in DirEntry
      /\ \A i \in 1 .. Len(rs) : rs[i] \in Region
  <2>1. rs \in Seq(Region) /\ e \in DirEntry
    BY DEF Tiles
  <2> QED
    BY ONLY <2>1
<1>2. e.offset \in Nat /\ e.length \in Nat
  BY <1>1 DEF DirEntry
<1>3. /\ Packed(rs) \in Nat /\ \A i \in 1 .. Len(rs) : RegionEnd(rs[i]) <= Packed(rs)
      /\ rs # <<>> => /\ Len(rs) \in 1 .. Len(rs) /\ Last(rs) = rs[Len(rs)]
  BY TileEnds
<1>4. CASE rs # <<>> /\ InRegion(e, Last(rs))
  BY <1>4 DEF AddRegion
<1>5. CASE ~(rs # <<>> /\ InRegion(e, Last(rs)))
  <2>1. AddRegion(rs, e) = r
    BY <1>5 DEF AddRegion
  <2>2. new \in Region /\ new.src = e.offset /\ new.len = e.length /\ new.dst = Packed(rs)
    BY <1>2, <1>3 DEF Region
  <2> HIDE DEF new
  <2>3. /\ r \in Seq(Region) /\ Len(r) = Len(rs) + 1 /\ r[Len(rs) + 1] = new
        /\ \A i \in 1 .. Len(rs) : r[i] = rs[i]
    BY <1>1, <2>2
  <2> HIDE DEF r
  <2>4. r # <<>> /\ Last(r) = new
    BY ONLY <1>1, <2>3 DEF Last
  <2>5. Packed(r) = Packed(rs) + e.length /\ RegionEnd(new) = Packed(rs) + e.length
    BY <2>2, <2>4 DEF Packed, RegionEnd
  <2>6. ASSUME NEW i \in 1 .. Len(rs)
        PROVE  /\ rs[i].src \in Nat /\ rs[i].src <= e.offset
               /\ rs[i].src = e.offset => e.length <= rs[i].len
    <3>1. PICK j \in 1 .. k - 1 : rs[i].src = es[j].offset /\ rs[i].len = es[j].length
      BY DEF Tiles
    <3>2. j \in 1 .. Len(es) /\ j < k
      OBVIOUS
    <3>3. Before(es[j], e) /\ es[j] \in DirEntry
      BY <3>2 DEF Sorted
    <3>4. es[j].offset \in Nat /\ es[j].length \in Nat
      BY <3>3 DEF DirEntry
    <3>5. /\ es[j].offset <= e.offset
          /\ es[j].offset = e.offset => e.length <= es[j].length
      BY ONLY <1>2, <3>3, <3>4 DEF Before
    <3> QED
      BY ONLY <3>1, <3>4, <3>5
  <2>7. ASSUME NEW i \in 1 .. Len(rs)
        PROVE  rs[i].src < e.offset
    <3> DEFINE n == Len(rs)
    <3>1. rs # <<>> /\ n \in 1 .. n /\ Last(rs) = rs[n] /\ n \in Nat
      BY <1>1, <1>3
    <3>2. rs[i].src <= rs[n].src
      <4>1. i = n \/ i < n
        BY <3>1
      <4> QED
        BY <2>6, <3>1, <4>1 DEF Tight
    <3>3. ~InRegion(e, rs[n])
      BY <1>5, <3>1
    <3>4. /\ rs[n].src \in Nat /\ rs[n].len \in Nat /\ rs[n].src <= e.offset
          /\ rs[n].src = e.offset => e.length <= rs[n].len
      BY <1>1, <2>6, <3>1 DEF Region
    <3>5. rs[i].src \in Nat /\ rs[i].src <= e.offset
      BY <2>6
    <3> HIDE DEF n
    <3>6. rs[n].src # e.offset
      <4>1. rs[n].src = e.offset => e.offset + e.length <= rs[n].src + rs[n].len /\ rs[n].src <= e.offset
        BY ONLY <1>2, <3>4
      <4> QED
        BY ONLY <3>3, <4>1 DEF InRegion
    <3> QED
      BY ONLY <1>2, <3>2, <3>4, <3>5, <3>6
  <2>8. \A i \in 1 .. Len(r) : i = Len(rs) + 1 \/ i \in 1 .. Len(rs)
    BY <1>1, <2>3
  <2>9. Len(rs) + 1 \in 1 .. Len(r) /\ \A i \in 1 .. Len(rs) : i \in 1 .. Len(r)
    BY <1>1, <2>3
  <2>10. ASSUME NEW o \in 0 .. Packed(r) - 1
         PROVE  \E i \in 1 .. Len(r) : r[i].dst <= o /\ o < RegionEnd(r[i])
    <3>1. CASE o < Packed(rs)
      <4>1. PICK i \in 1 .. Len(rs) : rs[i].dst <= o /\ o < RegionEnd(rs[i])
        BY <1>3, <3>1 DEF Tight
      <4> QED
        BY <2>3, <2>9, <4>1
    <3>2. CASE ~(o < Packed(rs))
      <4>1. Packed(rs) <= o /\ o < Packed(rs) + e.length
        BY <1>2, <1>3, <2>5, <3>2
      <4> QED
        BY <2>2, <2>3, <2>5, <2>9, <4>1
    <3> QED
      BY <3>1, <3>2
  <2>11. ASSUME NEW i \in 1 .. Len(r), NEW j \in 1 .. Len(r), i < j
         PROVE  r[i].src < r[j].src
    <3>1. i \in 1 .. Len(rs)
      BY <1>1, <2>3, <2>11
    <3>2. CASE j = Len(rs) + 1
      BY <2>2, <2>3, <2>7, <3>1, <3>2
    <3>3. CASE j \in 1 .. Len(rs)
      BY <2>3, <2>11, <3>1, <3>3 DEF Tight
    <3> QED
      BY <2>8, <3>2, <3>3
  <2> QED
    BY <2>1, <2>10, <2>11 DEF Tight
<1> QED
  BY <1>4, <1>5

LEMMA RegionsTight ==
  ASSUME NEW es \in Seq(DirEntry), Sorted(es)
  PROVE  Tight(RegionsOf(es)[Len(es)])
<1> DEFINE N == Len(es)
           f == RegionsOf(es)
           P(k) == Tiles(f[k], es, k) /\ Tight(f[k])
           S == {k \in 0 .. N : ~P(k)}
<1>1. N \in Nat /\ f[0] = <<>> /\ \A k \in 1 .. N : f[k] = AddRegion(f[k - 1], es[k])
  BY RegionSteps
<1>2. \A rs : \A k \in 1 .. N : Tiles(rs, es, k - 1) /\ Tight(rs) =>
        Tiles(AddRegion(rs, es[k]), es, k) /\ Tight(AddRegion(rs, es[k]))
  BY Tiled, Tightened
<1> HIDE DEF N, f
<1>3. P(0)
  BY <1>1 DEF Tiles, Tight, Packed
<1>4. S = {}
  <2> SUFFICES ASSUME S # {} PROVE FALSE
    OBVIOUS
  <2>1. S \in SUBSET Nat
    BY <1>1
  <2>2. PICK m \in S : \A x \in S : m <= x
    BY ONLY <2>1, S # {}, LeastExists
  <2>3. m \in 1 .. N /\ m - 1 \in 0 .. N /\ ~(m <= m - 1)
    BY <1>1, <1>3, <2>2
  <2>4. P(m - 1)
    BY <2>2, <2>3
  <2> QED
    BY <1>1, <1>2, <2>2, <2>3, <2>4
<1>5. P(N)
  BY <1>1, <1>4
<1> QED
  BY <1>5 DEF N, f

LEMMA RepackedTight ==
  ASSUME entries \in Seq(DirEntry)
  PROVE  Tight(Regions)
<1> DEFINE n  == Len(entries)
           es == Order(entries)[n]
<1>1. es \in Seq(DirEntry) /\ Len(es) = n /\ Sorted(es)
  BY Ordered, OrderSorts
<1> HIDE DEF es
<1>2. Tight(RegionsOf(es)[n])
  BY <1>1, RegionsTight
<1> QED
  BY <1>2 DEF Regions, es

\* Packing leaves no cell below Total that is not a file's.
LEMMA NoGaps ==
  ASSUME entries \in Seq(DirEntry), Nest(entries), NEW o \in 0 .. Total - 1
  PROVE  \E k \in 1 .. Len(entries) :
           NewOffset(entries[k]) <= o /\ o < NewOffset(entries[k]) + entries[k].length
<1>1. PICK i \in 1 .. Len(Regions) : Regions[i].dst <= o /\ o < RegionEnd(Regions[i])
  BY RepackedTight DEF Tight, Total
<1>2. PICK k \in 1 .. Len(entries) :
        Regions[i].src = entries[k].offset /\ Regions[i].len = entries[k].length
  BY Repacked
<1>3. PICK m \in 1 .. Len(Regions) :
        /\ Regions[m] \in Region
        /\ NewOffset(entries[k]) = Regions[m].dst + (entries[k].offset - Regions[m].src)
        /\ Regions[m].dst <= NewOffset(entries[k])
        /\ NewOffset(entries[k]) + entries[k].length <= RegionEnd(Regions[m])
  BY Moving
<1>4. PICK l \in 1 .. Len(entries) :
        Regions[m].src = entries[l].offset /\ Regions[m].len = entries[l].length
  BY Repacked
<1>5. entries[k] \in DirEntry /\ entries[l] \in DirEntry /\ Regions[i] \in Region
  <2>1. \A j \in 1 .. Len(entries) : entries[j] \in DirEntry
    OBVIOUS
  <2>2. Regions[i] \in Region
    BY <1>1, Repacked
  <2> QED
    BY <2>1, <2>2
<1>6. Total \in Nat /\ o \in Nat
  <2>1. Total \in Nat
    BY Repacked
  <2> QED
    BY <2>1
<1>7. entries[k].offset = entries[l].offset \/ Extent(entries[k]) \cap Extent(entries[l]) = {}
  BY DEF Nest
<1> DEFINE a == entries[k].offset
           n == entries[k].length
           b == entries[l].offset
           p == entries[l].length
           dst == Regions[m].dst
           d == Regions[i].dst
<1>8. /\ a \in Nat /\ n \in Nat /\ b \in Nat /\ p \in Nat /\ dst \in Nat /\ d \in Nat
  BY <1>3, <1>5 DEF DirEntry, Region
<1>9. /\ NewOffset(entries[k]) = dst + (a - b) /\ dst <= dst + (a - b)
      /\ dst + (a - b) + n <= dst + p /\ d <= o /\ o < d + n
  BY <1>1, <1>2, <1>3, <1>4 DEF RegionEnd
<1>10. a = b \/ (a .. a + n - 1) \cap (b .. b + p - 1) = {}
  BY <1>7 DEF Extent
<1>11. Regions[i].src = a /\ Regions[m].src = b
  BY <1>2, <1>4
<1> HIDE DEF a, n, b, p, dst, d
<1>12. a = b
  <2>1. a \in a .. a + n - 1 /\ a \in b .. b + p - 1
    BY ONLY <1>6, <1>8, <1>9
  <2> QED
    BY <1>10, <2>1
<1>13. m = i
  <2>1. Len(Regions) \in Nat
    <3>1. Regions \in Seq(Region)
      BY Repacked
    <3> QED
      BY <3>1
  <2>2. ~(m < i) /\ ~(i < m)
    BY <1>8, <1>11, <1>12, RepackedTight DEF Tight
  <2> QED
    BY <2>1, <2>2
<1>14. NewOffset(entries[k]) = d
  BY <1>8, <1>9, <1>12, <1>13 DEF dst, d
<1> QED
  BY <1>9, <1>14 DEF n

(***************************************************************************)
(* FullInv: where an append may have to give up, no cell below the tail is *)
(* garbage. It gets there only from a compaction, since what was decided   *)
(* before one still holds otherwise.                                       *)
(***************************************************************************)
Covered ==
  \A o \in 0 .. write_ptr - 1 : \E i \in 1 .. Len(entries) :
    entries[i].offset <= o /\ o < entries[i].offset + entries[i].length

FullInv ==
  /\ pc = "append" => Fits(job.name, job.todo) \/ Covered
  /\ DirPhase /\ compacting => Covered

LEMMA DoneCovers ==
  ASSUME FInv, CompactDone
  PROVE  Covered'
<1>1. entries' = Moved /\ write_ptr' = Total
  BY DEF CompactDone, PackedTail, Moved
<1>2. /\ Len(Moved) = Len(entries)
      /\ \A k \in 1 .. Len(entries) :
           Moved[k].length = entries[k].length /\ Moved[k].offset = NewOffset(entries[k])
  BY MovedApart DEF FInv, Volume
<1>3. ASSUME NEW o \in 0 .. Total - 1
      PROVE  \E k \in 1 .. Len(Moved) : Moved[k].offset <= o /\ o < Moved[k].offset + Moved[k].length
  <2>1. PICK k \in 1 .. Len(entries) :
          NewOffset(entries[k]) <= o /\ o < NewOffset(entries[k]) + entries[k].length
    BY NoGaps DEF FInv, Volume
  <2> QED
    BY <1>2, <2>1
<1> HIDE DEF Moved
<1> QED
  BY <1>1, <1>3 DEF Covered

LEMMA FullElsewhere ==
  ASSUME pc' \notin {"append", "dir_erase", "dir_entries", "dir_header"}
  PROVE  FullInv'
  BY DEF FullInv, DirPhase

LEMMA FullStep == FInv /\ FullInv /\ [Next]_vars => FullInv'
<1> SUFFICES ASSUME FInv, FullInv, [Next]_vars PROVE FullInv'
  OBVIOUS
<1>1. CASE UNCHANGED vars
  <2>1. UNCHANGED <<entries, write_ptr, pc, job, compacting>>
    BY <1>1 DEF vars, ram, append, pack
  <2> QED
    BY <2>1 DEF FullInv, Covered, DirPhase, Fits, Need, AtTail, OldLen, find, Indices
<1>2. ASSUME NEW bad \in Unreadable, mount(bad) \/ format(bad) PROVE FullInv'
  BY <1>2, FullElsewhere DEF mount, format, Return
<1>3. CASE Operations
  <2>1. ASSUME NEW n \in Names, NEW text \in Texts, fs_append_line(n, text) PROVE FullInv'
    <3> DEFINE line == text \o <<EOL>>
    <3>1. /\ job' = [name |-> n, todo |-> line] /\ pc' = (IF Fits(n, line) THEN "append" ELSE "compact")
          /\ UNCHANGED <<entries, write_ptr>>
      BY <2>1 DEF fs_append_line, ram
    <3> HIDE DEF line
    <3>2. CASE Fits(n, line)
      <4>1. pc' = "append" /\ job'.name = n /\ job'.todo = line
        BY <3>1, <3>2
      <4>2. Fits(job.name, job.todo)'
        BY <3>1, <3>2, <4>1 DEF Fits, Need, AtTail, OldLen, find, Indices
      <4> QED
        BY <4>1, <4>2 DEF FullInv, DirPhase
    <3>3. CASE ~Fits(n, line)
      BY <3>1, <3>3, FullElsewhere
    <3> QED
      BY <3>2, <3>3
  <2>2. ASSUME AtRest, Persist PROVE FullInv'
    <3>1. ~compacting /\ compacting' = compacting /\ pc' = "dir_erase"
      BY <2>2 DEF AtRest, Persist, pack, FInv, Control, JobInv
    <3> QED
      BY <3>1 DEF FullInv
  <2> QED
    BY <1>3, <2>1, <2>2 DEF Operations, fs_remove, fs_rename, fs_copy
<1>4. CASE Compaction
  <2>1. CASE CompactDone
    BY <2>1, DoneCovers DEF FullInv, CompactDone
  <2>2. CASE CompactStage \/ CompactErase \/ CompactWrite \/ CompactEraseRest
    BY <2>2, FullElsewhere DEF CompactStage, CompactErase, CompactWrite, CompactEraseRest
  <2> QED
    BY <1>4, <2>1, <2>2 DEF Compaction
<1>5. CASE Appending
  <2>1. CASE AppendNoSpace
    BY <2>1, FullElsewhere DEF AppendNoSpace, Return
  <2>2. CASE AppendBegin
    BY <2>2, FullElsewhere DEF AppendBegin
  <2>3. CASE AppendCopy
    BY <2>3, FullElsewhere DEF AppendCopy
  <2>4. CASE AppendText
    <3>1. ~compacting /\ compacting' = compacting /\ (pc' = pc \/ pc' = "dir_erase") /\ pc = "text"
      BY <2>4 DEF AppendText, pack, FInv, Control, JobInv, WritePhase
    <3> QED
      BY <3>1 DEF FullInv, DirPhase
  <2> QED
    BY <1>5, <2>1, <2>2, <2>3, <2>4 DEF Appending
<1>6. CASE Persisting
  <2>1. CASE DirErase \/ DirEntries
    <3>1. DirPhase /\ pc' \in {"dir_entries", "dir_header"} /\ UNCHANGED <<entries, write_ptr, compacting>>
      BY <2>1 DEF DirErase, DirEntries, DirPhase, ram, pack
    <3> QED
      BY <3>1 DEF FullInv, Covered
  <2>2. CASE DirHeader /\ compacting
    <3>1. DirPhase /\ pc' = "append" /\ UNCHANGED <<entries, write_ptr>>
      BY <2>2 DEF DirHeader, DirPhase
    <3> QED
      BY <2>2, <3>1 DEF FullInv, Covered, DirPhase
  <2>3. CASE DirHeader /\ ~compacting
    BY <2>3, FullElsewhere DEF DirHeader, Return
  <2> QED
    BY <1>6, <2>1, <2>2, <2>3 DEF Persisting
<1>7. CASE Failures
  BY <1>7, FullElsewhere DEF Failures, AppendFails, CompactFails, DirFails, Return
<1>8. ASSUME NEW k \in 0 .. Len(Writing), NEW ents \in PartialEntries, PowerLoss(k, ents) PROVE FullInv'
  BY <1>8, FullElsewhere DEF PowerLoss
<1> QED
  BY <1>1, <1>2, <1>3, <1>4, <1>5, <1>6, <1>7, <1>8 DEF Next

\* A log without garbage is as full as its files are large.
LEMMA CoveredSize ==
  ASSUME FInv, Covered
  PROVE  LET live == UNION {Extent(entries[i]) : i \in DOMAIN entries} IN
         IsFiniteSet(live) /\ Cardinality(live) \in Nat /\ write_ptr <= Cardinality(live)
<1> DEFINE live == UNION {Extent(entries[i]) : i \in DOMAIN entries}
<1>1. /\ DOMAIN entries = 1 .. Len(entries) /\ write_ptr \in Nat /\ Placed(entries, write_ptr)
      /\ \A i \in 1 .. Len(entries) : entries[i] \in DirEntry
  BY Sizes DEF FInv, Volume
<1>2. live \in SUBSET (0 .. write_ptr - 1)
  <2> SUFFICES ASSUME NEW i \in 1 .. Len(entries), NEW o \in Extent(entries[i])
               PROVE  o \in 0 .. write_ptr - 1
    BY <1>1
  <2>1. entries[i].offset \in Nat /\ entries[i].length \in Nat
    BY <1>1 DEF DirEntry
  <2>2. entries[i].offset + entries[i].length <= write_ptr
    BY <1>1 DEF Placed
  <2> QED
    BY <1>1, <2>1, <2>2 DEF Extent
<1>3. 0 .. write_ptr - 1 \in SUBSET live
  <2> SUFFICES ASSUME NEW o \in 0 .. write_ptr - 1
               PROVE  \E i \in 1 .. Len(entries) : o \in Extent(entries[i])
    BY <1>1
  <2>1. PICK i \in 1 .. Len(entries) : entries[i].offset <= o /\ o < entries[i].offset + entries[i].length
    BY DEF Covered
  <2>2. entries[i].offset \in Nat /\ entries[i].length \in Nat
    BY <1>1 DEF DirEntry
  <2> QED
    BY <2>1, <2>2 DEF Extent
<1> HIDE DEF live
<1>4. IsFiniteSet(0 .. write_ptr - 1) /\ Cardinality(0 .. write_ptr - 1) = write_ptr
  <2>1. 0 \in Int /\ write_ptr - 1 \in Int
    BY <1>1
  <2>2. IsFiniteSet(0 .. write_ptr - 1)
    BY ONLY <2>1, FS_Interval, Zenon
  <2>3. Cardinality(0 .. write_ptr - 1) =
          IF 0 > write_ptr - 1 THEN 0 ELSE (write_ptr - 1) - 0 + 1
    BY ONLY <2>1, FS_Interval, Zenon
  <2> QED
    BY <1>1, <2>2, <2>3
<1>5. live = 0 .. write_ptr - 1
  BY <1>2, <1>3
<1>6. IsFiniteSet(live) /\ Cardinality(live) = write_ptr
  BY ONLY <1>4, <1>5
<1>7. Cardinality(live) \in Nat /\ write_ptr <= Cardinality(live)
  BY ONLY <1>1, <1>6
<1> QED
  BY <1>6, <1>7 DEF live

\* "No space" is said only when the live data leave no room, whatever failed
\* before and however often the power went: compaction gets every byte back.
THEOREM FullMeansFull == Spec => NoSpaceMeansFull
<1> DEFINE live == UNION {Extent(entries[i]) : i \in DOMAIN entries}
<1>1. ASSUME FInv, FullInv, AppendNoSpace
      PROVE  Cardinality(live) + Need(job.name, job.todo) > DATA
  <2>1. pc = "append" /\ ~Fits(job.name, job.todo)
    BY <1>1 DEF AppendNoSpace
  <2>2. Covered
    BY <1>1, <2>1 DEF FullInv
  <2>3. Cardinality(live) \in Nat /\ write_ptr <= Cardinality(live)
    BY <1>1, <2>2, CoveredSize
  <2>4. Need(job.name, job.todo) \in Nat /\ write_ptr \in Nat /\ DATA \in Nat
    <3>1. job.name \in Names /\ Line(job.todo)
      BY <1>1, <2>1 DEF FInv, Control, JobInv
    <3>2. Len(job.todo) \in Nat /\ OldLen(job.name) \in Nat
      BY <1>1, <3>1, OldLenFacts DEF Line, FInv
    <3> QED
      BY <1>1, <3>2, Sizes DEF Need, FInv, Volume
  <2>5. ~(write_ptr + Need(job.name, job.todo) <= DATA)
    BY <2>1 DEF Fits
  <2> HIDE DEF live
  <2> QED
    BY ONLY <2>3, <2>4, <2>5
<1>2. FInv /\ FullInv /\ [Next]_vars =>
        [AppendNoSpace => Cardinality(live) + Need(job.name, job.todo) > DATA]_vars
  BY <1>1
<1>3. Init => FullInv
  BY DEF Init, FullInv, DirPhase
<1> QED
  BY Sane, FullStep, <1>2, <1>3, PTL DEF Spec, NoSpaceMeansFull
=============================================================================
