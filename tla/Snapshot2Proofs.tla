----------------------------- MODULE Snapshot2Proofs -----------------------------
(***************************************************************************)
(* For every memory, every data source, every program and any history of   *)
(* stores, load syscalls, suspensions and resumptions: what a snapshot     *)
(* refers to or leaves out is what the machine has there, resume takes     *)
(* what make_snapshot made, and the resumed machine is the saved one.  The *)
(* last needs a program whose segments have pages of their own.            *)
(***************************************************************************)
EXTENDS Snapshot2, SequenceTheorems, WellFoundedInduction, TLAPS

(***************************************************************************)
(* Cells and pages                                                         *)
(***************************************************************************)
LEMMA DivIs ==
  ASSUME NEW d \in Nat \ {0}, NEW x \in Nat, NEW k \in Int
  PROVE  k * d <= x <=> k <= x \div d
<1> DEFINE q == x \div d
<1>1. q \in Nat /\ q * d <= x /\ x < (q + 1) * d
  OBVIOUS
<1> HIDE DEF q
<1>2. ASSUME k <= q PROVE k * d <= x
  <2>1. k * d <= q * d
    BY <1>1, <1>2
  <2>2. QED
    BY <1>1, <2>1
<1>3. ASSUME k > q PROVE k * d > x
  <2>1. k * d >= (q + 1) * d
    BY <1>1, <1>3
  <2>2. QED
    BY <1>1, <2>1
<1>4. QED
  BY <1>1, <1>2, <1>3 DEF q

LEMMA PageOfIs ==
  ASSUME NEW c \in Nat, NEW p \in Int
  PROVE  /\ PageOf(c) \in Nat
         /\ p <= PageOf(c) <=> p * PageCells <= c
         /\ PageOf(c) <= p <=> c < (p + 1) * PageCells
<1>1. PageCells \in Nat \ {0}
  BY PageMemoryAssumption
<1>2. PageOf(c) \in Nat
  BY <1>1 DEF PageOf
<1>3. p <= PageOf(c) <=> p * PageCells <= c
  BY <1>1, DivIs DEF PageOf
<1>4. p + 1 <= PageOf(c) <=> (p + 1) * PageCells <= c
  BY <1>1, DivIs DEF PageOf
<1>5. (p + 1) * PageCells \in Int
  BY <1>1
<1>6. QED
  BY <1>2, <1>3, <1>4, <1>5

LEMMA SizeIs ==
  /\ PageCells \in Nat \ {0} /\ NPages \in Nat \ {0} /\ Size \in Nat
  /\ \A c \in Addr : c \in Nat /\ PageOf(c) \in Page
  /\ \A p \in Page : p \in Nat /\ p * PageCells \in Addr /\ (p + 1) * PageCells <= Size
<1>1. PageCells \in Nat \ {0} /\ NPages \in Nat \ {0} /\ Size \in Nat
  BY PageMemoryAssumption DEF Size
<1>2. ASSUME NEW c \in Addr PROVE c \in Nat /\ PageOf(c) \in Page
  <2>1. c \in Nat /\ c < NPages * PageCells
    BY <1>1 DEF Addr, Size
  <2>2. PageOf(c) \in Nat /\ PageOf(c) <= NPages - 1
    BY <1>1, <2>1, PageOfIs
  <2>3. QED
    BY <1>1, <2>1, <2>2 DEF Page
<1>3. ASSUME NEW p \in Page
      PROVE  p \in Nat /\ p * PageCells \in Addr /\ (p + 1) * PageCells <= Size
  <2>1. p \in Nat /\ p + 1 <= NPages
    BY <1>1 DEF Page
  <2>2. (p + 1) * PageCells <= NPages * PageCells
    BY <1>1, <2>1
  <2>3. p * PageCells \in Nat /\ p * PageCells < (p + 1) * PageCells
    BY <1>1, <2>1
  <2>4. QED
    BY <1>1, <2>1, <2>2, <2>3 DEF Addr, Size
<1>4. QED
  BY <1>1, <1>2, <1>3

LEMMA PageIndicesAre ==
  ASSUME NEW a \in Nat, NEW n \in Nat \ {0}, NEW p \in Int
  PROVE  p \in PageIndices(a, n) <=> a < (p + 1) * PageCells /\ p * PageCells < a + n
<1>1. PageCells \in Nat \ {0}
  BY SizeIs
<1>2. PageOf(a) \in Nat /\ (PageOf(a) <= p <=> a < (p + 1) * PageCells)
  BY PageOfIs
<1>3. PageOf(a + n - 1) \in Nat /\ (p <= PageOf(a + n - 1) <=> p * PageCells <= a + n - 1)
  <2>1. a + n - 1 \in Nat
    OBVIOUS
  <2>2. QED
    BY <2>1, PageOfIs
<1>4. p * PageCells \in Int
  BY <1>1
<1>5. QED
  BY <1>2, <1>3, <1>4 DEF PageIndices

LEMMA PagesInMemory ==
  ASSUME NEW a \in Nat, NEW n \in Nat, n # 0 => a + n <= Size
  PROVE  /\ PageIndices(a, n) \subseteq Page
         /\ \A c \in Addr : c \in a .. a + n - 1 => PageOf(c) \in PageIndices(a, n)
<1>1. CASE n = 0
  BY <1>1, SizeIs DEF PageIndices
<1>2. CASE n # 0
  <2>1. ASSUME NEW c \in Nat, c \in a .. a + n - 1 PROVE PageOf(c) \in PageIndices(a, n)
    <3> DEFINE p == PageOf(c)
    <3>1. p \in Nat /\ p * PageCells <= c /\ c < (p + 1) * PageCells
      BY PageOfIs
    <3> HIDE DEF p
    <3>2. p * PageCells \in Int /\ (p + 1) * PageCells \in Int
      BY <3>1, SizeIs
    <3>3. a < (p + 1) * PageCells /\ p * PageCells < a + n
      BY <2>1, <3>1, <3>2
    <3>4. QED
      BY <1>2, <3>1, <3>3, PageIndicesAre DEF p
  <2>2. ASSUME NEW p \in PageIndices(a, n) PROVE p \in Page
    <3>1. a \in Addr /\ a + n - 1 \in Addr
      BY <1>2, SizeIs DEF Addr
    <3>2. PageOf(a) \in Page /\ PageOf(a + n - 1) \in Page
      BY <3>1, SizeIs
    <3>3. QED
      BY <1>2, <2>2, <3>2, SizeIs DEF PageIndices, Page
  <2>3. QED
    BY <2>1, <2>2, SizeIs
<1>3. QED
  BY <1>1, <1>2

(* Whole pages.                                                            *)
Aligned(a, n) ==
  a \in Nat /\ n \in Nat \ {0} /\ a % PageCells = 0 /\ n % PageCells = 0 /\ a + n <= Size

LEMMA AlignedIs ==
  ASSUME NEW a, NEW n, Aligned(a, n)
  PROVE  \E k \in Nat, m \in Nat \ {0} : /\ a = k * PageCells /\ n = m * PageCells
                                        /\ a + n = (k + m) * PageCells
<1> DEFINE k == a \div PageCells
           m == n \div PageCells
<1>1. PageCells \in Nat \ {0} /\ a \in Nat /\ n \in Nat \ {0}
  BY SizeIs DEF Aligned
<1>2. k \in Nat /\ a = k * PageCells /\ m \in Nat /\ n = m * PageCells
  BY <1>1 DEF Aligned
<1> HIDE DEF k, m
<1>3. m # 0
  BY <1>1, <1>2
<1>4. k * PageCells + m * PageCells = (k + m) * PageCells
  BY <1>1, <1>2
<1>5. QED
  BY <1>2, <1>3, <1>4

LEMMA AlignedPages ==
  ASSUME NEW a, NEW n, Aligned(a, n)
  PROVE  /\ PageIndices(a, n) \subseteq Page /\ PageIndices(a, n) # {}
         /\ Covered(a, n) = PageIndices(a, n)
         /\ \A c \in Addr : c \in a .. a + n - 1 <=> PageOf(c) \in PageIndices(a, n)
         /\ \A p \in PageIndices(a, n) : a <= p * PageCells /\ (p + 1) * PageCells <= a + n
<1>1. PICK k \in Nat, m \in Nat \ {0} :
        a = k * PageCells /\ n = m * PageCells /\ a + n = (k + m) * PageCells
  BY AlignedIs
<1>2. PageCells \in Nat \ {0} /\ a \in Nat /\ n \in Nat \ {0} /\ a + n <= Size
  BY SizeIs DEF Aligned
<1>3. ASSUME NEW p \in Int
      PROVE  /\ p \in PageIndices(a, n) <=> k <= p /\ p < k + m
             /\ k <= p <=> a <= p * PageCells
             /\ p < k + m <=> (p + 1) * PageCells <= a + n
  <2>1. k <= p => k * PageCells <= p * PageCells
    BY <1>2
  <2>2. p < k => (p + 1) * PageCells <= k * PageCells
    BY <1>2
  <2>3. p < k + m => (p + 1) * PageCells <= (k + m) * PageCells
    BY <1>2
  <2>4. k + m <= p => (k + m) * PageCells <= p * PageCells
    BY <1>2
  <2>5. p * PageCells \in Int /\ (p + 1) * PageCells = p * PageCells + PageCells
    BY <1>2
  <2>6. QED
    BY <1>1, <1>2, <2>1, <2>2, <2>3, <2>4, <2>5, PageIndicesAre
<1>4. PageIndices(a, n) \subseteq Page
  BY <1>2, PagesInMemory
<1>5. k \in PageIndices(a, n)
  BY <1>1, <1>3
<1>6. Covered(a, n) = PageIndices(a, n)
  <2>1. ASSUME NEW p \in Page PROVE p \in Covered(a, n) <=> p \in PageIndices(a, n)
    <3>1. p \in Int
      BY SizeIs
    <3>2. QED
      BY <3>1, <1>3 DEF Covered
  <2>2. Covered(a, n) \subseteq Page
    BY DEF Covered
  <2>3. QED
    BY <1>4, <2>1, <2>2
<1>7. ASSUME NEW c \in Addr PROVE c \in a .. a + n - 1 <=> PageOf(c) \in PageIndices(a, n)
  <2>1. c \in Nat /\ PageOf(c) \in Nat
    BY SizeIs, PageOfIs
  <2>2. k <= PageOf(c) <=> k * PageCells <= c
    BY <2>1, PageOfIs
  <2>3. k + m <= PageOf(c) <=> (k + m) * PageCells <= c
    BY <2>1, PageOfIs
  <2>4. QED
    BY <1>1, <1>2, <1>3, <2>1, <2>2, <2>3
<1>8. QED
  BY <1>3, <1>4, <1>5, <1>6, <1>7, SizeIs

(***************************************************************************)
(* Data                                                                    *)
(***************************************************************************)
LEMMA DataIs ==
  ASSUME NEW s, IsData(s)
  PROVE  Len(s) \in Nat /\ DOMAIN s = 1 .. Len(s)
BY LenProperties DEF IsData

LEMMA PieceIs ==
  ASSUME NEW s, IsData(s), NEW m \in Nat, NEW n \in Nat, m <= n, n <= Len(s)
  PROVE  /\ Len(SubSeq(s, m + 1, n)) = n - m
         /\ DOMAIN SubSeq(s, m + 1, n) = 1 .. n - m
         /\ \A k \in 1 .. n - m : SubSeq(s, m + 1, n)[k] = s[m + k]
<1> DEFINE V == {s[k] : k \in DOMAIN s}
           t == SubSeq(s, m + 1, n)
<1>1. DOMAIN s = 1 .. Len(s) /\ Len(s) \in Nat
  BY DataIs
<1>2. \A i \in m + 1 .. n : s[i] \in V
  BY <1>1
<1>3. /\ t \in Seq(V) /\ Len(t) = IF m + 1 <= n THEN n - (m + 1) + 1 ELSE 0
      /\ \A i \in 1 .. n - (m + 1) + 1 : t[i] = s[m + 1 + i - 1]
  <2> HIDE DEF V
  <2>1. m + 1 \in Int /\ n \in Int
    OBVIOUS
  <2>2. QED
    BY <1>2, <2>1, SubSeqProperties
<1>4. DOMAIN t = 1 .. Len(t)
  <2> HIDE DEF V, t
  <2>1. QED
    BY <1>3, LenProperties
<1> HIDE DEF V, t
<1>5. Len(t) = n - m
  BY <1>3
<1>6. ASSUME NEW k \in 1 .. n - m PROVE t[k] = s[m + k]
  <2>1. m + 1 + k - 1 = m + k
    OBVIOUS
  <2>2. QED
    BY <1>3, <2>1
<1>7. QED
  BY <1>4, <1>5, <1>6 DEF t

LEMMA LoadedIs ==
  ASSUME NEW id \in DOMAIN Source, NEW offset \in Nat, NEW length \in Nat
  PROVE  LET data == Loaded(id, offset, length) IN
         /\ Len(data) \in Nat /\ DOMAIN data = 1 .. Len(data)
         /\ Len(data) # 0 => offset + Len(data) <= Len(Source[id])
         /\ \A k \in 1 .. Len(data) : data[k] = Source[id][offset + k]
         /\ length # 0 /\ offset + length <= Len(Source[id]) => Len(data) = length
<1> DEFINE s   == Source[id]
           end == IF length = 0 \/ offset + length > Len(s) THEN Len(s) ELSE offset + length
<1>1. IsData(s) /\ Len(s) \in Nat
  BY SnapshotAssumption, DataIs
<1>2. Loaded(id, offset, length) = SubSeq(s, offset + 1, end)
  BY DEF Loaded
<1>3. end \in Nat /\ end <= Len(s)
  BY <1>1
<1>4. length # 0 /\ offset + length <= Len(s) => end = offset + length
  BY <1>1
<1> HIDE DEF end
<1>5. CASE offset <= end
  <2>1. /\ Len(SubSeq(s, offset + 1, end)) = end - offset
        /\ DOMAIN SubSeq(s, offset + 1, end) = 1 .. end - offset
        /\ \A k \in 1 .. end - offset : SubSeq(s, offset + 1, end)[k] = s[offset + k]
    BY <1>1, <1>3, <1>5, PieceIs
  <2>2. QED
    BY <1>1, <1>2, <1>3, <1>4, <1>5, <2>1
<1>6. CASE offset > end
  <2>1. SubSeq(s, offset + 1, end) = <<>>
    BY <1>3, <1>6, SubSeqEmpty
  <2>2. QED
    BY <1>2, <1>3, <1>4, <1>6, <2>1
<1>7. QED
  BY <1>3, <1>5, <1>6

LEMMA SegmentDataIs ==
  ASSUME NEW prog \in Programs, NEW i \in DOMAIN prog
  PROVE  LET seg == prog[i]  data == SegmentData(seg) IN
         /\ seg \in Segments
         /\ seg.from <= seg.to /\ ProgramStart + seg.to <= Len(Source[ProgramId])
         /\ DOMAIN data = 1 .. seg.to - seg.from
         /\ \A k \in 1 .. seg.to - seg.from :
              data[k] = Source[ProgramId][ProgramStart + seg.from + k]
<1> DEFINE seg == prog[i]
           s   == Source[ProgramId]
<1>1. IsData(s) /\ Len(s) \in Nat /\ ProgramStart \in Nat
  BY SnapshotAssumption, DataIs
<1>2. seg.from <= seg.to /\ ProgramStart + seg.to <= Len(s)
  BY SnapshotAssumption
<1>3. seg \in Segments
  <2>1. prog \in Seq(Segments)
    BY SnapshotAssumption
  <2>2. QED
    BY <2>1, LenProperties
<1>4. seg.from \in Nat /\ seg.to \in Nat
  BY <1>3 DEF Segments
<1> HIDE DEF seg
<1> DEFINE m == ProgramStart + seg.from
           n == ProgramStart + seg.to
<1>5. m \in Nat /\ n \in Nat /\ m <= n /\ n <= Len(s) /\ n - m = seg.to - seg.from
  BY <1>1, <1>2, <1>4
<1>6. SegmentData(seg) = SubSeq(s, m + 1, n)
  BY DEF SegmentData
<1> HIDE DEF m, n, s
<1>7. /\ DOMAIN SubSeq(s, m + 1, n) = 1 .. n - m
      /\ \A k \in 1 .. n - m : SubSeq(s, m + 1, n)[k] = s[m + k]
  BY <1>1, <1>5, PieceIs
<1>8. QED
  BY <1>2, <1>3, <1>5, <1>6, <1>7 DEF seg, m, n, s

(***************************************************************************)
(* The inductive invariant.  What the context knows of a page is compared  *)
(* with memory in every phase in which it will be used; while a machine is *)
(* being restored, memory is described by the entries restored so far.     *)
(***************************************************************************)
PageHolds(mm, p, id, offset) ==
  \A c \in Addr : PageOf(c) = p => mm[c] = Source[id][offset + c - p * PageCells + 1]

Fresh(mm, fl, p) == fl[p] = {} /\ \A c \in Addr : PageOf(c) = p => mm[c] = Zero

KeptFlags == {"executable", "freezed"}

Tracking(t) ==
  /\ t \in [id : DOMAIN Source, offset : Nat, flag : SUBSET KeptFlags]
  /\ t.offset + PageCells <= Len(Source[t.id])

IsMap(f, dom) == f = [x \in dom |-> f[x]]

MemoryTyped  == IsMap(mem, Addr) /\ flags \in [Page -> SUBSET Flags]
TrackedTyped ==
  /\ IsMap(tracked, DOMAIN tracked) /\ DOMAIN tracked \subseteq Page
  /\ \A p \in DOMAIN tracked : Tracking(tracked[p])
ControlTyped ==
  /\ pc \in {"load", "mark", "run", "resume", "failed"} /\ program \in Programs
  /\ done \in 0 .. Len(program) /\ core \in 0 .. MaxSteps

(* Pages that are not dirty.                                               *)
CleanFlags ==
  \A p \in Page : "dirty" \notin flags[p] =>
    IF p \in DOMAIN tracked THEN flags[p] = tracked[p].flag ELSE Fresh(mem, flags, p)
CleanData ==
  \A p \in DOMAIN tracked :
    "dirty" \notin flags[p] => PageHolds(mem, p, tracked[p].id, tracked[p].offset)

(* A segment that was loaded.                                              *)
Fits(fl, seg) ==
  /\ seg.addr % PageCells = 0 /\ seg.size % PageCells = 0
  /\ seg.addr + seg.size <= Size /\ seg.pad <= seg.size
  /\ \A p \in PageIndices(seg.addr, seg.size) : seg.flags \subseteq fl[p]
InPlace(mm, seg) ==
  \A c \in Addr :
    c \in seg.addr + seg.pad .. seg.addr + seg.pad + MarkedLength(seg) - 1 =>
      mm[c] = Source[ProgramId][ProgramStart + seg.from + c - seg.addr - seg.pad + 1]

Placed == 1 .. IF pc = "load" THEN done ELSE Len(program)
Loading ==
  pc \in {"load", "mark"} =>
    /\ snapshot = NoSnapshot /\ (pc = "load" => DOMAIN tracked = {})
    /\ \A i \in Placed : Fits(flags, program[i]) /\ (OwnPages(program) => InPlace(mem, program[i]))

(* The entries of a snapshot describe pages of their own.                  *)
SourcedPagesOf(e) == PageIndices(e.addr, e.length)
DirtyPagesOf(e)   == PageIndices(e.addr, Len(e.content))

SourcedEntryOK(e) ==
  /\ e \in [addr : Nat, flag : SUBSET KeptFlags, id : DOMAIN Source, offset : Nat, length : Nat]
  /\ Aligned(e.addr, e.length) /\ e.offset + e.length <= Len(Source[e.id])
DirtyEntryOK(e) ==
  /\ e.flag \in SUBSET Flags /\ "dirty" \in e.flag
  /\ IsData(e.content) /\ Aligned(e.addr, Len(e.content))

SnapshotOK(s) ==
  /\ \A e \in s.sourced : SourcedEntryOK(e)
  /\ \A e \in s.dirty : DirtyEntryOK(e)
  /\ \A e, f \in s.sourced : e # f => SourcedPagesOf(e) \cap SourcedPagesOf(f) = {}
  /\ \A e, f \in s.dirty : e # f => DirtyPagesOf(e) \cap DirtyPagesOf(f) = {}
  /\ \A e \in s.sourced, f \in s.dirty : SourcedPagesOf(e) \cap DirtyPagesOf(f) = {}
  /\ s.core \in 0 .. MaxSteps

SavedOK == snapshot # NoSnapshot => SnapshotOK(snapshot)

SourcedRestored == snapshot.sourced \ left.sourced
DirtyRestored   == snapshot.dirty \ left.dirty

PieceOf(e, p) ==
  [id |-> e.id, offset |-> e.offset + p * PageCells - e.addr, flag |-> e.flag]

Restoring ==
  pc = "resume" =>
    /\ snapshot # NoSnapshot /\ core = snapshot.core
    /\ left = [sourced |-> left.sourced, dirty |-> left.dirty]
    /\ left.sourced \subseteq snapshot.sourced /\ left.dirty \subseteq snapshot.dirty
    /\ left.sourced # {} => left.dirty = snapshot.dirty
    /\ \A e \in SourcedRestored : \A p \in SourcedPagesOf(e) :
         /\ p \in DOMAIN tracked /\ tracked[p] = PieceOf(e, p) /\ flags[p] = e.flag
         /\ PageHolds(mem, p, tracked[p].id, tracked[p].offset)
    /\ \A e \in DirtyRestored : \A p \in DirtyPagesOf(e) :
         /\ p \notin DOMAIN tracked /\ flags[p] = e.flag
         /\ \A c \in Addr : PageOf(c) = p => mem[c] = e.content[c - e.addr + 1]
    /\ \A p \in Page :
         \/ \E e \in SourcedRestored : p \in SourcedPagesOf(e)
         \/ \E e \in DirtyRestored : p \in DirtyPagesOf(e)
         \/ p \notin DOMAIN tracked /\ Fresh(mem, flags, p)

SnapshotInv ==
  /\ MemoryTyped /\ TrackedTyped /\ ControlTyped
  /\ pc \in {"load", "mark", "run"} => CleanFlags /\ (OwnPages(program) => CleanData)
  /\ Loading /\ SavedOK /\ Restoring /\ (pc # "resume" => left = NoEntries)

(***************************************************************************)
(* What the operations do to flags, memory and the context                 *)
(***************************************************************************)
LEMMA DirtiedIs ==
  ASSUME NEW fl \in [Page -> SUBSET Flags], NEW a, NEW n
  PROVE  /\ Dirtied(fl, a, n) \in [Page -> SUBSET Flags]
         /\ \A p \in Page : Dirtied(fl, a, n)[p] =
              IF p \in PageIndices(a, n) THEN fl[p] \cup {"dirty"} ELSE fl[p]
BY DEF Dirtied, SetFlag, Flags

(* Memory after n cells of data are stored at a.                           *)
StoredAt(w, mm, a, n, data) ==
  /\ IsMap(w, Addr)
  /\ \A c \in Addr : PageOf(c) \notin PageIndices(a, n) => w[c] = mm[c]
  /\ \A c \in Addr : c \in a .. a + n - 1 => w[c] = data[c - a + 1]
  /\ \A c \in Addr : c \notin a .. a + n - 1 => w[c] = mm[c]

LEMMA WrittenIs ==
  ASSUME NEW mm, NEW a \in Nat, NEW data, NEW n \in Nat, DOMAIN data = 1 .. n,
         n # 0 => a + n <= Size
  PROVE  StoredAt(Written(mm, a, data), mm, a, n, data)
<1> DEFINE w == Written(mm, a, data)
<1>1. IsMap(w, Addr)
  BY DEF Written, IsMap
<1>2. \A c \in Addr : w[c] = IF c - a + 1 \in 1 .. n THEN data[c - a + 1] ELSE mm[c]
  BY DEF Written
<1>3. ASSUME NEW c \in Addr
      PROVE  c \in Nat /\ (c - a + 1 \in 1 .. n <=> c \in a .. a + n - 1)
  <2>1. c \in Nat
    BY SizeIs
  <2>2. QED
    BY <2>1
<1>4. \A c \in Addr : c \in a .. a + n - 1 => PageOf(c) \in PageIndices(a, n)
  BY PagesInMemory
<1> HIDE DEF w
<1>5. QED
  BY <1>1, <1>2, <1>3, <1>4 DEF w, StoredAt

LEMMA FlagToTrackIs ==
  ASSUME NEW f \in SUBSET Flags
  PROVE  FlagToTrack(f) = f \ {"dirty"} /\ FlagToTrack(f) \in SUBSET KeptFlags
BY DEF FlagToTrack, KeptFlags, Flags

(* The context and the flags after the pages ps of the data that start at  *)
(* start are tracked.                                                      *)
TrackedAt(tn, fn, tr, fl, ps, start, id, offset) ==
  /\ ps \subseteq Page /\ DOMAIN tn = DOMAIN tr \cup ps /\ IsMap(tn, DOMAIN tn)
  /\ fn \in [Page -> SUBSET Flags]
  /\ \A p \in ps :
       /\ Tracking(tn[p]) /\ fn[p] = tn[p].flag /\ tn[p].flag = fl[p] \ {"dirty"}
       /\ tn[p].id = id /\ tn[p].offset = offset + p * PageCells - start
       /\ tn[p] = [id |-> id, offset |-> offset + p * PageCells - start,
                   flag |-> fl[p] \ {"dirty"}]
  /\ \A p \in DOMAIN tr : p \notin ps => tn[p] = tr[p]
  /\ \A p \in Page : p \notin ps => fn[p] = fl[p]

LEMMA TrackedPagesAre ==
  ASSUME NEW tr, NEW fl \in [Page -> SUBSET Flags], NEW start \in Nat, NEW length \in Nat,
         NEW id \in DOMAIN Source, NEW offset \in Nat,
         length # 0 => offset + length <= Len(Source[id])
  PROVE  TrackedAt(TrackedPages(tr, fl, start, length, id, offset),
                   TrackedFlags(fl, start, length), tr, fl, Covered(start, length),
                   start, id, offset)
<1> DEFINE ps == Covered(start, length)
           tn == TrackedPages(tr, fl, start, length, id, offset)
           fn == TrackedFlags(fl, start, length)
<1>1. ps \subseteq Page
  BY DEF Covered
<1>2. DOMAIN tn = DOMAIN tr \cup ps /\ IsMap(tn, DOMAIN tn)
  BY DEF TrackedPages, IsMap
<1>3. ASSUME NEW p \in ps
      PROVE  tn[p] = [id |-> id, offset |-> offset + p * PageCells - start,
                      flag |-> fl[p] \ {"dirty"}]
  BY <1>1 DEF TrackedPages, FlagToTrack
<1>4. \A p \in DOMAIN tr : p \notin ps => tn[p] = tr[p]
  BY DEF TrackedPages
<1>6. /\ fn \in [Page -> SUBSET Flags]
      /\ \A p \in Page : fn[p] = IF p \in ps THEN fl[p] \ {"dirty"} ELSE fl[p]
  BY DEF TrackedFlags, ClearFlag, Flags
<1>7. ASSUME NEW p \in ps
      PROVE  /\ offset + p * PageCells - start \in Nat
             /\ offset + p * PageCells - start + PageCells <= Len(Source[id])
  <2>1. start <= p * PageCells /\ (p + 1) * PageCells <= start + length
    BY DEF Covered
  <2>2. p \in Nat /\ PageCells \in Nat \ {0} /\ p * PageCells \in Nat
        /\ (p + 1) * PageCells = p * PageCells + PageCells
    BY <1>1, SizeIs
  <2>3. IsData(Source[id]) /\ Len(Source[id]) \in Nat
    BY SnapshotAssumption, DataIs
  <2>4. length # 0
    BY <2>1, <2>2
  <2>5. QED
    BY <2>1, <2>2, <2>3, <2>4
<1>8. \A p \in ps : fl[p] \ {"dirty"} \in SUBSET KeptFlags
  BY <1>1, FlagToTrackIs
<1> HIDE DEF ps, tn, fn
<1>9. ASSUME NEW p \in ps
       PROVE  /\ tn[p].id = id /\ tn[p].offset = offset + p * PageCells - start
              /\ tn[p].flag = fl[p] \ {"dirty"}
  <2> DEFINE o == offset + p * PageCells - start
             f == fl[p] \ {"dirty"}
  <2>1. tn[p] = [id |-> id, offset |-> o, flag |-> f]
    BY <1>3
  <2> HIDE DEF o, f
  <2>2. tn[p].id = id /\ tn[p].offset = o /\ tn[p].flag = f
    BY <2>1
  <2>3. QED
    BY <2>2 DEF o, f
<1>10. ASSUME NEW p \in ps PROVE Tracking(tn[p])
  <2> DEFINE o == offset + p * PageCells - start
             f == fl[p] \ {"dirty"}
  <2>1. o \in Nat /\ o + PageCells <= Len(Source[id]) /\ f \in SUBSET KeptFlags
    BY <1>7, <1>8
  <2>2. tn[p] = [id |-> id, offset |-> o, flag |-> f]
    BY <1>3
  <2> HIDE DEF o, f
  <2>3. QED
    BY <2>1, <2>2 DEF Tracking
<1>11. \A p \in ps : fn[p] = tn[p].flag
  BY <1>1, <1>6, <1>9
<1>12. \A p \in Page : p \notin ps => fn[p] = fl[p]
  BY <1>6
<1>13. QED
  BY <1>1, <1>2, <1>3, <1>4, <1>6, <1>9, <1>10, <1>11, <1>12 DEF ps, tn, fn, TrackedAt

(***************************************************************************)
(* Loading                                                                 *)
(***************************************************************************)
LEMMA SnapshotInit == Init => SnapshotInv
<1> SUFFICES ASSUME Init PROVE SnapshotInv
  OBVIOUS
<1> USE DEF Init
<1>1. MemoryTyped
  BY DEF MemoryTyped, IsMap, ZeroMem, NoFlags
<1>2. TrackedTyped /\ DOMAIN tracked = {}
  BY DEF TrackedTyped, IsMap
<1>3. ControlTyped
  <2>1. Len(program) \in Nat
    BY SnapshotAssumption, LenProperties
  <2>2. QED
    BY <2>1, SnapshotAssumption DEF ControlTyped
<1>4. CleanFlags
  BY <1>2 DEF CleanFlags, Fresh, ZeroMem, NoFlags
<1>5. CleanData
  BY <1>2 DEF CleanData
<1>6. Loading
  BY <1>2 DEF Loading, Placed
<1>7. SavedOK /\ Restoring
  BY DEF SavedOK, Restoring
<1>8. QED
  BY <1>1, <1>2, <1>3, <1>4, <1>5, <1>6, <1>7 DEF SnapshotInv

LEMMA ProgramIs ==
  ASSUME ControlTyped
  PROVE  /\ Len(program) \in Nat /\ DOMAIN program = 1 .. Len(program)
         /\ \A i \in 1 .. Len(program) : program[i] \in Segments
BY SnapshotAssumption, LenProperties DEF ControlTyped

LEMMA MarkedLengthIs ==
  ASSUME NEW seg \in Segments, seg.from <= seg.to, seg.pad <= seg.size
  PROVE  /\ MarkedLength(seg) \in Nat /\ MarkedLength(seg) <= seg.to - seg.from
         /\ seg.pad + MarkedLength(seg) <= seg.size
BY DEF MarkedLength, Segments

(* A segment keeps its place while nothing is stored on its pages.         *)
LEMMA SegmentCells ==
  ASSUME NEW seg \in Segments, seg.from <= seg.to, NEW fl, Fits(fl, seg), NEW c \in Addr,
         c \in seg.addr + seg.pad .. seg.addr + seg.pad + MarkedLength(seg) - 1
  PROVE  /\ c \in seg.addr .. seg.addr + seg.size - 1
         /\ PageOf(c) \in PageIndices(seg.addr, seg.size)
         /\ c - seg.addr - seg.pad + 1 \in 1 .. seg.to - seg.from
<1>1. seg.addr \in Nat /\ seg.size \in Nat /\ seg.pad \in Nat /\ seg.from \in Nat /\ seg.to \in Nat
  BY DEF Segments
<1>2. seg.addr + seg.size <= Size /\ seg.pad <= seg.size
  BY DEF Fits
<1>3. /\ MarkedLength(seg) \in Nat /\ MarkedLength(seg) <= seg.to - seg.from
      /\ seg.pad + MarkedLength(seg) <= seg.size
  BY <1>2, MarkedLengthIs
<1>4. c \in Nat
  BY SizeIs
<1>5. c \in seg.addr .. seg.addr + seg.size - 1
  BY <1>1, <1>3, <1>4
<1>6. PageOf(c) \in PageIndices(seg.addr, seg.size)
  BY <1>1, <1>2, <1>5, PagesInMemory
<1>7. QED
  BY <1>1, <1>3, <1>4, <1>5, <1>6

LEMMA DropKeeps == SnapshotInv /\ pc = "load" /\ Drop => SnapshotInv'
<1> SUFFICES ASSUME SnapshotInv, pc = "load", Drop PROVE SnapshotInv'
  OBVIOUS
<1> USE DEF Drop
<1>1. MemoryTyped' /\ TrackedTyped'
  BY DEF SnapshotInv, MemoryTyped, TrackedTyped
<1>2. ControlTyped'
  BY DEF SnapshotInv, ControlTyped
<1>3. Loading' /\ SavedOK' /\ Restoring'
  BY DEF SnapshotInv, Loading, SavedOK, Restoring
<1>4. QED
  BY <1>1, <1>2, <1>3 DEF SnapshotInv

LEMMA LoadSegmentKeeps == SnapshotInv /\ LoadSegment => SnapshotInv'
<1> SUFFICES ASSUME SnapshotInv, LoadSegment PROVE SnapshotInv'
  OBVIOUS
<1> DEFINE seg  == program[done + 1]
           data == SegmentData(seg)
           ps   == PageIndices(seg.addr, seg.size)
<1>1. /\ MemoryTyped /\ TrackedTyped /\ ControlTyped /\ CleanFlags /\ Loading /\ SavedOK
      /\ pc = "load" /\ left = NoEntries
  BY DEF SnapshotInv, LoadSegment
<1>2. /\ Len(program) \in Nat /\ done \in Nat /\ done + 1 \in 1 .. Len(program)
      /\ DOMAIN program = 1 .. Len(program) /\ program \in Programs
      /\ \A i \in 1 .. Len(program) : program[i] \in Segments
  BY <1>1, ProgramIs DEF ControlTyped, LoadSegment
<1>3. /\ seg \in Segments /\ seg.from <= seg.to /\ DOMAIN data = 1 .. seg.to - seg.from
      /\ \A k \in 1 .. seg.to - seg.from :
           data[k] = Source[ProgramId][ProgramStart + seg.from + k]
  BY <1>2, SegmentDataIs
<1>4. /\ InitPagesOk(flags, seg.addr, seg.size, seg.pad)
      /\ mem' = Filled(mem, seg.addr, seg.size, data, seg.pad)
      /\ flags' = FilledFlags(flags, seg.addr, seg.size, seg.flags)
      /\ done' = done + 1
      /\ UNCHANGED <<pc, program, core, tracked, snapshot, left>>
  BY DEF LoadSegment
<1> HIDE DEF seg, data
<1>5. /\ seg.addr \in Nat /\ seg.size \in Nat /\ seg.pad \in Nat /\ seg.from \in Nat
      /\ seg.to \in Nat /\ seg.flags \subseteq KeptFlags
  BY <1>3 DEF Segments, KeptFlags
<1>6. /\ seg.addr % PageCells = 0 /\ seg.size % PageCells = 0
      /\ seg.addr + seg.size <= Size /\ seg.pad <= seg.size
  BY <1>4 DEF InitPagesOk
<1>7. /\ ps \subseteq Page
      /\ \A c \in Addr : c \in seg.addr .. seg.addr + seg.size - 1 => PageOf(c) \in ps
  BY <1>5, <1>6, PagesInMemory
<1>8. /\ flags' \in [Page -> SUBSET Flags]
      /\ \A p \in Page : flags'[p] = IF p \in ps THEN flags[p] \cup seg.flags \cup {"dirty"}
                                     ELSE flags[p]
  BY <1>1, <1>4, <1>5 DEF FilledFlags, SetFlag, MemoryTyped, Flags, KeptFlags
<1>9. /\ IsMap(mem', Addr)
      /\ \A c \in Addr : PageOf(c) \notin ps => mem'[c] = mem[c]
  BY <1>4, <1>7 DEF Filled, IsMap
<1> HIDE DEF ps
<1>10. MemoryTyped'
  BY <1>8, <1>9 DEF MemoryTyped
<1>11. TrackedTyped' /\ ControlTyped'
  BY <1>1, <1>2, <1>4 DEF TrackedTyped, ControlTyped, Tracking
<1>12. DOMAIN tracked = {} /\ snapshot = NoSnapshot
  BY <1>1 DEF Loading
<1>13. CleanFlags'
  <2>1. SUFFICES ASSUME NEW p \in Page, "dirty" \notin flags'[p] PROVE Fresh(mem', flags', p)
    BY <1>4, <1>12 DEF CleanFlags
  <2>2. p \notin ps /\ flags'[p] = flags[p]
    BY <1>8, <2>1
  <2>3. Fresh(mem, flags, p)
    BY <1>1, <1>12, <2>1, <2>2 DEF CleanFlags
  <2>4. QED
    BY <1>9, <2>2, <2>3 DEF Fresh
<1>14. CleanData'
  BY <1>4, <1>12 DEF CleanData
<1>15. ASSUME NEW i \in 1 .. done + 1
       PROVE  Fits(flags', program[i]) /\ (OwnPages(program) => InPlace(mem', program[i]))
  <2>1. CASE i = done + 1
    <3>1. program[i] = seg
      BY <2>1 DEF seg
    <3>2. Fits(flags', seg)
      BY <1>6, <1>7, <1>8 DEF Fits, ps
    <3>3. ASSUME NEW c \in Addr,
                 c \in seg.addr + seg.pad .. seg.addr + seg.pad + MarkedLength(seg) - 1
          PROVE  mem'[c] = Source[ProgramId][ProgramStart + seg.from + c - seg.addr - seg.pad + 1]
      <4>1. /\ MarkedLength(seg) \in Nat /\ MarkedLength(seg) <= seg.to - seg.from
            /\ seg.pad + MarkedLength(seg) <= seg.size
        BY <1>3, <1>6, MarkedLengthIs
      <4>2. c \in Nat
        BY SizeIs
      <4> DEFINE k == c - seg.addr - seg.pad + 1
      <4>3. k \in 1 .. seg.to - seg.from /\ c \in seg.addr .. seg.addr + seg.size - 1
        BY <1>5, <3>3, <4>1, <4>2
      <4>4. mem'[c] = data[k]
        BY <1>3, <1>4, <4>3 DEF Filled
      <4>5. data[k] = Source[ProgramId][ProgramStart + seg.from + k]
        BY <1>3, <4>3
      <4>6. ProgramStart + seg.from + k = ProgramStart + seg.from + c - seg.addr - seg.pad + 1
        <5>1. ProgramStart \in Nat
          BY SnapshotAssumption
        <5>2. c \in Nat /\ seg.from \in Nat /\ seg.addr \in Nat /\ seg.pad \in Nat
          BY <1>5, <4>2
        <5>3. QED
          BY <5>1, <5>2
      <4>7. QED
        BY <4>4, <4>5, <4>6
    <3>4. InPlace(mem', seg)
      BY <3>3 DEF InPlace
    <3>5. QED
      BY <1>4, <3>1, <3>2, <3>4
  <2>2. CASE i # done + 1
    <3> DEFINE old == program[i]
    <3>1. i \in Placed /\ i \in 1 .. Len(program)
      BY <1>1, <1>2, <2>2 DEF Placed
    <3>2. old \in Segments /\ old.from <= old.to
      BY <1>2, <3>1, SegmentDataIs
    <3>3. Fits(flags, old) /\ (OwnPages(program) => InPlace(mem, old))
      BY <1>1, <3>1 DEF Loading
    <3>4. OwnPages(program) => PageIndices(old.addr, old.size) \cap ps = {}
      BY <1>2, <2>2, <3>1 DEF OwnPages, seg, ps
    <3> HIDE DEF old
    <3>5. PageIndices(old.addr, old.size) \subseteq Page
      BY <3>2, <3>3, PagesInMemory DEF Fits, Segments
    <3>6. Fits(flags', old)
      BY <1>8, <3>3, <3>5 DEF Fits
    <3>7. ASSUME OwnPages(program) PROVE InPlace(mem', old)
      <4>1. SUFFICES ASSUME NEW c \in Addr,
                       c \in old.addr + old.pad .. old.addr + old.pad + MarkedLength(old) - 1
                     PROVE  mem'[c] = mem[c]
        BY <3>3, <3>7 DEF InPlace
      <4>2. PageOf(c) \in PageIndices(old.addr, old.size)
        BY <3>2, <3>3, <4>1, SegmentCells
      <4>3. QED
        BY <1>9, <3>4, <3>7, <4>2
    <3>8. QED
      BY <1>4, <3>6, <3>7 DEF old
  <2>3. QED
    BY <2>1, <2>2
<1>16. Loading'
  BY <1>1, <1>4, <1>12, <1>15 DEF Loading, Placed
<1>17. SavedOK' /\ Restoring'
  BY <1>1, <1>4 DEF SavedOK, Restoring
<1>18. QED
  BY <1>1, <1>4, <1>10, <1>11, <1>13, <1>14, <1>16, <1>17 DEF SnapshotInv

LEMMA InitializeStackKeeps == SnapshotInv /\ InitializeStack => SnapshotInv'
<1> SUFFICES ASSUME SnapshotInv, InitializeStack PROVE SnapshotInv'
  OBVIOUS
<1>1. /\ MemoryTyped /\ TrackedTyped /\ ControlTyped /\ CleanFlags /\ Loading /\ SavedOK
      /\ pc = "load" /\ left = NoEntries /\ done = Len(program)
  BY DEF SnapshotInv, InitializeStack
<1>2. PICK n \in 0 .. MaxArgs :
        /\ Permitted(flags, Size - n, n)
        /\ mem' = Written(mem, Size - n, [k \in 1 .. n |-> "arg"])
        /\ flags' = Dirtied(flags, Size - n, n)
  BY DEF InitializeStack
<1>3. pc' = "mark" /\ done' = 0 /\ UNCHANGED <<program, core, tracked, snapshot, left>>
  BY DEF InitializeStack
<1> DEFINE top    == Size - n
           args == [k \in 1 .. n |-> "arg"]
           ps   == PageIndices(top, n)
<1>4. top \in Nat /\ n \in Nat /\ top + n = Size /\ top >= Size - MaxArgs /\ Size \in Nat
      /\ MaxArgs \in Nat /\ DOMAIN args = 1 .. n
  BY SizeIs, SnapshotAssumption
<1>41. /\ Permitted(flags, top, n) /\ ps = PageIndices(top, n)
       /\ mem' = Written(mem, top, args) /\ flags' = Dirtied(flags, top, n)
  BY <1>2
<1> HIDE DEF top, args, ps
<1>5. /\ IsMap(mem', Addr)
      /\ \A c \in Addr : PageOf(c) \notin ps => mem'[c] = mem[c]
      /\ \A c \in Addr : c \notin top .. top + n - 1 => mem'[c] = mem[c]
  <2>1. StoredAt(Written(mem, top, args), mem, top, n, args)
    BY <1>4, WrittenIs
  <2>2. QED
    BY <1>41, <2>1 DEF StoredAt
<1>6. /\ flags' \in [Page -> SUBSET Flags]
      /\ \A p \in Page : flags'[p] = IF p \in ps THEN flags[p] \cup {"dirty"} ELSE flags[p]
  <2>1. LET fn == Dirtied(flags, top, n) IN
        /\ fn \in [Page -> SUBSET Flags]
        /\ \A p \in Page : fn[p] = IF p \in PageIndices(top, n) THEN flags[p] \cup {"dirty"}
                                    ELSE flags[p]
    BY <1>1, DirtiedIs DEF MemoryTyped
  <2>2. QED
    BY <1>41, <2>1
<1>7. \A p \in ps : "executable" \notin flags[p]
  BY <1>4, <1>41 DEF Permitted, PageIndices
<1>8. MemoryTyped'
  BY <1>5, <1>6 DEF MemoryTyped
<1>9. TrackedTyped' /\ ControlTyped'
  BY <1>1, <1>3, ProgramIs DEF TrackedTyped, ControlTyped, Tracking
<1>10. DOMAIN tracked = {} /\ snapshot = NoSnapshot
  BY <1>1 DEF Loading
<1>11. CleanFlags'
  <2>1. SUFFICES ASSUME NEW p \in Page, "dirty" \notin flags'[p] PROVE Fresh(mem', flags', p)
    BY <1>3, <1>10 DEF CleanFlags
  <2>2. p \notin ps /\ flags'[p] = flags[p]
    BY <1>6, <2>1
  <2>3. Fresh(mem, flags, p)
    BY <1>1, <1>10, <2>1, <2>2 DEF CleanFlags
  <2>4. QED
    BY <1>5, <2>2, <2>3 DEF Fresh
<1>12. CleanData'
  BY <1>3, <1>10 DEF CleanData
<1>13. ASSUME NEW i \in 1 .. Len(program)
       PROVE  Fits(flags', program[i]) /\ (OwnPages(program) => InPlace(mem', program[i]))
  <2> DEFINE seg == program[i]
  <2>1. i \in Placed /\ i \in DOMAIN program /\ program \in Programs
    BY <1>1, ProgramIs DEF Placed, ControlTyped
  <2>2. seg \in Segments /\ seg.from <= seg.to
    BY <2>1, SegmentDataIs
  <2>3. Fits(flags, seg) /\ (OwnPages(program) => InPlace(mem, seg))
    BY <1>1, <2>1 DEF Loading
  <2>4. OwnPages(program) => "executable" \in seg.flags \/ seg.addr + seg.size <= Size - MaxArgs
    BY <2>1 DEF OwnPages
  <2> HIDE DEF seg
  <2>5. seg.addr \in Nat /\ seg.size \in Nat
    BY <2>2 DEF Segments
  <2>6. PageIndices(seg.addr, seg.size) \subseteq Page
    BY <2>3, <2>5, PagesInMemory DEF Fits
  <2>7. Fits(flags', seg)
    BY <1>6, <2>3, <2>6 DEF Fits
  <2>8. ASSUME OwnPages(program) PROVE InPlace(mem', seg)
    <3>1. SUFFICES ASSUME NEW c \in Addr,
                     c \in seg.addr + seg.pad .. seg.addr + seg.pad + MarkedLength(seg) - 1
                   PROVE  mem'[c] = mem[c]
      BY <2>3, <2>8 DEF InPlace
    <3>2. /\ c \in seg.addr .. seg.addr + seg.size - 1
          /\ PageOf(c) \in PageIndices(seg.addr, seg.size)
      BY <2>2, <2>3, <3>1, SegmentCells
    <3>3. CASE "executable" \in seg.flags
      <4>1. "executable" \in flags[PageOf(c)]
        BY <2>3, <3>2, <3>3 DEF Fits
      <4>2. QED
        BY <1>5, <1>7, <4>1
    <3>4. CASE seg.addr + seg.size <= Size - MaxArgs
      <4>1. c \in Nat /\ c < top
        <5>1. c \in Nat
          BY <3>1, SizeIs
        <5>2. seg.addr \in Nat /\ seg.size \in Nat
          BY <2>5
        <5>25. c \in seg.addr .. seg.addr + seg.size - 1
          BY <3>2
        <5>3. Size \in Nat /\ MaxArgs \in Nat /\ top \in Nat /\ Size - MaxArgs <= top
          BY <1>4, <2>5, SizeIs
        <5>4. QED
          BY <3>4, <5>1, <5>2, <5>25, <5>3
      <4>2. c \notin top .. top + n - 1
        BY <1>4, <4>1
      <4>3. QED
        BY <1>5, <4>2
    <3>5. QED
      BY <2>4, <2>8, <3>3, <3>4
  <2>9. QED
    BY <2>7, <2>8 DEF seg
<1>14. Loading'
  BY <1>3, <1>10, <1>13 DEF Loading, Placed
<1>15. SavedOK' /\ Restoring'
  BY <1>1, <1>3 DEF SavedOK, Restoring
<1>16. QED
  BY <1>1, <1>3, <1>8, <1>9, <1>11, <1>12, <1>14, <1>15 DEF SnapshotInv

(* What a whole page of data holds.                                        *)
LEMMA CoveredPageHolds ==
  ASSUME NEW mm, NEW start \in Nat, NEW length \in Nat, NEW id \in DOMAIN Source,
         NEW offset \in Nat, NEW p \in Covered(start, length),
         \A c \in Addr : c \in start .. start + length - 1 =>
           mm[c] = Source[id][offset + c - start + 1]
  PROVE  PageHolds(mm, p, id, offset + p * PageCells - start)
<1>1. p \in Page /\ start <= p * PageCells /\ (p + 1) * PageCells <= start + length
  BY DEF Covered
<1>2. p \in Nat /\ p * PageCells \in Nat /\ (p + 1) * PageCells \in Nat
  BY <1>1, SizeIs
<1>3. SUFFICES ASSUME NEW c \in Addr, PageOf(c) = p
               PROVE  mm[c] = Source[id][offset + p * PageCells - start + c - p * PageCells + 1]
  BY DEF PageHolds
<1>4. c \in Nat /\ p * PageCells <= c /\ c < (p + 1) * PageCells
  BY <1>2, <1>3, SizeIs, PageOfIs
<1>5. c \in start .. start + length - 1
  BY <1>1, <1>2, <1>4
<1>6. offset + p * PageCells - start + c - p * PageCells + 1 = offset + c - start + 1
  BY <1>2, <1>4
<1>7. QED
  BY <1>5, <1>6

LEMMA MarkSegmentKeeps == SnapshotInv /\ MarkSegment => SnapshotInv'
<1> SUFFICES ASSUME SnapshotInv, MarkSegment PROVE SnapshotInv'
  OBVIOUS
<1> DEFINE seg    == program[done + 1]
           first  == seg.addr + seg.pad
           len == MarkedLength(seg)
           off == ProgramStart + seg.from
           ps     == Covered(first, len)
<1>1. /\ MemoryTyped /\ TrackedTyped /\ ControlTyped /\ CleanFlags /\ Loading /\ SavedOK
      /\ (OwnPages(program) => CleanData) /\ pc = "mark" /\ left = NoEntries
  BY DEF SnapshotInv, MarkSegment
<1>2. /\ Len(program) \in Nat /\ done \in Nat /\ done + 1 \in 1 .. Len(program)
      /\ DOMAIN program = 1 .. Len(program) /\ program \in Programs /\ done + 1 \in Placed
  BY <1>1, ProgramIs DEF ControlTyped, MarkSegment, Placed
<1>3. /\ seg \in Segments /\ seg.from <= seg.to
      /\ ProgramStart + seg.to <= Len(Source[ProgramId])
  BY <1>2, SegmentDataIs
<1>4. Fits(flags, seg) /\ (OwnPages(program) => InPlace(mem, seg))
  BY <1>1, <1>2 DEF Loading
<1>5. /\ tracked' = TrackedPages(tracked, flags, first, len, ProgramId, off)
      /\ flags' = TrackedFlags(flags, first, len)
      /\ done' = done + 1 /\ UNCHANGED <<mem, pc, program, core, snapshot, left>>
  BY DEF MarkSegment
<1> HIDE DEF seg
<1>6. /\ seg.addr \in Nat /\ seg.size \in Nat /\ seg.pad \in Nat /\ seg.from \in Nat
      /\ seg.to \in Nat /\ seg.flags \subseteq KeptFlags
  BY <1>3 DEF Segments, KeptFlags
<1>7. ProgramStart \in Nat /\ ProgramId \in DOMAIN Source /\ Len(Source[ProgramId]) \in Nat
  BY SnapshotAssumption, DataIs
<1>71. seg.pad <= seg.size
  BY <1>4 DEF Fits
<1>72. len \in Nat /\ len <= seg.to - seg.from
  BY <1>3, <1>71, MarkedLengthIs
<1> HIDE DEF len
<1>73. first \in Nat /\ off \in Nat
  BY <1>6, <1>7
<1>74. off + len <= ProgramStart + seg.to
  BY <1>6, <1>7, <1>72
<1>8. len \in Nat /\ first \in Nat /\ off \in Nat /\ off + len <= Len(Source[ProgramId])
  <2> HIDE DEF off, first, ps
  <2>1. ProgramStart + seg.to \in Nat
    BY <1>6, <1>7
  <2>2. QED
    BY <1>3, <1>7, <1>72, <1>73, <1>74, <2>1
<1>81. ps = Covered(first, len)
  OBVIOUS
<1> HIDE DEF off, first, ps
<1>9. /\ ps \subseteq Page /\ DOMAIN tracked' = DOMAIN tracked \cup ps
      /\ IsMap(tracked', DOMAIN tracked')
      /\ flags' \in [Page -> SUBSET Flags]
      /\ \A p \in ps :
           /\ Tracking(tracked'[p]) /\ flags'[p] = tracked'[p].flag
           /\ tracked'[p].flag = flags[p] \ {"dirty"}
           /\ tracked'[p].id = ProgramId
           /\ tracked'[p].offset = off + p * PageCells - first
      /\ \A p \in DOMAIN tracked : p \notin ps => tracked'[p] = tracked[p]
      /\ \A p \in Page : p \notin ps => flags'[p] = flags[p]
  <2>1. TrackedAt(TrackedPages(tracked, flags, first, len, ProgramId, off),
                  TrackedFlags(flags, first, len), tracked, flags, Covered(first, len),
                  first, ProgramId, off)
    BY <1>1, <1>7, <1>8, TrackedPagesAre DEF MemoryTyped
  <2>2. QED
    BY <1>5, <1>81, <2>1 DEF TrackedAt
<1>10. MemoryTyped' /\ TrackedTyped'
  BY <1>1, <1>5, <1>9 DEF MemoryTyped, TrackedTyped
<1>11. ControlTyped'
  BY <1>1, <1>2, <1>5 DEF ControlTyped
<1>12. CleanFlags'
  <2>1. SUFFICES ASSUME NEW p \in Page, "dirty" \notin flags'[p], p \notin ps
                 PROVE  IF p \in DOMAIN tracked' THEN flags'[p] = tracked'[p].flag
                        ELSE Fresh(mem', flags', p)
    BY <1>9 DEF CleanFlags
  <2>2. flags'[p] = flags[p] /\ mem' = mem
    BY <1>5, <1>9, <2>1
  <2>3. QED
    BY <1>1, <1>9, <2>1, <2>2 DEF CleanFlags, Fresh
<1>13. ASSUME OwnPages(program) PROVE CleanData'
  <2>1. SUFFICES ASSUME NEW p \in DOMAIN tracked', "dirty" \notin flags'[p]
                 PROVE  PageHolds(mem', p, tracked'[p].id, tracked'[p].offset)
    BY DEF CleanData
  <2>2. CASE p \in ps
    <3>1. \A c \in Addr : c \in first .. first + len - 1 =>
            mem'[c] = Source[ProgramId][off + c - first + 1]
      <4>1. ASSUME NEW c \in Addr, c \in first .. first + len - 1
            PROVE  mem[c] = Source[ProgramId][off + c - first + 1]
        <5>1. mem[c] = Source[ProgramId][off + c - seg.addr - seg.pad + 1]
          BY <1>4, <1>13, <4>1 DEF InPlace, first, len, off
        <5>2. c \in Nat /\ off + c - seg.addr - seg.pad + 1 = off + c - first + 1
          <6>1. c \in Nat /\ first = seg.addr + seg.pad
            BY SizeIs DEF first
          <6>2. QED
            BY <1>6, <1>8, <6>1
        <5>3. QED
          BY <5>1, <5>2
      <4>2. QED
        BY <1>5, <4>1
    <3>2. PageHolds(mem', p, ProgramId, off + p * PageCells - first)
      BY <1>7, <1>8, <2>2, <3>1, CoveredPageHolds DEF ps
    <3>3. QED
      BY <1>9, <2>2, <3>2
  <2>3. CASE p \notin ps
    <3>1. p \in DOMAIN tracked /\ p \in Page /\ flags'[p] = flags[p] /\ tracked'[p] = tracked[p]
      BY <1>1, <1>9, <2>1, <2>3 DEF TrackedTyped
    <3>2. QED
      BY <1>1, <1>5, <1>13, <2>1, <3>1 DEF CleanData
  <2>4. QED
    BY <2>2, <2>3
<1>14. Loading'
  <2>1. ASSUME NEW i \in 1 .. Len(program)
        PROVE  Fits(flags', program[i]) /\ (OwnPages(program) => InPlace(mem, program[i]))
    <3> DEFINE old == program[i]
    <3>1. Fits(flags, old) /\ (OwnPages(program) => InPlace(mem, old))
      BY <1>1 DEF Loading, Placed
    <3>2. old \in Segments
      BY <1>1, ProgramIs
    <3> HIDE DEF old
    <3>3. old.addr \in Nat /\ old.size \in Nat /\ old.flags \subseteq KeptFlags
      BY <3>2 DEF Segments, KeptFlags
    <3>4. PageIndices(old.addr, old.size) \subseteq Page
      BY <3>1, <3>3, PagesInMemory DEF Fits
    <3>5. "dirty" \notin old.flags
      BY <3>3 DEF KeptFlags
    <3>6. ASSUME NEW p \in PageIndices(old.addr, old.size) PROVE old.flags \subseteq flags'[p]
      <4>1. old.flags \subseteq flags[p]
        BY <3>1 DEF Fits
      <4>2. QED
        BY <1>9, <3>4, <3>5, <4>1
    <3>7. QED
      BY <3>1, <3>6 DEF Fits, old
  <2>2. QED
    BY <1>1, <1>5, <2>1 DEF Loading, Placed
<1>15. SavedOK' /\ Restoring'
  BY <1>1, <1>5 DEF SavedOK, Restoring
<1>16. QED
  BY <1>1, <1>5, <1>10, <1>11, <1>12, <1>13, <1>14, <1>15 DEF SnapshotInv

LEMMA MarkedKeeps == SnapshotInv /\ Marked => SnapshotInv'
<1> SUFFICES ASSUME SnapshotInv, Marked PROVE SnapshotInv'
  OBVIOUS
<1> USE DEF Marked
<1>1. MemoryTyped' /\ TrackedTyped' /\ ControlTyped'
  BY DEF SnapshotInv, MemoryTyped, TrackedTyped, ControlTyped
<1>2. CleanFlags' /\ (OwnPages(program) => CleanData')
  BY DEF SnapshotInv, CleanFlags, CleanData
<1>3. Loading' /\ SavedOK' /\ Restoring'
  BY DEF SnapshotInv, Loading, SavedOK, Restoring
<1>4. QED
  BY <1>1, <1>2, <1>3 DEF SnapshotInv

(***************************************************************************)
(* The guest runs                                                          *)
(***************************************************************************)

(* A step that leaves every page alone, marks it dirty or tracks it.       *)
LEMMA PagesKeep ==
  ASSUME CleanFlags, OwnPages(program) => CleanData, TrackedTyped, TrackedTyped', NEW ps,
         \A p \in Page \ ps :
           /\ flags'[p] = flags[p] /\ (p \in DOMAIN tracked' <=> p \in DOMAIN tracked)
           /\ \A c \in Addr : PageOf(c) = p => mem'[c] = mem[c]
           /\ p \in DOMAIN tracked => tracked'[p] = tracked[p],
         \A p \in Page \cap ps :
           \/ "dirty" \in flags'[p]
           \/ /\ p \in DOMAIN tracked' /\ flags'[p] = tracked'[p].flag
              /\ PageHolds(mem', p, tracked'[p].id, tracked'[p].offset)
  PROVE  CleanFlags' /\ (OwnPages(program) => CleanData')
<1>1. CleanFlags'
  <2>1. SUFFICES ASSUME NEW p \in Page, "dirty" \notin flags'[p]
                 PROVE  IF p \in DOMAIN tracked' THEN flags'[p] = tracked'[p].flag
                        ELSE Fresh(mem', flags', p)
    BY DEF CleanFlags
  <2>2. CASE p \in ps
    BY <2>1, <2>2
  <2>3. CASE p \notin ps
    BY <2>1, <2>3 DEF CleanFlags, Fresh
  <2>4. QED
    BY <2>2, <2>3
<1>2. ASSUME OwnPages(program) PROVE CleanData'
  <2>1. SUFFICES ASSUME NEW p \in DOMAIN tracked', "dirty" \notin flags'[p]
                 PROVE  PageHolds(mem', p, tracked'[p].id, tracked'[p].offset)
    BY DEF CleanData
  <2>2. p \in Page
    BY <2>1 DEF TrackedTyped
  <2>3. CASE p \in ps
    BY <2>1, <2>2, <2>3
  <2>4. CASE p \notin ps
    BY <1>2, <2>1, <2>2, <2>4 DEF CleanData, PageHolds
  <2>5. QED
    BY <2>3, <2>4
<1>3. QED
  BY <1>1, <1>2

LEMMA StoreKeeps == SnapshotInv /\ Store => SnapshotInv'
<1> SUFFICES ASSUME SnapshotInv, Store PROVE SnapshotInv'
  OBVIOUS
<1>1. /\ MemoryTyped /\ TrackedTyped /\ ControlTyped /\ CleanFlags /\ SavedOK
      /\ (OwnPages(program) => CleanData) /\ pc = "run" /\ core < MaxSteps /\ left = NoEntries
  BY DEF SnapshotInv, Store, Running
<1>2. PICK a \in Addr, v \in Values :
        /\ mem' = Written(mem, a, <<v>>) /\ flags' = Dirtied(flags, a, 1)
  BY DEF Store
<1>3. core' = core + 1 /\ UNCHANGED <<pc, program, done, tracked, snapshot, left>>
  BY DEF Store
<1> DEFINE ps == PageIndices(a, 1)
<1>4. IsMap(mem', Addr) /\ \A c \in Addr : PageOf(c) \notin ps => mem'[c] = mem[c]
  <2>1. a \in Nat /\ a + 1 <= Size /\ DOMAIN <<v>> = 1 .. 1
    BY SizeIs DEF Addr
  <2>2. StoredAt(Written(mem, a, <<v>>), mem, a, 1, <<v>>)
    BY <2>1, WrittenIs
  <2>3. QED
    BY <1>2, <2>2 DEF StoredAt
<1>5. /\ flags' \in [Page -> SUBSET Flags]
      /\ \A p \in Page : flags'[p] = IF p \in ps THEN flags[p] \cup {"dirty"} ELSE flags[p]
  <2>1. LET fn == Dirtied(flags, a, 1) IN
        /\ fn \in [Page -> SUBSET Flags]
        /\ \A p \in Page : fn[p] = IF p \in ps THEN flags[p] \cup {"dirty"} ELSE flags[p]
    BY <1>1, DirtiedIs DEF MemoryTyped
  <2>2. QED
    BY <1>2, <2>1
<1> HIDE DEF ps
<1>6. MemoryTyped' /\ TrackedTyped'
  BY <1>1, <1>3, <1>4, <1>5 DEF MemoryTyped, TrackedTyped, Tracking
<1>7. ControlTyped'
  BY <1>1, <1>3, SnapshotAssumption DEF ControlTyped
<1>8. CleanFlags' /\ (OwnPages(program) => CleanData')
  BY <1>1, <1>3, <1>4, <1>5, <1>6, PagesKeep
<1>9. Loading' /\ SavedOK' /\ Restoring'
  BY <1>1, <1>3 DEF Loading, SavedOK, Restoring
<1>10. QED
  BY <1>1, <1>3, <1>6, <1>7, <1>8, <1>9 DEF SnapshotInv

LEMMA LoadSyscallKeeps == SnapshotInv /\ LoadSyscall => SnapshotInv'
<1> SUFFICES ASSUME SnapshotInv, LoadSyscall PROVE SnapshotInv'
  OBVIOUS
<1>1. /\ MemoryTyped /\ TrackedTyped /\ ControlTyped /\ CleanFlags /\ SavedOK
      /\ (OwnPages(program) => CleanData) /\ pc = "run" /\ core < MaxSteps /\ left = NoEntries
  BY DEF SnapshotInv, LoadSyscall, Running
<1>2. PICK ld \in Loads, addr \in Addr, sizeAddr \in Addr : StoreBytes(ld, addr, sizeAddr)
  BY DEF LoadSyscall
<1>3. core' = core + 1 /\ UNCHANGED <<pc, program, done, snapshot, left>>
  BY DEF LoadSyscall
<1> DEFINE data == Loaded(ld.id, ld.offset, ld.length)
           n    == Len(data)
           sp   == PageIndices(sizeAddr, 1)
           ps   == PageIndices(addr, n) \cap Page
           mem1 == Written(mem, sizeAddr, <<"len">>)
           tr1  == Untracked(tracked, ps)
           fl0  == Dirtied(flags, sizeAddr, 1)
           fl1  == UntrackedFlags(fl0, ps)
           fl2  == Dirtied(fl1, addr, n)
<1>4. ld.id \in DOMAIN Source /\ ld.offset \in Nat /\ ld.length \in Nat
  BY SnapshotAssumption
<1>5. /\ n \in Nat /\ DOMAIN data = 1 .. n
      /\ n # 0 => ld.offset + n <= Len(Source[ld.id])
      /\ \A k \in 1 .. n : data[k] = Source[ld.id][ld.offset + k]
  BY <1>4, LoadedIs
<1>6. IF Permitted(fl1, addr, n)
      THEN /\ mem' = Written(mem1, addr, data)
           /\ tracked' = TrackedPages(tr1, fl2, addr, n, ld.id, ld.offset)
           /\ flags' = TrackedFlags(fl2, addr, n)
      ELSE mem' = mem1 /\ tracked' = tr1 /\ flags' = fl1
  BY <1>2 DEF StoreBytes
<1>7. /\ fl0 \in [Page -> SUBSET Flags]
      /\ \A p \in Page : fl0[p] = IF p \in sp THEN flags[p] \cup {"dirty"} ELSE flags[p]
  BY <1>1, DirtiedIs DEF MemoryTyped
<1> HIDE DEF data, n, fl0
<1>8. /\ fl1 \in [Page -> SUBSET Flags]
      /\ \A p \in Page : fl1[p] = IF p \in ps THEN fl0[p] \cup {"dirty"} ELSE fl0[p]
  BY <1>7 DEF UntrackedFlags, SetFlag, Flags
<1> HIDE DEF fl1
<1>9. /\ fl2 \in [Page -> SUBSET Flags]
      /\ \A p \in Page : fl2[p] = IF p \in ps THEN fl1[p] \cup {"dirty"} ELSE fl1[p]
  <2>1. /\ fl2 \in [Page -> SUBSET Flags]
        /\ \A p \in Page : fl2[p] = IF p \in PageIndices(addr, n) THEN fl1[p] \cup {"dirty"}
                                    ELSE fl1[p]
    <3>1. fl1 \in [Page -> SUBSET Flags]
      BY <1>8
    <3>2. fl2 \in [Page -> SUBSET Flags]
      BY <3>1, DirtiedIs
    <3>3. \A p \in Page : fl2[p] = IF p \in PageIndices(addr, n) THEN fl1[p] \cup {"dirty"}
                                    ELSE fl1[p]
      BY <3>1, DirtiedIs
    <3>4. QED
      BY <3>2, <3>3
  <2> HIDE DEF fl2
  <2>2. QED
    BY <2>1
<1>10. /\ DOMAIN tr1 = DOMAIN tracked \ ps /\ IsMap(tr1, DOMAIN tr1)
       /\ \A p \in DOMAIN tracked \ ps : tr1[p] = tracked[p]
  BY DEF Untracked, IsMap
<1>11. addr \in Nat /\ sizeAddr \in Nat /\ sizeAddr + 1 <= Size
  BY SizeIs DEF Addr
<1>12. /\ IsMap(mem1, Addr)
       /\ \A c \in Addr : PageOf(c) \notin sp => mem1[c] = mem[c]
  <2>1. DOMAIN <<"len">> = 1 .. 1
    OBVIOUS
  <2>2. StoredAt(mem1, mem, sizeAddr, 1, <<"len">>)
    BY <1>11, <2>1, WrittenIs
  <2>3. QED
    BY <2>2 DEF StoredAt
<1> HIDE DEF fl2, tr1, mem1, sp, ps
<1>13. ControlTyped'
  BY <1>1, <1>3, SnapshotAssumption DEF ControlTyped
<1>14. MemoryTyped' /\ TrackedTyped' /\ CleanFlags' /\ (OwnPages(program) => CleanData')
  <2>1. CASE Permitted(fl1, addr, n)
    <3> DEFINE cov == Covered(addr, n)
    <3>1. n # 0 => addr + n <= Size
      BY <2>1 DEF Permitted, NoOverflow
    <3>2. PageIndices(addr, n) = ps
      BY <1>5, <1>11, <3>1, PagesInMemory DEF ps
    <3>3. /\ IsMap(mem', Addr)
          /\ \A c \in Addr : PageOf(c) \notin ps => mem'[c] = mem1[c]
          /\ \A c \in Addr : c \in addr .. addr + n - 1 => mem'[c] = data[c - addr + 1]
      <4>1. StoredAt(Written(mem1, addr, data), mem1, addr, n, data)
        BY <1>5, <1>11, <3>1, WrittenIs
      <4>2. QED
        BY <1>6, <2>1, <3>2, <4>1 DEF StoredAt
    <3>4. /\ cov \subseteq Page /\ DOMAIN tracked' = DOMAIN tr1 \cup cov
          /\ IsMap(tracked', DOMAIN tracked') /\ flags' \in [Page -> SUBSET Flags]
          /\ \A p \in cov :
               /\ Tracking(tracked'[p]) /\ flags'[p] = tracked'[p].flag
               /\ tracked'[p].id = ld.id
               /\ tracked'[p].offset = ld.offset + p * PageCells - addr
          /\ \A p \in DOMAIN tr1 : p \notin cov => tracked'[p] = tr1[p]
          /\ \A p \in Page : p \notin cov => flags'[p] = fl2[p]
      <4>1. TrackedAt(TrackedPages(tr1, fl2, addr, n, ld.id, ld.offset), TrackedFlags(fl2, addr, n),
                      tr1, fl2, cov, addr, ld.id, ld.offset)
        BY <1>4, <1>5, <1>9, <1>11, TrackedPagesAre
      <4>2. QED
        BY <1>6, <2>1, <4>1 DEF TrackedAt
    <3>5. cov \subseteq ps
      <4>1. SUFFICES ASSUME NEW p \in cov PROVE p \in PageIndices(addr, n)
        BY <3>2
      <4>2. p \in Page /\ addr <= p * PageCells /\ (p + 1) * PageCells <= addr + n
        BY DEF Covered
      <4>3. p \in Nat /\ PageCells \in Nat \ {0} /\ p * PageCells \in Nat
            /\ (p + 1) * PageCells = p * PageCells + PageCells
        BY <4>2, SizeIs
      <4>4. n # 0 /\ addr < (p + 1) * PageCells /\ p * PageCells < addr + n
        BY <1>5, <1>11, <4>2, <4>3
      <4>5. QED
        BY <1>5, <1>11, <4>3, <4>4, PageIndicesAre
    <3>6. ASSUME NEW p \in cov PROVE PageHolds(mem', p, tracked'[p].id, tracked'[p].offset)
      <4>1. ASSUME NEW c \in Addr, c \in addr .. addr + n - 1
            PROVE  mem'[c] = Source[ld.id][ld.offset + c - addr + 1]
        <5>1. c \in Nat /\ c - addr + 1 \in 1 .. n
          <6>1. c \in Nat
            BY SizeIs
          <6>2. QED
            BY <1>5, <1>11, <4>1, <6>1
        <5>2. ld.offset + (c - addr + 1) = ld.offset + c - addr + 1
          BY <1>4, <1>11, <5>1
        <5>3. QED
          BY <1>5, <3>3, <4>1, <5>1, <5>2
      <4>2. PageHolds(mem', p, ld.id, ld.offset + p * PageCells - addr)
        BY <1>4, <1>5, <1>11, <4>1, CoveredPageHolds
      <4>3. QED
        BY <3>4, <4>2
    <3> HIDE DEF cov
    <3>7. MemoryTyped' /\ TrackedTyped'
      BY <1>1, <1>10, <3>3, <3>4 DEF MemoryTyped, TrackedTyped
    <3>8. \A p \in Page \cap (sp \cup ps) :
            \/ "dirty" \in flags'[p]
            \/ /\ p \in DOMAIN tracked' /\ flags'[p] = tracked'[p].flag
               /\ PageHolds(mem', p, tracked'[p].id, tracked'[p].offset)
      BY <1>7, <1>8, <1>9, <3>4, <3>6
    <3>9. \A p \in Page \ (sp \cup ps) :
            /\ flags'[p] = flags[p] /\ (p \in DOMAIN tracked' <=> p \in DOMAIN tracked)
            /\ \A c \in Addr : PageOf(c) = p => mem'[c] = mem[c]
            /\ p \in DOMAIN tracked => tracked'[p] = tracked[p]
      BY <1>7, <1>8, <1>9, <1>10, <1>12, <3>3, <3>4, <3>5
    <3>10. QED
      BY <1>1, <3>7, <3>8, <3>9, PagesKeep
  <2>2. CASE ~Permitted(fl1, addr, n)
    <3>1. mem' = mem1 /\ tracked' = tr1 /\ flags' = fl1
      BY <1>6, <2>2
    <3>2. MemoryTyped' /\ TrackedTyped'
      BY <1>1, <1>8, <1>10, <1>12, <3>1 DEF MemoryTyped, TrackedTyped
    <3>3. \A p \in Page \cap (sp \cup ps) : "dirty" \in flags'[p]
      BY <1>7, <1>8, <3>1
    <3>4. \A p \in Page \ (sp \cup ps) :
            /\ flags'[p] = flags[p] /\ (p \in DOMAIN tracked' <=> p \in DOMAIN tracked)
            /\ \A c \in Addr : PageOf(c) = p => mem'[c] = mem[c]
            /\ p \in DOMAIN tracked => tracked'[p] = tracked[p]
      BY <1>7, <1>8, <1>10, <1>12, <3>1
    <3>5. QED
      BY <1>1, <3>2, <3>3, <3>4, PagesKeep
  <2>3. QED
    BY <2>1, <2>2
<1>15. Loading' /\ SavedOK' /\ Restoring'
  BY <1>1, <1>3 DEF Loading, SavedOK, Restoring
<1>16. QED
  BY <1>1, <1>3, <1>13, <1>14, <1>15 DEF SnapshotInv

(***************************************************************************)
(* The runs of pages that make_snapshot joins                              *)
(***************************************************************************)
LEMMA LeastNat ==
  ASSUME NEW S \in SUBSET Nat, S # {}
  PROVE  \E m \in S : \A y \in S : m <= y
<1>1. PICK m \in S : \A y \in S : <<y, m>> \notin OpToRel(<, Nat)
  BY NatLessThanWellFounded, WFMin
<1>2. \A y \in S : ~ (y < m)
  BY <1>1 DEF OpToRel
<1>3. QED
  BY <1>2

(* Pages that may be joined to the next one.                               *)
Joins(ps, joined) ==
  /\ ps \subseteq Page /\ joined \subseteq ps
  /\ \A p \in joined : p + 1 \in ps

LEMMA RunIsInside ==
  ASSUME NEW ps, NEW joined, Joins(ps, joined), NEW r \in Runs(ps, joined)
  PROVE  /\ r[1] \in ps /\ r[2] \in ps /\ r = <<r[1], r[2]>>
         /\ r[1] \in Nat /\ r[2] \in Nat /\ r[1] <= r[2]
         /\ \A p \in r[1] .. r[2] - 1 : p \in joined
         /\ r[1] .. r[2] \subseteq ps /\ r[1] - 1 \notin joined /\ r[2] \notin joined
<1>1. /\ r[1] \in ps /\ r[2] \in ps /\ r = <<r[1], r[2]>> /\ r[1] <= r[2]
      /\ r[1] .. r[2] - 1 \subseteq joined /\ {r[1] - 1, r[2]} \cap joined = {}
  BY DEF Runs
<1>2. r[1] \in Nat /\ r[2] \in Nat
  BY <1>1, SizeIs DEF Joins
<1>3. ASSUME NEW p \in r[1] .. r[2] PROVE p \in ps
  <2>1. p = r[2] \/ p \in r[1] .. r[2] - 1
    BY <1>2
  <2>2. QED
    BY <1>1, <2>1 DEF Joins
<1>4. QED
  BY <1>1, <1>2, <1>3

LEMMA RunsMeetOnce ==
  ASSUME NEW ps, NEW joined, Joins(ps, joined), NEW r \in Runs(ps, joined),
         NEW q \in Runs(ps, joined), NEW p \in r[1] .. r[2], p \in q[1] .. q[2]
  PROVE  r = q
<1>1. /\ r[1] \in Nat /\ r[2] \in Nat /\ q[1] \in Nat /\ q[2] \in Nat
      /\ r = <<r[1], r[2]>> /\ q = <<q[1], q[2]>>
      /\ \A x \in r[1] .. r[2] - 1 : x \in joined
      /\ \A x \in q[1] .. q[2] - 1 : x \in joined
      /\ r[1] - 1 \notin joined /\ r[2] \notin joined /\ q[1] - 1 \notin joined /\ q[2] \notin joined
  BY RunIsInside
<1>2. ~ (r[1] < q[1])
  <2>1. r[1] < q[1] => q[1] - 1 \in r[1] .. r[2] - 1
    BY <1>1
  <2>2. QED
    BY <1>1, <2>1
<1>3. ~ (q[1] < r[1])
  <2>1. q[1] < r[1] => r[1] - 1 \in q[1] .. q[2] - 1
    BY <1>1
  <2>2. QED
    BY <1>1, <2>1
<1>4. ~ (r[2] < q[2])
  <2>1. r[2] < q[2] => r[2] \in q[1] .. q[2] - 1
    BY <1>1
  <2>2. QED
    BY <1>1, <2>1
<1>5. ~ (q[2] < r[2])
  <2>1. q[2] < r[2] => q[2] \in r[1] .. r[2] - 1
    BY <1>1
  <2>2. QED
    BY <1>1, <2>1
<1>6. r[1] = q[1] /\ r[2] = q[2]
  BY <1>1, <1>2, <1>3, <1>4, <1>5
<1>7. QED
  BY <1>1, <1>6

LEMMA EveryPageInRun ==
  ASSUME NEW ps, NEW joined, Joins(ps, joined), NEW p \in ps
  PROVE  \E r \in Runs(ps, joined) : p \in r[1] .. r[2]
<1>1. p \in Nat /\ p < NPages /\ NPages \in Nat /\ p - 1 \in Int
  BY SizeIs DEF Joins, Page
<1> DEFINE Starts == {a \in 0 .. p : a .. p - 1 \subseteq joined}
           Ends   == {k \in 0 .. NPages - p : p .. NPages - k - 1 \subseteq joined}
<1>2. PICK a \in Starts : \A y \in Starts : a <= y
  <2>1. Starts \in SUBSET Nat
    BY <1>1
  <2>2. p \in Starts
    BY <1>1
  <2> HIDE DEF Starts
  <2>3. QED
    BY <2>1, <2>2, LeastNat
<1>3. PICK k \in Ends : \A y \in Ends : k <= y
  <2>1. Ends \in SUBSET Nat
    BY <1>1
  <2>2. NPages - p \in Ends
    BY <1>1
  <2> HIDE DEF Ends
  <2>3. QED
    BY <2>1, <2>2, LeastNat
<1> DEFINE b == NPages - k
<1>4. a \in Nat /\ a <= p /\ a .. p - 1 \subseteq joined
  BY <1>1
<1>5. k \in Nat /\ b \in Nat /\ p <= b /\ p .. b - 1 \subseteq joined
  BY <1>1
<1>6. a - 1 \notin joined
  <2>1. SUFFICES ASSUME a - 1 \in joined PROVE FALSE
    OBVIOUS
  <2>2. a - 1 \in Nat
    BY <2>1, SizeIs DEF Joins
  <2>3. a - 1 \in 0 .. p /\ \A x \in a - 1 .. p - 1 : x = a - 1 \/ x \in a .. p - 1
    BY <1>1, <1>4, <2>2
  <2>4. a - 1 \in Starts
    BY <1>4, <2>1, <2>3
  <2>5. a <= a - 1
    BY <1>2, <2>4
  <2>6. QED
    BY <1>4, <2>5
<1>7. b \notin joined
  <2>1. SUFFICES ASSUME b \in joined PROVE FALSE
    OBVIOUS
  <2>2. b + 1 \in 0 .. NPages - 1
    BY <2>1 DEF Joins, Page
  <2>3. k - 1 \in 0 .. NPages - p /\ NPages - (k - 1) - 1 = b
        /\ \A x \in p .. b : x = b \/ x \in p .. b - 1
    BY <1>1, <1>5, <2>2
  <2>4. k - 1 \in Ends
    BY <1>5, <2>1, <2>3
  <2>5. k <= k - 1
    BY <1>3, <2>4
  <2>6. QED
    BY <1>5, <2>5
<1> HIDE DEF b
<1>8. a .. b - 1 \subseteq joined
  <2>1. \A x \in a .. b - 1 : x \in a .. p - 1 \/ x \in p .. b - 1
    BY <1>1, <1>4, <1>5
  <2>2. QED
    BY <1>4, <1>5, <2>1
<1>9. a \in ps
  <2>1. a = p \/ a \in a .. p - 1
    BY <1>1, <1>4
  <2>2. QED
    BY <1>4, <2>1 DEF Joins
<1>10. b \in ps
  <2>1. b = p \/ b - 1 \in p .. b - 1
    BY <1>1, <1>5
  <2>2. CASE b - 1 \in p .. b - 1
    <3>1. b - 1 + 1 \in ps
      BY <1>5, <2>2 DEF Joins
    <3>2. QED
      BY <1>5, <3>1
  <2>3. QED
    BY <2>1, <2>2
<1>11. <<a, b>> \in Runs(ps, joined) /\ p \in a .. b
  BY <1>1, <1>4, <1>5, <1>6, <1>7, <1>8, <1>9, <1>10 DEF Runs
<1>12. QED
  BY <1>11

(* What does not change from a page to the one joined to it is the same    *)
(* all along a run.                                                        *)
LEMMA AlongRun ==
  ASSUME NEW ps, NEW joined, Joins(ps, joined), NEW r \in Runs(ps, joined), NEW f,
         \A p \in joined : f[p + 1] = f[p]
  PROVE  \A p \in r[1] .. r[2] : f[p] = f[r[1]]
<1>1. r[1] \in Nat /\ r[2] \in Nat /\ r[1] <= r[2] /\ \A p \in r[1] .. r[2] - 1 : p \in joined
  BY RunIsInside
<1> DEFINE S == {p \in r[1] .. r[2] : f[p] # f[r[1]]}
<1>2. SUFFICES ASSUME S # {} PROVE FALSE
  OBVIOUS
<1>3. S \in SUBSET Nat
  BY <1>1
<1>4. PICK m \in S : \A y \in S : m <= y
  <2> HIDE DEF S
  <2>1. QED
    BY <1>2, <1>3, LeastNat
<1>5. m \in Nat /\ r[1] < m /\ m <= r[2] /\ f[m] # f[r[1]]
  BY <1>1
<1>6. m - 1 \in r[1] .. r[2] - 1 /\ m - 1 + 1 = m /\ m - 1 \in r[1] .. r[2]
  BY <1>1, <1>5
<1>7. f[m] = f[m - 1]
  BY <1>1, <1>6
<1>8. m - 1 \in S
  BY <1>5, <1>6, <1>7
<1>9. QED
  BY <1>4, <1>5, <1>8

(***************************************************************************)
(* Suspending                                                              *)
(***************************************************************************)
LEMMA WholePages ==
  ASSUME NEW a \in Page, NEW b \in Page, a <= b
  PROVE  /\ Aligned(a * PageCells, (b - a + 1) * PageCells)
         /\ PageIndices(a * PageCells, (b - a + 1) * PageCells) = a .. b
<1> DEFINE m == b - a + 1
           n == m * PageCells
<1>1. /\ PageCells \in Nat \ {0} /\ a \in Nat /\ b \in Nat /\ m \in Nat \ {0}
      /\ a + m = b + 1 /\ (b + 1) * PageCells <= Size
  BY SizeIs
<1>2. a * PageCells + m * PageCells = (a + m) * PageCells
  BY <1>1
<1>3. a * PageCells \in Nat /\ n \in Nat \ {0}
  BY <1>1
<1>4. (a * PageCells) % PageCells = 0 /\ (m * PageCells) % PageCells = 0
  BY <1>1
<1>5. Aligned(a * PageCells, n)
  BY <1>1, <1>2, <1>3, <1>4 DEF Aligned
<1>6. ASSUME NEW p \in Int PROVE p \in PageIndices(a * PageCells, n) <=> p \in a .. b
  <2>1. p \in PageIndices(a * PageCells, n) <=>
          a * PageCells < (p + 1) * PageCells /\ p * PageCells < (b + 1) * PageCells
    BY <1>1, <1>2, <1>3, PageIndicesAre
  <2>2. a * PageCells < (p + 1) * PageCells <=> a < p + 1
    BY <1>1
  <2>3. p * PageCells < (b + 1) * PageCells <=> p < b + 1
    BY <1>1
  <2>4. QED
    BY <1>1, <2>1, <2>2, <2>3
<1>7. PageIndices(a * PageCells, n) \subseteq Page
  BY <1>5, AlignedPages
<1>8. QED
  <2>1. \A p \in Page : p \in Int
    BY SizeIs
  <2>2. a .. b \subseteq Page
    BY SizeIs DEF Page
  <2>3. PageIndices(a * PageCells, n) = a .. b
    BY <1>6, <1>7, <2>1, <2>2
  <2>4. QED
    BY <1>5, <2>3

LEMMA MapIsData ==
  ASSUME NEW n \in Nat, NEW f, IsMap(f, 1 .. n)
  PROVE  IsData(f) /\ Len(f) = n
<1> DEFINE V == {f[k] : k \in 1 .. n}
<1>1. f \in [1 .. n -> V] /\ DOMAIN f = 1 .. n
  BY DEF IsMap
<1>2. f \in Seq(V)
  BY <1>1
<1>3. Len(f) = n
  <2> HIDE DEF V
  <2>1. QED
    BY <1>1, <1>2, LenProperties
<1>4. QED
  BY <1>1, <1>2, <1>3 DEF IsData

LEMMA PagesJoin ==
  ASSUME MemoryTyped, TrackedTyped
  PROVE  Joins(DirtyPages, DirtyJoined) /\ Joins(SourcedPages, SourcedJoined)
<1>1. Joins(DirtyPages, DirtyJoined)
  BY DEF Joins, DirtyPages, DirtyJoined
<1>2. Joins(SourcedPages, SourcedJoined)
  BY DEF Joins, SourcedPages, SourcedJoined, TrackedTyped
<1>3. QED
  BY <1>1, <1>2

(* An entry of dirty pages is what memory holds.                           *)
LEMMA DirtyEntryIs ==
  ASSUME MemoryTyped, TrackedTyped, NEW r \in Runs(DirtyPages, DirtyJoined)
  PROVE  LET e == DirtyEntry(r) IN
         /\ DirtyEntryOK(e) /\ DirtyPagesOf(e) = r[1] .. r[2]
         /\ \A p \in r[1] .. r[2] : flags[p] = e.flag
         /\ \A c \in Addr : PageOf(c) \in r[1] .. r[2] => e.content[c - e.addr + 1] = mem[c]
<1> DEFINE e == DirtyEntry(r)
           a == r[1] * PageCells
           n == (r[2] - r[1] + 1) * PageCells
<1>1. Joins(DirtyPages, DirtyJoined)
  BY PagesJoin
<1>2. /\ r[1] \in DirtyPages /\ r[2] \in DirtyPages /\ r[1] \in Nat /\ r[2] \in Nat
      /\ r[1] <= r[2] /\ r[1] .. r[2] \subseteq DirtyPages
  BY <1>1, RunIsInside
<1>3. r[1] \in Page /\ r[2] \in Page /\ flags[r[1]] \in SUBSET Flags /\ "dirty" \in flags[r[1]]
  BY <1>2 DEF DirtyPages, MemoryTyped
<1>4. Aligned(a, n) /\ PageIndices(a, n) = r[1] .. r[2]
  BY <1>2, <1>3, WholePages
<1>5. a \in Nat /\ n \in Nat
  BY <1>4 DEF Aligned
<1>6. e.addr = a /\ e.flag = flags[r[1]] /\ e.content = [k \in 1 .. n |-> mem[a + k - 1]]
  BY DEF DirtyEntry
<1> HIDE DEF a, n, e
<1>7. IsData(e.content) /\ Len(e.content) = n
  <2>1. IsMap(e.content, 1 .. n)
    BY <1>6 DEF IsMap
  <2>2. QED
    BY <1>5, <2>1, MapIsData
<1>8. DirtyEntryOK(e) /\ DirtyPagesOf(e) = r[1] .. r[2]
  BY <1>3, <1>4, <1>6, <1>7 DEF DirtyEntryOK, DirtyPagesOf
<1>9. \A p \in r[1] .. r[2] : flags[p] = e.flag
  <2>1. \A p \in DirtyJoined : flags[p + 1] = flags[p]
    BY DEF DirtyJoined, DirtyJoins
  <2>2. QED
    BY <1>1, <1>6, <2>1, AlongRun
<1>10. ASSUME NEW c \in Addr, PageOf(c) \in r[1] .. r[2]
       PROVE  e.content[c - e.addr + 1] = mem[c]
  <2>1. c \in a .. a + n - 1 /\ c \in Nat
    BY <1>4, <1>10, AlignedPages, SizeIs
  <2>2. c - a + 1 \in 1 .. n /\ a + (c - a + 1) - 1 = c
    BY <1>5, <2>1
  <2>3. QED
    BY <1>6, <2>2
<1>11. QED
  BY <1>8, <1>9, <1>10 DEF e

(* An entry of tracked pages is where the context says they come from.     *)
LEMMA SourcedEntryIs ==
  ASSUME MemoryTyped, TrackedTyped, NEW r \in Runs(SourcedPages, SourcedJoined)
  PROVE  LET e == SourcedEntry(r) IN
         /\ SourcedEntryOK(e) /\ SourcedPagesOf(e) = r[1] .. r[2]
         /\ \A p \in r[1] .. r[2] : tracked[p] = PieceOf(e, p)
<1> DEFINE e == SourcedEntry(r)
           a == r[1] * PageCells
           n == (r[2] - r[1] + 1) * PageCells
           t == tracked[r[1]]
           f == [p \in Page |-> <<tracked[p].flag, tracked[p].id, tracked[p].offset - p * PageCells>>]
<1>1. Joins(SourcedPages, SourcedJoined)
  BY PagesJoin
<1>2. /\ r[1] \in SourcedPages /\ r[2] \in SourcedPages /\ r[1] \in Nat /\ r[2] \in Nat
      /\ r[1] <= r[2] /\ r[1] .. r[2] \subseteq SourcedPages
  BY <1>1, RunIsInside
<1>3. SourcedPages \subseteq Page /\ SourcedPages \subseteq DOMAIN tracked
  BY DEF SourcedPages, TrackedTyped
<1>4. r[1] \in Page /\ r[2] \in Page
  BY <1>2, <1>3
<1>5. Aligned(a, n) /\ PageIndices(a, n) = r[1] .. r[2]
  BY <1>2, <1>4, WholePages
<1>6. a \in Nat /\ n \in Nat /\ PageCells \in Nat \ {0}
  BY <1>5, SizeIs DEF Aligned
<1>7. e = [addr |-> a, flag |-> t.flag, id |-> t.id, offset |-> t.offset, length |-> n]
  BY DEF SourcedEntry
<1>8. \A p \in r[1] .. r[2] : Tracking(tracked[p]) /\ p \in Page
  BY <1>2, <1>3 DEF TrackedTyped
<1>9. ASSUME NEW p \in r[1] .. r[2]
      PROVE  /\ tracked[p].flag = t.flag /\ tracked[p].id = t.id
             /\ tracked[p].offset - p * PageCells = t.offset - a
  <2>1. ASSUME NEW q \in SourcedJoined PROVE f[q + 1] = f[q]
    <3>1. /\ q \in SourcedPages /\ q + 1 \in SourcedPages
          /\ tracked[q].flag = tracked[q + 1].flag /\ tracked[q].id = tracked[q + 1].id
          /\ tracked[q].offset + PageCells = tracked[q + 1].offset
      BY DEF SourcedJoined, SourcedJoins
    <3>2. q \in Page /\ q + 1 \in Page /\ q \in Nat /\ tracked[q].offset \in Nat
      BY <1>3, <3>1, SizeIs DEF TrackedTyped, Tracking
    <3>3. q * PageCells \in Nat /\ (q + 1) * PageCells = q * PageCells + PageCells
      BY <1>6, <3>2
    <3>4. tracked[q + 1].offset - (q + 1) * PageCells = tracked[q].offset - q * PageCells
      BY <1>6, <3>1, <3>2, <3>3
    <3>5. QED
      BY <3>1, <3>2, <3>4
  <2> HIDE DEF f
  <2>2. f[p] = f[r[1]]
    BY <1>1, <2>1, AlongRun
  <2>3. QED
    BY <1>4, <1>8, <2>2 DEF f
<1> HIDE DEF e, a, n, t, f
<1>10. Tracking(t)
  BY <1>2, <1>8 DEF t
<1>11. /\ t.id \in DOMAIN Source /\ t.offset \in Nat /\ t.flag \in SUBSET KeptFlags
  BY <1>10 DEF Tracking
<1>12. t.offset + n <= Len(Source[t.id])
  <2>1. r[2] \in r[1] .. r[2]
    BY <1>2
  <2>2. Tracking(tracked[r[2]]) /\ tracked[r[2]].id = t.id
        /\ tracked[r[2]].offset - r[2] * PageCells = t.offset - a
    BY <1>8, <1>9, <2>1
  <2>3. /\ tracked[r[2]].offset \in Nat
        /\ tracked[r[2]].offset + PageCells <= Len(Source[t.id])
    BY <2>2 DEF Tracking
  <2>4. /\ n = (r[2] - r[1] + 1) * PageCells /\ a = r[1] * PageCells
    BY DEF n, a
  <2>5. n + a = r[2] * PageCells + PageCells /\ r[2] * PageCells \in Nat
    BY <1>2, <1>6, <2>4
  <2>6. IsData(Source[t.id]) /\ Len(Source[t.id]) \in Nat
    BY <1>11, SnapshotAssumption, DataIs
  <2> DEFINE x == tracked[r[2]].offset
             y == r[2] * PageCells
             z == Len(Source[t.id])
  <2>7. x \in Nat /\ x + PageCells <= z /\ z \in Nat /\ x - y = t.offset - a
        /\ n + a = y + PageCells /\ y \in Nat
    BY <2>2, <2>3, <2>5, <2>6
  <2> HIDE DEF x, y, z
  <2>8. t.offset + n <= z
    BY <1>6, <1>11, <2>7
  <2>9. QED
    BY <2>8 DEF z
<1>13. SourcedEntryOK(e) /\ SourcedPagesOf(e) = r[1] .. r[2]
  BY <1>5, <1>6, <1>7, <1>11, <1>12 DEF SourcedEntryOK, SourcedPagesOf
<1>14. ASSUME NEW p \in r[1] .. r[2] PROVE tracked[p] = PieceOf(e, p)
  <2>1. tracked[p] \in [id : DOMAIN Source, offset : Nat, flag : SUBSET KeptFlags]
    BY <1>8 DEF Tracking
  <2>2. p \in Nat /\ p * PageCells \in Nat
    BY <1>8, <1>6, SizeIs
  <2>3. tracked[p].offset = t.offset + p * PageCells - a
    BY <1>6, <1>9, <1>11, <2>1, <2>2
  <2>4. PieceOf(e, p) = [id |-> t.id, offset |-> t.offset + p * PageCells - a, flag |-> t.flag]
    BY <1>7 DEF PieceOf
  <2>5. QED
    BY <1>9, <2>1, <2>3, <2>4
<1>15. QED
  BY <1>13, <1>14 DEF e

LEMMA MakeSnapshotKeeps == SnapshotInv /\ MakeSnapshot => SnapshotInv'
<1> SUFFICES ASSUME SnapshotInv, MakeSnapshot PROVE SnapshotInv'
  OBVIOUS
<1>1. /\ MemoryTyped /\ TrackedTyped /\ ControlTyped /\ CleanFlags
      /\ (OwnPages(program) => CleanData) /\ pc = "run" /\ left = NoEntries
  BY DEF SnapshotInv, MakeSnapshot
<1>2. /\ snapshot' = [sourced |-> {SourcedEntry(r) : r \in Runs(SourcedPages, SourcedJoined)},
                      dirty   |-> {DirtyEntry(r) : r \in Runs(DirtyPages, DirtyJoined)},
                      core    |-> core]
      /\ UNCHANGED <<mem, flags, pc, program, done, core, tracked, left>>
  BY DEF MakeSnapshot
<1>3. MemoryTyped' /\ TrackedTyped' /\ ControlTyped' /\ CleanFlags'
      /\ (OwnPages(program) => CleanData')
  BY <1>1, <1>2 DEF MemoryTyped, TrackedTyped, ControlTyped, CleanFlags, CleanData
<1>4. Joins(DirtyPages, DirtyJoined) /\ Joins(SourcedPages, SourcedJoined)
  BY <1>1, PagesJoin
<1> DEFINE S == {SourcedEntry(r) : r \in Runs(SourcedPages, SourcedJoined)}
           D == {DirtyEntry(r) : r \in Runs(DirtyPages, DirtyJoined)}
<1>5. ASSUME NEW e \in S
      PROVE  \E r \in Runs(SourcedPages, SourcedJoined) :
               /\ e = SourcedEntry(r) /\ SourcedEntryOK(e) /\ SourcedPagesOf(e) = r[1] .. r[2]
               /\ r[1] .. r[2] \subseteq SourcedPages
  <2>1. PICK r \in Runs(SourcedPages, SourcedJoined) : e = SourcedEntry(r)
    OBVIOUS
  <2>2. r[1] .. r[2] \subseteq SourcedPages
    BY <1>4, RunIsInside
  <2>3. SourcedEntryOK(e) /\ SourcedPagesOf(e) = r[1] .. r[2]
    BY <1>1, <2>1, SourcedEntryIs
  <2>4. QED
    BY <2>1, <2>2, <2>3
<1>6. ASSUME NEW e \in D
      PROVE  \E r \in Runs(DirtyPages, DirtyJoined) :
               /\ e = DirtyEntry(r) /\ DirtyEntryOK(e) /\ DirtyPagesOf(e) = r[1] .. r[2]
               /\ r[1] .. r[2] \subseteq DirtyPages
  <2>1. PICK r \in Runs(DirtyPages, DirtyJoined) : e = DirtyEntry(r)
    OBVIOUS
  <2>2. r[1] .. r[2] \subseteq DirtyPages
    BY <1>4, RunIsInside
  <2>3. DirtyEntryOK(e) /\ DirtyPagesOf(e) = r[1] .. r[2]
    BY <1>1, <2>1, DirtyEntryIs
  <2>4. QED
    BY <2>1, <2>2, <2>3
<1> HIDE DEF S, D
<1>7. ASSUME NEW e \in S, NEW f \in S, e # f PROVE SourcedPagesOf(e) \cap SourcedPagesOf(f) = {}
  <2>1. PICK r \in Runs(SourcedPages, SourcedJoined) :
          e = SourcedEntry(r) /\ SourcedPagesOf(e) = r[1] .. r[2]
    BY <1>5
  <2>2. PICK q \in Runs(SourcedPages, SourcedJoined) :
          f = SourcedEntry(q) /\ SourcedPagesOf(f) = q[1] .. q[2]
    BY <1>5
  <2>3. ASSUME NEW p \in r[1] .. r[2], p \in q[1] .. q[2] PROVE FALSE
    <3>1. r = q
      BY <1>4, <2>3, RunsMeetOnce
    <3>2. QED
      BY <1>7, <2>1, <2>2, <3>1
  <2>4. QED
    BY <2>1, <2>2, <2>3
<1>8. ASSUME NEW e \in D, NEW f \in D, e # f PROVE DirtyPagesOf(e) \cap DirtyPagesOf(f) = {}
  <2>1. PICK r \in Runs(DirtyPages, DirtyJoined) :
          e = DirtyEntry(r) /\ DirtyPagesOf(e) = r[1] .. r[2]
    BY <1>6
  <2>2. PICK q \in Runs(DirtyPages, DirtyJoined) :
          f = DirtyEntry(q) /\ DirtyPagesOf(f) = q[1] .. q[2]
    BY <1>6
  <2>3. ASSUME NEW p \in r[1] .. r[2], p \in q[1] .. q[2] PROVE FALSE
    <3>1. r = q
      BY <1>4, <2>3, RunsMeetOnce
    <3>2. QED
      BY <1>8, <2>1, <2>2, <3>1
  <2>4. QED
    BY <2>1, <2>2, <2>3
<1>9. ASSUME NEW e \in S, NEW f \in D PROVE SourcedPagesOf(e) \cap DirtyPagesOf(f) = {}
  <2>1. SourcedPagesOf(e) \subseteq SourcedPages
    BY <1>5
  <2>2. DirtyPagesOf(f) \subseteq DirtyPages
    BY <1>6
  <2>3. QED
    BY <2>1, <2>2 DEF SourcedPages
<1>10. snapshot'.sourced = S /\ snapshot'.dirty = D /\ snapshot'.core = core
  BY <1>2 DEF S, D
<1>11. SnapshotOK(snapshot')
  <2>1. \A e \in S : SourcedEntryOK(e)
    BY <1>5
  <2>2. \A e \in D : DirtyEntryOK(e)
    BY <1>6
  <2>3. QED
    BY <1>1, <1>7, <1>8, <1>9, <1>10, <2>1, <2>2 DEF SnapshotOK, ControlTyped
<1>12. Loading' /\ SavedOK' /\ Restoring'
  BY <1>1, <1>2, <1>11 DEF Loading, SavedOK, Restoring
<1>13. QED
  BY <1>1, <1>2, <1>3, <1>12 DEF SnapshotInv

(***************************************************************************)
(* Resuming                                                                *)
(***************************************************************************)
LEMMA ResumeKeeps == SnapshotInv /\ Resume => SnapshotInv'
<1> SUFFICES ASSUME SnapshotInv, Resume PROVE SnapshotInv'
  OBVIOUS
<1>1. ControlTyped /\ SnapshotOK(snapshot) /\ snapshot # NoSnapshot
  BY DEF SnapshotInv, Resume, SavedOK
<1>2. /\ mem' = ZeroMem /\ flags' = NoFlags /\ tracked' = [p \in {} |-> 0]
      /\ core' = snapshot.core /\ pc' = "resume" /\ UNCHANGED <<program, done, snapshot>>
      /\ left' = [sourced |-> snapshot.sourced, dirty |-> snapshot.dirty]
  BY DEF Resume
<1>3. MemoryTyped'
  BY <1>2 DEF MemoryTyped, IsMap, ZeroMem, NoFlags
<1>4. TrackedTyped' /\ DOMAIN tracked' = {}
  BY <1>2 DEF TrackedTyped, IsMap
<1>5. ControlTyped'
  BY <1>1, <1>2 DEF ControlTyped, SnapshotOK
<1>6. left'.sourced = snapshot.sourced /\ left'.dirty = snapshot.dirty
  BY <1>2
<1>7. \A p \in Page : Fresh(mem', flags', p)
  BY <1>2 DEF Fresh, ZeroMem, NoFlags
<1>8. SourcedRestored' = {} /\ DirtyRestored' = {}
  BY <1>2, <1>6 DEF SourcedRestored, DirtyRestored
<1>9. Restoring'
  BY <1>1, <1>2, <1>4, <1>6, <1>7, <1>8 DEF Restoring
<1>10. SavedOK' /\ Loading'
  BY <1>1, <1>2 DEF SavedOK, Loading
<1>11. QED
  BY <1>2, <1>3, <1>4, <1>5, <1>9, <1>10 DEF SnapshotInv

(* The pages of an entry that is still to be restored are as they were     *)
(* made.                                                                   *)
LEMMA LeftPagesFresh ==
  ASSUME SnapshotInv, pc = "resume"
  PROVE  /\ \A e \in left.sourced : \A p \in SourcedPagesOf(e) :
              p \notin DOMAIN tracked /\ Fresh(mem, flags, p)
         /\ \A e \in left.dirty : \A p \in DirtyPagesOf(e) :
              p \notin DOMAIN tracked /\ Fresh(mem, flags, p)
<1>1. /\ SnapshotOK(snapshot)
      /\ left.sourced \subseteq snapshot.sourced /\ left.dirty \subseteq snapshot.dirty
      /\ \A p \in Page :
           \/ \E e \in SourcedRestored : p \in SourcedPagesOf(e)
           \/ \E e \in DirtyRestored : p \in DirtyPagesOf(e)
           \/ p \notin DOMAIN tracked /\ Fresh(mem, flags, p)
  BY DEF SnapshotInv, Restoring, SavedOK
<1>2. ASSUME NEW e \in left.sourced, NEW p \in SourcedPagesOf(e)
      PROVE  p \notin DOMAIN tracked /\ Fresh(mem, flags, p)
  <2>1. e \in snapshot.sourced /\ e \notin SourcedRestored
    BY <1>1 DEF SourcedRestored
  <2>2. p \in Page
    BY <1>1, <2>1, AlignedPages DEF SnapshotOK, SourcedEntryOK, SourcedPagesOf
  <2>3. ~ \E f \in SourcedRestored : p \in SourcedPagesOf(f)
    BY <1>1, <2>1 DEF SnapshotOK, SourcedRestored
  <2>4. ~ \E f \in DirtyRestored : p \in DirtyPagesOf(f)
    BY <1>1, <2>1 DEF SnapshotOK, DirtyRestored
  <2>5. QED
    BY <1>1, <2>2, <2>3, <2>4
<1>3. ASSUME NEW e \in left.dirty, NEW p \in DirtyPagesOf(e)
      PROVE  p \notin DOMAIN tracked /\ Fresh(mem, flags, p)
  <2>1. e \in snapshot.dirty /\ e \notin DirtyRestored
    BY <1>1 DEF DirtyRestored
  <2>2. p \in Page
    BY <1>1, <2>1, AlignedPages DEF SnapshotOK, DirtyEntryOK, DirtyPagesOf
  <2>3. ~ \E f \in SourcedRestored : p \in SourcedPagesOf(f)
    BY <1>1, <2>1 DEF SnapshotOK, SourcedRestored
  <2>4. ~ \E f \in DirtyRestored : p \in DirtyPagesOf(f)
    BY <1>1, <2>1 DEF SnapshotOK, DirtyRestored
  <2>5. QED
    BY <1>1, <2>2, <2>3, <2>4
<1>4. QED
  BY <1>2, <1>3

LEMMA RestoreSourcedKeeps == SnapshotInv /\ RestoreSourced => SnapshotInv'
<1> SUFFICES ASSUME SnapshotInv, RestoreSourced PROVE SnapshotInv'
  OBVIOUS
<1>1. /\ MemoryTyped /\ TrackedTyped /\ ControlTyped /\ Restoring /\ pc = "resume"
      /\ snapshot # NoSnapshot /\ SnapshotOK(snapshot) /\ core = snapshot.core
      /\ left = [sourced |-> left.sourced, dirty |-> left.dirty]
      /\ left.sourced \subseteq snapshot.sourced /\ left.dirty \subseteq snapshot.dirty
  BY DEF SnapshotInv, RestoreSourced, Restoring, SavedOK
<1>2. PICK e \in left.sourced :
        LET data == Loaded(e.id, e.offset, e.length)
            n    == Len(data)
            fl1  == SetFlag(Dirtied(flags, e.addr, n), PageIndices(e.addr, n), e.flag)
        IN  /\ mem'     = Written(mem, e.addr, data)
            /\ tracked' = TrackedPages(tracked, fl1, e.addr, n, e.id, e.offset)
            /\ flags'   = TrackedFlags(fl1, e.addr, n)
            /\ left'    = [left EXCEPT !.sourced = @ \ {e}]
  BY DEF RestoreSourced
<1>3. UNCHANGED <<pc, program, done, core, snapshot>>
  BY DEF RestoreSourced
<1> DEFINE data == Loaded(e.id, e.offset, e.length)
           n    == e.length
           ps   == SourcedPagesOf(e)
           fl1  == SetFlag(Dirtied(flags, e.addr, n), ps, e.flag)
<1>4. SourcedEntryOK(e) /\ e \in snapshot.sourced
  BY <1>1 DEF SnapshotOK
<1>5. /\ e.addr \in Nat /\ n \in Nat \ {0} /\ e.flag \in SUBSET KeptFlags
      /\ e.id \in DOMAIN Source /\ e.offset \in Nat
      /\ e.addr + n <= Size /\ e.offset + n <= Len(Source[e.id])
      /\ Aligned(e.addr, n)
  BY <1>4 DEF SourcedEntryOK, Aligned
<1>6. /\ Len(data) = n /\ DOMAIN data = 1 .. n
      /\ \A k \in 1 .. n : data[k] = Source[e.id][e.offset + k]
  BY <1>5, LoadedIs
<1>7. /\ mem'     = Written(mem, e.addr, data)
      /\ tracked' = TrackedPages(tracked, fl1, e.addr, n, e.id, e.offset)
      /\ flags'   = TrackedFlags(fl1, e.addr, n)
      /\ left'    = [left EXCEPT !.sourced = @ \ {e}]
  BY <1>2, <1>6 DEF SourcedPagesOf
<1>8. ps \subseteq Page /\ Covered(e.addr, n) = ps
  BY <1>5, AlignedPages DEF SourcedPagesOf
<1>9. \A p \in ps : p \notin DOMAIN tracked /\ Fresh(mem, flags, p)
  BY <1>1, LeftPagesFresh
<1>10. /\ fl1 \in [Page -> SUBSET Flags]
       /\ \A p \in Page : fl1[p] = IF p \in ps THEN {"dirty"} \cup e.flag ELSE flags[p]
  <2>1. Dirtied(flags, e.addr, n) \in [Page -> SUBSET Flags]
    BY <1>1, DirtiedIs DEF MemoryTyped
  <2>2. \A p \in Page : Dirtied(flags, e.addr, n)[p] =
          IF p \in ps THEN flags[p] \cup {"dirty"} ELSE flags[p]
    BY <1>1, DirtiedIs DEF MemoryTyped, SourcedPagesOf
  <2>3. \A p \in ps : flags[p] = {}
    BY <1>9 DEF Fresh
  <2>4. e.flag \in SUBSET Flags
    BY <1>5 DEF KeptFlags, Flags
  <2> HIDE DEF n, ps
  <2>5. QED
    BY <2>1, <2>2, <2>3, <2>4 DEF SetFlag
<1> HIDE DEF fl1, data, n, ps
<1>11. /\ IsMap(mem', Addr)
       /\ \A c \in Addr : PageOf(c) \notin ps => mem'[c] = mem[c]
       /\ \A c \in Addr : c \in e.addr .. e.addr + n - 1 => mem'[c] = data[c - e.addr + 1]
  <2>1. StoredAt(Written(mem, e.addr, data), mem, e.addr, n, data)
    BY <1>5, <1>6, WrittenIs
  <2>2. QED
    BY <1>7, <2>1 DEF StoredAt, ps, n, SourcedPagesOf
<1>12. /\ DOMAIN tracked' = DOMAIN tracked \cup ps /\ IsMap(tracked', DOMAIN tracked')
       /\ flags' \in [Page -> SUBSET Flags]
       /\ \A p \in ps :
            /\ Tracking(tracked'[p]) /\ flags'[p] = tracked'[p].flag
            /\ tracked'[p].flag = e.flag
            /\ tracked'[p] = PieceOf(e, p)
       /\ \A p \in DOMAIN tracked : p \notin ps => tracked'[p] = tracked[p]
       /\ \A p \in Page : p \notin ps => flags'[p] = flags[p]
  <2>1. TrackedAt(TrackedPages(tracked, fl1, e.addr, n, e.id, e.offset),
                  TrackedFlags(fl1, e.addr, n), tracked, fl1, ps, e.addr, e.id, e.offset)
    BY <1>5, <1>8, <1>10, TrackedPagesAre
  <2>2. \A p \in ps : fl1[p] \ {"dirty"} = e.flag
    BY <1>5, <1>8, <1>10 DEF KeptFlags
  <2>3. QED
    BY <1>7, <1>8, <1>10, <2>1, <2>2 DEF TrackedAt, PieceOf
<1>13. ASSUME NEW p \in ps PROVE PageHolds(mem', p, tracked'[p].id, tracked'[p].offset)
  <2>1. ASSUME NEW c \in Addr, c \in e.addr .. e.addr + n - 1
        PROVE  mem'[c] = Source[e.id][e.offset + c - e.addr + 1]
    <3>1. c \in Nat
      BY SizeIs
    <3>2. c - e.addr + 1 \in 1 .. n /\ e.offset + (c - e.addr + 1) = e.offset + c - e.addr + 1
      BY <1>5, <2>1, <3>1
    <3>3. QED
      BY <1>6, <1>11, <2>1, <3>2
  <2>2. PageHolds(mem', p, e.id, e.offset + p * PageCells - e.addr)
    BY <1>5, <1>8, <2>1, CoveredPageHolds
  <2>3. QED
    BY <1>12, <2>2 DEF PieceOf
<1>14. /\ left'.sourced = left.sourced \ {e} /\ left'.dirty = left.dirty
       /\ left' = [sourced |-> left'.sourced, dirty |-> left'.dirty]
  BY <1>1, <1>7
<1>15. /\ SourcedRestored' = SourcedRestored \cup {e} /\ DirtyRestored' = DirtyRestored
       /\ e \notin SourcedRestored
  BY <1>3, <1>4, <1>14 DEF SourcedRestored, DirtyRestored
<1>16. MemoryTyped' /\ TrackedTyped'
  BY <1>1, <1>8, <1>11, <1>12 DEF MemoryTyped, TrackedTyped
<1>17. ControlTyped'
  BY <1>1, <1>3 DEF ControlTyped
<1>18. ASSUME NEW f \in SourcedRestored', NEW p \in SourcedPagesOf(f)
       PROVE  /\ p \in DOMAIN tracked' /\ tracked'[p] = PieceOf(f, p) /\ flags'[p] = f.flag
              /\ PageHolds(mem', p, tracked'[p].id, tracked'[p].offset)
  <2>1. CASE f = e
    BY <1>12, <1>13, <2>1 DEF ps
  <2>2. CASE f # e
    <3>1. f \in SourcedRestored /\ f \in snapshot.sourced
      BY <1>15, <2>2 DEF SourcedRestored
    <3>2. p \notin ps
      BY <1>1, <1>4, <2>2, <3>1 DEF SnapshotOK, ps
    <3>3. /\ p \in DOMAIN tracked /\ tracked[p] = PieceOf(f, p) /\ flags[p] = f.flag
          /\ PageHolds(mem, p, tracked[p].id, tracked[p].offset)
      BY <1>1, <3>1 DEF Restoring
    <3>4. p \in Page
      BY <1>1, <3>3 DEF TrackedTyped
    <3>5. QED
      BY <1>11, <1>12, <3>2, <3>3, <3>4 DEF PageHolds
  <2>3. QED
    BY <2>1, <2>2
<1>19. ASSUME NEW f \in DirtyRestored', NEW p \in DirtyPagesOf(f)
       PROVE  /\ p \notin DOMAIN tracked' /\ flags'[p] = f.flag
              /\ \A c \in Addr : PageOf(c) = p => mem'[c] = f.content[c - f.addr + 1]
  <2>1. f \in DirtyRestored /\ f \in snapshot.dirty
    BY <1>15 DEF DirtyRestored
  <2>2. p \notin ps
    BY <1>1, <1>4, <2>1 DEF SnapshotOK, ps
  <2>3. /\ p \notin DOMAIN tracked /\ flags[p] = f.flag
        /\ \A c \in Addr : PageOf(c) = p => mem[c] = f.content[c - f.addr + 1]
    BY <1>1, <2>1 DEF Restoring
  <2>4. p \in Page
    BY <1>1, <2>1, AlignedPages DEF SnapshotOK, DirtyEntryOK, DirtyPagesOf
  <2>5. QED
    BY <1>11, <1>12, <2>2, <2>3, <2>4
<1>20. ASSUME NEW p \in Page
       PROVE  \/ \E f \in SourcedRestored' : p \in SourcedPagesOf(f)
              \/ \E f \in DirtyRestored' : p \in DirtyPagesOf(f)
              \/ p \notin DOMAIN tracked' /\ Fresh(mem', flags', p)
  <2>1. CASE p \in ps
    BY <1>15, <2>1 DEF ps
  <2>2. CASE p \notin ps
    <3>1. \/ \E f \in SourcedRestored : p \in SourcedPagesOf(f)
          \/ \E f \in DirtyRestored : p \in DirtyPagesOf(f)
          \/ p \notin DOMAIN tracked /\ Fresh(mem, flags, p)
      BY <1>1 DEF Restoring
    <3>2. Fresh(mem, flags, p) => Fresh(mem', flags', p)
      BY <1>11, <1>12, <2>2 DEF Fresh
    <3>3. QED
      BY <1>12, <1>15, <2>2, <3>1, <3>2
  <2>3. QED
    BY <2>1, <2>2
<1>21. left'.sourced # {} => left'.dirty = snapshot'.dirty
  BY <1>1, <1>3, <1>14 DEF Restoring
<1>22. Restoring'
  BY <1>1, <1>3, <1>14, <1>18, <1>19, <1>20, <1>21 DEF Restoring
<1>23. SavedOK' /\ Loading'
  BY <1>1, <1>3 DEF SavedOK, Loading
<1>24. QED
  BY <1>1, <1>3, <1>16, <1>17, <1>22, <1>23 DEF SnapshotInv

LEMMA RestoreDirtyKeeps == SnapshotInv /\ RestoreDirty => SnapshotInv'
<1> SUFFICES ASSUME SnapshotInv, RestoreDirty PROVE SnapshotInv'
  OBVIOUS
<1>1. /\ MemoryTyped /\ TrackedTyped /\ ControlTyped /\ Restoring /\ pc = "resume"
      /\ snapshot # NoSnapshot /\ SnapshotOK(snapshot) /\ core = snapshot.core
      /\ left = [sourced |-> left.sourced, dirty |-> left.dirty] /\ left.sourced = {}
      /\ left.sourced \subseteq snapshot.sourced /\ left.dirty \subseteq snapshot.dirty
  BY DEF SnapshotInv, RestoreDirty, Restoring, SavedOK
<1>2. PICK e \in left.dirty :
        /\ mem'   = Written(mem, e.addr, e.content)
        /\ flags' = SetFlag(Dirtied(flags, e.addr, Len(e.content)), DirtyPagesOf(e), e.flag)
        /\ left'  = [left EXCEPT !.dirty = @ \ {e}]
  BY DEF RestoreDirty, DirtyPagesOf
<1>3. UNCHANGED <<pc, program, done, core, tracked, snapshot>>
  BY DEF RestoreDirty
<1> DEFINE n  == Len(e.content)
           ps == DirtyPagesOf(e)
<1>4. DirtyEntryOK(e) /\ e \in snapshot.dirty
  BY <1>1 DEF SnapshotOK
<1>5. /\ e.addr \in Nat /\ n \in Nat \ {0} /\ e.flag \in SUBSET Flags /\ "dirty" \in e.flag
      /\ e.addr + n <= Size /\ Aligned(e.addr, n) /\ DOMAIN e.content = 1 .. n
  BY <1>4, DataIs DEF DirtyEntryOK, Aligned
<1>6. /\ ps \subseteq Page
      /\ \A c \in Addr : c \in e.addr .. e.addr + n - 1 <=> PageOf(c) \in ps
  BY <1>5, AlignedPages DEF DirtyPagesOf
<1>7. \A p \in ps : p \notin DOMAIN tracked /\ Fresh(mem, flags, p)
  BY <1>1, LeftPagesFresh
<1>8. /\ flags' \in [Page -> SUBSET Flags]
      /\ \A p \in Page : flags'[p] = IF p \in ps THEN e.flag ELSE flags[p]
  <2> DEFINE fl1 == Dirtied(flags, e.addr, n)
  <2>1. /\ fl1 \in [Page -> SUBSET Flags]
        /\ \A p \in Page : fl1[p] = IF p \in PageIndices(e.addr, n) THEN flags[p] \cup {"dirty"} ELSE flags[p]
    <3>1. flags \in [Page -> SUBSET Flags]
      BY <1>1 DEF MemoryTyped
    <3>2. QED
      BY <3>1, DirtiedIs
  <2>2. \A p \in Page : fl1[p] = IF p \in ps THEN flags[p] \cup {"dirty"} ELSE flags[p]
    <3>1. ps = PageIndices(e.addr, n)
      BY DEF DirtyPagesOf
    <3>2. QED
      BY <2>1, <3>1
  <2>3. \A p \in ps : flags[p] = {}
    BY <1>7 DEF Fresh
  <2>4. flags' = SetFlag(fl1, ps, e.flag)
    BY <1>2
  <2> HIDE DEF fl1, ps, n
  <2>5. QED
    BY <1>5, <2>1, <2>2, <2>3, <2>4 DEF SetFlag
<1> HIDE DEF n, ps
<1>9. /\ IsMap(mem', Addr)
      /\ \A c \in Addr : PageOf(c) \notin ps => mem'[c] = mem[c]
      /\ \A c \in Addr : PageOf(c) \in ps => mem'[c] = e.content[c - e.addr + 1]
  <2>1. StoredAt(Written(mem, e.addr, e.content), mem, e.addr, n, e.content)
    BY <1>5, WrittenIs
  <2>2. QED
    BY <1>2, <1>6, <2>1 DEF StoredAt
<1>10. /\ left'.sourced = {} /\ left'.dirty = left.dirty \ {e}
       /\ left' = [sourced |-> left'.sourced, dirty |-> left'.dirty]
  BY <1>1, <1>2
<1>11. /\ SourcedRestored' = SourcedRestored /\ DirtyRestored' = DirtyRestored \cup {e}
  BY <1>1, <1>3, <1>4, <1>10 DEF SourcedRestored, DirtyRestored
<1>12. MemoryTyped' /\ TrackedTyped'
  BY <1>1, <1>3, <1>8, <1>9 DEF MemoryTyped, TrackedTyped, Tracking
<1>13. ControlTyped'
  BY <1>1, <1>3 DEF ControlTyped
<1>14. ASSUME NEW f \in SourcedRestored', NEW p \in SourcedPagesOf(f)
       PROVE  /\ p \in DOMAIN tracked' /\ tracked'[p] = PieceOf(f, p) /\ flags'[p] = f.flag
              /\ PageHolds(mem', p, tracked'[p].id, tracked'[p].offset)
  <2>1. f \in SourcedRestored /\ f \in snapshot.sourced
    BY <1>11 DEF SourcedRestored
  <2>2. p \notin ps
    BY <1>1, <1>4, <2>1 DEF SnapshotOK, ps
  <2>3. /\ p \in DOMAIN tracked /\ tracked[p] = PieceOf(f, p) /\ flags[p] = f.flag
        /\ PageHolds(mem, p, tracked[p].id, tracked[p].offset)
    BY <1>1, <2>1 DEF Restoring
  <2>4. p \in Page
    BY <1>1, <2>3 DEF TrackedTyped
  <2>5. QED
    BY <1>3, <1>8, <1>9, <2>2, <2>3, <2>4 DEF PageHolds
<1>15. ASSUME NEW f \in DirtyRestored', NEW p \in DirtyPagesOf(f)
       PROVE  /\ p \notin DOMAIN tracked' /\ flags'[p] = f.flag
              /\ \A c \in Addr : PageOf(c) = p => mem'[c] = f.content[c - f.addr + 1]
  <2>1. CASE f = e
    <3>1. p \in ps
      BY <2>1 DEF ps
    <3>2. QED
      BY <1>3, <1>6, <1>7, <1>8, <1>9, <2>1, <3>1
  <2>2. CASE f # e
    <3>1. f \in DirtyRestored /\ f \in snapshot.dirty
      BY <1>11, <2>2 DEF DirtyRestored
    <3>2. p \notin ps
      BY <1>1, <1>4, <2>2, <3>1 DEF SnapshotOK, ps
    <3>3. /\ p \notin DOMAIN tracked /\ flags[p] = f.flag
          /\ \A c \in Addr : PageOf(c) = p => mem[c] = f.content[c - f.addr + 1]
      BY <1>1, <3>1 DEF Restoring
    <3>4. p \in Page
      BY <1>1, <3>1, AlignedPages DEF SnapshotOK, DirtyEntryOK, DirtyPagesOf
    <3>5. QED
      BY <1>3, <1>8, <1>9, <3>2, <3>3, <3>4
  <2>3. QED
    BY <2>1, <2>2
<1>16. ASSUME NEW p \in Page
       PROVE  \/ \E f \in SourcedRestored' : p \in SourcedPagesOf(f)
              \/ \E f \in DirtyRestored' : p \in DirtyPagesOf(f)
              \/ p \notin DOMAIN tracked' /\ Fresh(mem', flags', p)
  <2>1. CASE p \in ps
    BY <1>11, <2>1 DEF ps
  <2>2. CASE p \notin ps
    <3>1. \/ \E f \in SourcedRestored : p \in SourcedPagesOf(f)
          \/ \E f \in DirtyRestored : p \in DirtyPagesOf(f)
          \/ p \notin DOMAIN tracked /\ Fresh(mem, flags, p)
      BY <1>1 DEF Restoring
    <3>2. Fresh(mem, flags, p) => Fresh(mem', flags', p)
      BY <1>8, <1>9, <2>2 DEF Fresh
    <3>3. QED
      BY <1>3, <1>11, <3>1, <3>2
  <2>3. QED
    BY <2>1, <2>2
<1>17. Restoring'
  BY <1>1, <1>3, <1>10, <1>14, <1>15, <1>16 DEF Restoring
<1>18. SavedOK' /\ Loading'
  BY <1>1, <1>3 DEF SavedOK, Loading
<1>19. QED
  BY <1>1, <1>3, <1>12, <1>13, <1>17, <1>18 DEF SnapshotInv

LEMMA ResumedKeeps == SnapshotInv /\ Resumed => SnapshotInv'
<1> SUFFICES ASSUME SnapshotInv, Resumed PROVE SnapshotInv'
  OBVIOUS
<1>1. /\ MemoryTyped /\ TrackedTyped /\ ControlTyped /\ Restoring /\ pc = "resume"
      /\ left = NoEntries /\ SnapshotOK(snapshot)
  BY DEF SnapshotInv, Resumed, Restoring, SavedOK
<1>2. pc' = "run" /\ UNCHANGED <<mem, flags, program, done, core, tracked, snapshot, left>>
  BY DEF Resumed
<1>3. ASSUME NEW p \in Page, "dirty" \notin flags[p]
      PROVE  IF p \in DOMAIN tracked
             THEN /\ flags[p] = tracked[p].flag
                  /\ PageHolds(mem, p, tracked[p].id, tracked[p].offset)
             ELSE Fresh(mem, flags, p)
  <2>1. \/ \E e \in SourcedRestored : p \in SourcedPagesOf(e)
        \/ \E e \in DirtyRestored : p \in DirtyPagesOf(e)
        \/ p \notin DOMAIN tracked /\ Fresh(mem, flags, p)
    BY <1>1 DEF Restoring
  <2>2. ASSUME NEW e \in SourcedRestored, p \in SourcedPagesOf(e)
        PROVE  /\ p \in DOMAIN tracked /\ flags[p] = tracked[p].flag
               /\ PageHolds(mem, p, tracked[p].id, tracked[p].offset)
    <3>1. /\ p \in DOMAIN tracked /\ tracked[p] = PieceOf(e, p) /\ flags[p] = e.flag
          /\ PageHolds(mem, p, tracked[p].id, tracked[p].offset)
      BY <1>1, <2>2 DEF Restoring
    <3>2. QED
      BY <3>1 DEF PieceOf
  <2>3. ASSUME NEW e \in DirtyRestored, p \in DirtyPagesOf(e) PROVE FALSE
    <3>1. flags[p] = e.flag
      BY <1>1, <2>3 DEF Restoring
    <3>2. "dirty" \in e.flag
      BY <1>1 DEF SnapshotOK, DirtyEntryOK, DirtyRestored
    <3>3. QED
      BY <1>3, <3>1, <3>2
  <2>4. QED
    BY <2>1, <2>2, <2>3
<1>4. CleanFlags'
  BY <1>2, <1>3 DEF CleanFlags
<1>5. CleanData'
  BY <1>1, <1>2, <1>3 DEF CleanData, TrackedTyped
<1>6. MemoryTyped' /\ TrackedTyped' /\ ControlTyped' /\ SavedOK' /\ Loading' /\ Restoring'
  BY <1>1, <1>2 DEF MemoryTyped, TrackedTyped, ControlTyped, SavedOK, Loading, Restoring
<1>7. QED
  BY <1>1, <1>2, <1>4, <1>5, <1>6 DEF SnapshotInv

LEMMA SnapshotStep == SnapshotInv /\ [Next]_vars => SnapshotInv'
<1> SUFFICES ASSUME SnapshotInv, [Next]_vars PROVE SnapshotInv'
  OBVIOUS
<1>1. CASE LoadSegment
  BY <1>1, LoadSegmentKeeps
<1>2. CASE SegmentRefused
  BY <1>2, DropKeeps DEF SegmentRefused
<1>3. CASE InitializeStack
  BY <1>3, InitializeStackKeeps
<1>4. CASE StackRefused
  BY <1>4, DropKeeps DEF StackRefused
<1>5. CASE MarkSegment
  BY <1>5, MarkSegmentKeeps
<1>6. CASE Marked
  BY <1>6, MarkedKeeps
<1>7. CASE Store
  BY <1>7, StoreKeeps
<1>8. CASE LoadSyscall
  BY <1>8, LoadSyscallKeeps
<1>9. CASE MakeSnapshot
  BY <1>9, MakeSnapshotKeeps
<1>10. CASE Resume
  BY <1>10, ResumeKeeps
<1>11. CASE RestoreSourced
  BY <1>11, RestoreSourcedKeeps
<1>12. CASE RestoreDirty
  BY <1>12, RestoreDirtyKeeps
<1>13. CASE Resumed
  BY <1>13, ResumedKeeps
<1>14. CASE UNCHANGED vars
  <2> USE <1>14 DEF vars
  <2>1. MemoryTyped' /\ TrackedTyped' /\ ControlTyped'
    BY DEF SnapshotInv, MemoryTyped, TrackedTyped, ControlTyped
  <2>2. pc' \in {"load", "mark", "run"} => CleanFlags' /\ (OwnPages(program') => CleanData')
    BY DEF SnapshotInv, CleanFlags, CleanData
  <2>3. Loading' /\ SavedOK'
    BY DEF SnapshotInv, Loading, SavedOK, Placed
  <2>4. Restoring'
    BY DEF SnapshotInv, Restoring, SourcedRestored, DirtyRestored
  <2>5. QED
    BY <2>1, <2>2, <2>3, <2>4 DEF SnapshotInv
<1>15. QED
  BY <1>1, <1>2, <1>3, <1>4, <1>5, <1>6, <1>7, <1>8, <1>9, <1>10, <1>11, <1>12, <1>13, <1>14
     DEF Next, Load, Dropped

(***************************************************************************)
(* What the invariant says of the checked properties                       *)
(***************************************************************************)
LEMMA CellOfPage ==
  ASSUME NEW p \in Page, NEW k \in 1 .. PageCells
  PROVE  p * PageCells + k - 1 \in Addr /\ PageOf(p * PageCells + k - 1) = p
<1> DEFINE c == p * PageCells + k - 1
<1>1. /\ PageCells \in Nat \ {0} /\ p \in Nat /\ p * PageCells \in Nat
      /\ (p + 1) * PageCells = p * PageCells + PageCells /\ (p + 1) * PageCells <= Size
      /\ Size \in Nat
  BY SizeIs
<1>2. c \in Nat /\ p * PageCells <= c /\ c < (p + 1) * PageCells
  BY <1>1
<1> HIDE DEF c
<1>3. PageOf(c) \in Nat /\ p <= PageOf(c) /\ PageOf(c) <= p
  BY <1>1, <1>2, PageOfIs
<1>4. c \in Addr /\ PageOf(c) = p
  BY <1>1, <1>2, <1>3 DEF Addr
<1>5. QED
  BY <1>4 DEF c

LEMMA EntriesTyped ==
  ASSUME NEW e, SourcedEntryOK(e)
  PROVE  e \in SourcedEntries
<1>1. e \in [addr : Nat, flag : SUBSET KeptFlags, id : DOMAIN Source, offset : Nat, length : Nat]
  BY DEF SourcedEntryOK
<1>2. e.addr \in Addr
  <2>1. e.addr \in Nat /\ e.length \in Nat \ {0} /\ e.addr + e.length <= Size /\ Size \in Nat
    BY SizeIs DEF SourcedEntryOK, Aligned
  <2>2. QED
    BY <2>1 DEF Addr
<1>3. e.flag \in SUBSET Flags
  BY <1>1 DEF KeptFlags, Flags
<1>4. QED
  BY <1>1, <1>2, <1>3 DEF SourcedEntries

LEMMA InvTypeOK == SnapshotInv => SnapshotTypeOK
<1> SUFFICES ASSUME SnapshotInv PROVE SnapshotTypeOK
  OBVIOUS
<1>1. DOMAIN mem = Addr /\ flags \in [Page -> SUBSET Flags]
  BY DEF SnapshotInv, MemoryTyped, IsMap
<1>2. /\ pc \in {"load", "mark", "run", "resume", "failed"}
      /\ program \in Programs /\ done \in 0 .. Len(program) /\ core \in 0 .. MaxSteps
  BY DEF SnapshotInv, ControlTyped
<1>3. /\ DOMAIN tracked \subseteq Page
      /\ \A p \in DOMAIN tracked :
           tracked[p] \in [id : DOMAIN Source, offset : Nat, flag : SUBSET (Flags \ {"dirty"})]
  BY DEF SnapshotInv, TrackedTyped, Tracking, KeptFlags, Flags
<1>4. snapshot # NoSnapshot => snapshot.sourced \subseteq SourcedEntries
  BY EntriesTyped DEF SnapshotInv, SavedOK, SnapshotOK
<1>5. left.sourced \subseteq SourcedEntries
  <2>1. CASE pc = "resume"
    BY <1>4, <2>1 DEF SnapshotInv, Restoring
  <2>2. CASE pc # "resume"
    BY <2>2 DEF SnapshotInv, NoEntries
  <2>3. QED
    BY <2>1, <2>2
<1>6. QED
  BY <1>1, <1>2, <1>3, <1>4, <1>5 DEF SnapshotTypeOK

LEMMA InvOmittedFresh == SnapshotInv => OmittedPageIsFresh
<1> SUFFICES ASSUME SnapshotInv, pc = "run", NEW p \in Page \ (SourcedPages \cup DirtyPages)
             PROVE  flags[p] = {} /\ \A k \in 1 .. PageCells : PageData(p)[k] = Zero
  BY DEF OmittedPageIsFresh
<1>1. p \notin DOMAIN tracked /\ "dirty" \notin flags[p]
  BY DEF SourcedPages, DirtyPages
<1>2. Fresh(mem, flags, p)
  BY <1>1 DEF SnapshotInv, CleanFlags
<1>3. QED
  BY <1>2, CellOfPage DEF Fresh, PageData

LEMMA InvTrackedIsSource == SnapshotInv /\ OwnPages(program) => TrackedPageIsSource
<1> SUFFICES ASSUME SnapshotInv, OwnPages(program), pc = "run", NEW p \in SourcedPages
             PROVE  /\ LET src == Source[tracked[p].id] IN
                       \A k \in 1 .. PageCells :
                         /\ tracked[p].offset + k \in DOMAIN src
                         /\ PageData(p)[k] = src[tracked[p].offset + k]
                    /\ flags[p] = tracked[p].flag
  BY DEF TrackedPageIsSource
<1>1. p \in DOMAIN tracked /\ p \in Page /\ "dirty" \notin flags[p] /\ Tracking(tracked[p])
  BY DEF SourcedPages, DirtyPages, SnapshotInv, TrackedTyped
<1>2. flags[p] = tracked[p].flag /\ PageHolds(mem, p, tracked[p].id, tracked[p].offset)
  BY <1>1 DEF SnapshotInv, CleanFlags, CleanData
<1> DEFINE id == tracked[p].id
           o  == tracked[p].offset
<1>3. /\ id \in DOMAIN Source /\ o \in Nat /\ o + PageCells <= Len(Source[id])
  BY <1>1 DEF Tracking
<1>4. PageHolds(mem, p, id, o)
  BY <1>2
<1> HIDE DEF id, o
<1>5. Len(Source[id]) \in Nat /\ DOMAIN Source[id] = 1 .. Len(Source[id])
  BY <1>3, SnapshotAssumption, DataIs
<1>6. ASSUME NEW k \in 1 .. PageCells
      PROVE  o + k \in DOMAIN Source[id] /\ PageData(p)[k] = Source[id][o + k]
  <2>1. PageCells \in Nat \ {0} /\ p * PageCells \in Nat
    BY <1>1, SizeIs
  <2>2. o + k \in DOMAIN Source[id]
    BY <1>3, <1>5, <2>1
  <2> DEFINE c == p * PageCells + k - 1
  <2>3. c \in Addr /\ PageOf(c) = p
    BY <1>1, CellOfPage
  <2>4. PageData(p)[k] = mem[c]
    BY DEF PageData
  <2>5. o + c - p * PageCells + 1 = o + k
    BY <1>3, <2>1
  <2> HIDE DEF c
  <2>6. mem[c] = Source[id][o + c - p * PageCells + 1]
    BY <1>4, <2>3 DEF PageHolds
  <2>7. QED
    BY <2>2, <2>4, <2>5, <2>6
<1>7. QED
  BY <1>2, <1>6 DEF id, o

LEMMA InvAccepted == SnapshotInv => SnapshotAccepted
<1> SUFFICES ASSUME SnapshotInv, pc = "resume"
             PROVE  /\ \A e \in left.sourced : SourcedOk(e)
                    /\ \A e \in left.dirty : DirtyOk(e)
  BY DEF SnapshotAccepted
<1>1. /\ SnapshotOK(snapshot)
      /\ left.sourced \subseteq snapshot.sourced /\ left.dirty \subseteq snapshot.dirty
  BY DEF SnapshotInv, Restoring, SavedOK
<1>2. ASSUME NEW a, NEW n, Aligned(a, n), \A p \in PageIndices(a, n) : flags[p] = {}
      PROVE  a % PageCells = 0 /\ n % PageCells = 0 /\ Permitted(flags, a, n)
  BY <1>2, SizeIs DEF Aligned, Permitted, NoOverflow
<1>3. ASSUME NEW e \in left.sourced PROVE SourcedOk(e)
  <2>1. SourcedEntryOK(e)
    BY <1>1 DEF SnapshotOK
  <2>2. \A p \in PageIndices(e.addr, e.length) : flags[p] = {}
    BY LeftPagesFresh DEF Fresh, SourcedPagesOf
  <2>3. Aligned(e.addr, e.length) /\ Len(Loaded(e.id, e.offset, e.length)) = e.length
    BY <2>1, LoadedIs DEF SourcedEntryOK, Aligned
  <2>4. QED
    BY <1>2, <2>2, <2>3 DEF SourcedOk
<1>4. ASSUME NEW e \in left.dirty PROVE DirtyOk(e)
  <2>1. Aligned(e.addr, Len(e.content))
    BY <1>1 DEF SnapshotOK, DirtyEntryOK
  <2>2. \A p \in PageIndices(e.addr, Len(e.content)) : flags[p] = {}
    BY LeftPagesFresh DEF Fresh, DirtyPagesOf
  <2>3. QED
    BY <1>2, <2>1, <2>2 DEF DirtyOk
<1>5. QED
  BY <1>3, <1>4

(***************************************************************************)
(* The theorems                                                            *)
(***************************************************************************)
LEMMA SnapshotAlways == Spec => []SnapshotInv
  BY SnapshotInit, SnapshotStep, PTL DEF Spec

(* Memory, the context and the snapshot have their types in every state a  *)
(* VM goes through while it loads, runs, is suspended and resumed.         *)
THEOREM SnapshotTypes == Spec => []SnapshotTypeOK
  BY SnapshotAlways, InvTypeOK, PTL

(* A page that make_snapshot leaves out is as Memory::new made it, for     *)
(* whatever the guest stored and however its load syscalls ended.          *)
THEOREM OmittedPages == Spec => []OmittedPageIsFresh
  BY SnapshotAlways, InvOmittedFresh, PTL

(* resume takes every entry of a snapshot that make_snapshot made, in any  *)
(* order within its two vectors.                                           *)
THEOREM SnapshotsAccepted == Spec => []SnapshotAccepted
  BY SnapshotAlways, InvAccepted, PTL

(* A tracked page that is not dirty holds what the data source has at its  *)
(* offset and has the flags it was tracked with, if the segments of the    *)
(* program lie in pages of their own and below the arguments.              *)
THEOREM TrackedPagesAreSource == Spec => [](OwnPages(program) => TrackedPageIsSource)
  BY SnapshotAlways, InvTrackedIsSource, PTL

(***************************************************************************)
(* The resumed machine is the saved one                                    *)
(***************************************************************************)

(* The memory, the flags and the core that a snapshot describes.           *)
Shows(s, mm, fl, c) ==
  /\ IsMap(mm, Addr) /\ fl \in [Page -> SUBSET Flags] /\ s.core = c
  /\ \A e \in s.dirty : \A p \in DirtyPagesOf(e) :
       /\ fl[p] = e.flag
       /\ \A x \in Addr : PageOf(x) = p => mm[x] = e.content[x - e.addr + 1]
  /\ \A e \in s.sourced : \A p \in SourcedPagesOf(e) :
       /\ fl[p] = e.flag
       /\ \A x \in Addr : PageOf(x) = p => mm[x] = Source[e.id][e.offset + x - e.addr + 1]
  /\ \A p \in Page :
       \/ \E e \in s.dirty : p \in DirtyPagesOf(e)
       \/ \E e \in s.sourced : p \in SourcedPagesOf(e)
       \/ Fresh(mm, fl, p)

LEMMA DescribedIs ==
  ASSUME NEW s, SnapshotOK(s), NEW mm, NEW fl, NEW k, Shows(s, mm, fl, k)
  PROVE  Described(s) = Image(mm, fl, k)
<1> DEFINE InDirty(c)   == {e \in s.dirty : c \in EntryCells(e, Len(e.content))}
           InSourced(c) == {e \in s.sourced : c \in EntryCells(e, e.length)}
           Value(c) == IF InDirty(c) # {}
                       THEN LET e == CHOOSE e \in InDirty(c) : TRUE IN e.content[c - e.addr + 1]
                       ELSE IF InSourced(c) # {}
                       THEN LET e == CHOOSE e \in InSourced(c) : TRUE
                            IN  Source[e.id][e.offset + c - e.addr + 1]
                       ELSE Zero
           Flag(c) == UNION {e.flag : e \in InDirty(c) \cup InSourced(c)}
<1>1. Described(s) = Image([c \in Addr |-> Value(c)], [p \in Page |-> Flag(p * PageCells)], s.core)
  BY DEF Described
<1>2. ASSUME NEW c \in Addr
      PROVE  /\ InDirty(c) = {e \in s.dirty : PageOf(c) \in DirtyPagesOf(e)}
             /\ InSourced(c) = {e \in s.sourced : PageOf(c) \in SourcedPagesOf(e)}
  <2>1. ASSUME NEW e \in s.dirty
        PROVE  c \in EntryCells(e, Len(e.content)) <=> PageOf(c) \in DirtyPagesOf(e)
    <3>1. Aligned(e.addr, Len(e.content))
      BY DEF SnapshotOK, DirtyEntryOK
    <3>2. QED
      BY <3>1, AlignedPages DEF EntryCells, DirtyPagesOf
  <2>2. ASSUME NEW e \in s.sourced
        PROVE  c \in EntryCells(e, e.length) <=> PageOf(c) \in SourcedPagesOf(e)
    <3>1. Aligned(e.addr, e.length)
      BY DEF SnapshotOK, SourcedEntryOK
    <3>2. QED
      BY <3>1, AlignedPages DEF EntryCells, SourcedPagesOf
  <2>3. QED
    BY <2>1, <2>2
<1>3. ASSUME NEW c \in Addr PROVE Value(c) = mm[c] /\ Flag(c) = fl[PageOf(c)]
  <2> DEFINE p == PageOf(c)
             D == {e \in s.dirty : p \in DirtyPagesOf(e)}
             S == {e \in s.sourced : p \in SourcedPagesOf(e)}
  <2>1. p \in Page
    BY SizeIs
  <2>2. InDirty(c) = D /\ InSourced(c) = S
    BY <1>2
  <2> HIDE DEF InDirty, InSourced, p
  <2>3. CASE D # {}
    <3>1. PICK e \in D : e = CHOOSE f \in D : TRUE
      BY <2>3
    <3>2. D = {e} /\ S = {}
      BY DEF SnapshotOK
    <3>3. fl[p] = e.flag /\ mm[c] = e.content[c - e.addr + 1]
      BY DEF Shows, p
    <3>4. Value(c) = e.content[c - e.addr + 1]
      BY <2>2, <2>3, <3>1
    <3>5. Flag(c) = e.flag
      BY <2>2, <3>2
    <3>6. QED
      BY <3>3, <3>4, <3>5 DEF p
  <2>4. CASE D = {} /\ S # {}
    <3>1. PICK e \in S : e = CHOOSE f \in S : TRUE
      BY <2>4
    <3>2. S = {e}
      BY DEF SnapshotOK
    <3>3. fl[p] = e.flag /\ mm[c] = Source[e.id][e.offset + c - e.addr + 1]
      BY DEF Shows, p
    <3>4. Value(c) = Source[e.id][e.offset + c - e.addr + 1]
      BY <2>2, <2>4, <3>1
    <3>5. Flag(c) = e.flag
      BY <2>2, <2>4, <3>2
    <3>6. QED
      BY <3>3, <3>4, <3>5 DEF p
  <2>5. CASE D = {} /\ S = {}
    <3>1. Fresh(mm, fl, p)
      BY <2>1, <2>5 DEF Shows
    <3>2. Value(c) = Zero /\ Flag(c) = {}
      BY <2>2, <2>5
    <3>3. QED
      BY <3>1, <3>2 DEF Fresh, p
  <2>6. QED
    BY <2>3, <2>4, <2>5
<1> HIDE DEF Value, Flag
<1>4. [c \in Addr |-> Value(c)] = mm
  BY <1>3 DEF Shows, IsMap
<1>5. [p \in Page |-> Flag(p * PageCells)] = fl
  <2>1. ASSUME NEW p \in Page PROVE p * PageCells \in Addr /\ PageOf(p * PageCells) = p
    <3>1. 1 \in 1 .. PageCells /\ p * PageCells \in Int
      BY SizeIs
    <3>2. p * PageCells + 1 - 1 \in Addr /\ PageOf(p * PageCells + 1 - 1) = p
      BY <3>1, CellOfPage, Zenon
    <3>3. p * PageCells + 1 - 1 = p * PageCells
      BY <3>1
    <3>4. QED
      BY <3>2, <3>3, Zenon
  <2>2. \A p \in Page : Flag(p * PageCells) = fl[p]
    BY <1>3, <2>1
  <2>3. QED
    BY <2>2 DEF Shows
<1>6. QED
  BY <1>1, <1>4, <1>5 DEF Shows

(* make_snapshot leaves out nothing.                                       *)
LEMMA MadeSnapshotShows ==
  ASSUME SnapshotInv, OwnPages(program), MakeSnapshot
  PROVE  Shows(snapshot', mem, flags, core)
<1> DEFINE S == {SourcedEntry(r) : r \in Runs(SourcedPages, SourcedJoined)}
           D == {DirtyEntry(r) : r \in Runs(DirtyPages, DirtyJoined)}
<1>1. /\ MemoryTyped /\ TrackedTyped /\ CleanFlags /\ CleanData
  BY DEF SnapshotInv, MakeSnapshot
<1>2. snapshot'.sourced = S /\ snapshot'.dirty = D /\ snapshot'.core = core
  BY DEF MakeSnapshot
<1>3. Joins(DirtyPages, DirtyJoined) /\ Joins(SourcedPages, SourcedJoined)
  BY <1>1, PagesJoin
<1>4. ASSUME NEW e \in D, NEW p \in DirtyPagesOf(e)
      PROVE  /\ flags[p] = e.flag
             /\ \A x \in Addr : PageOf(x) = p => mem[x] = e.content[x - e.addr + 1]
  <2>1. PICK r \in Runs(DirtyPages, DirtyJoined) : e = DirtyEntry(r)
    OBVIOUS
  <2>2. QED
    BY <1>1, <2>1, DirtyEntryIs
<1>5. ASSUME NEW e \in S, NEW p \in SourcedPagesOf(e)
      PROVE  /\ flags[p] = e.flag
             /\ \A x \in Addr : PageOf(x) = p => mem[x] = Source[e.id][e.offset + x - e.addr + 1]
  <2>1. PICK r \in Runs(SourcedPages, SourcedJoined) : e = SourcedEntry(r)
    OBVIOUS
  <2>2. /\ SourcedEntryOK(e) /\ p \in r[1] .. r[2] /\ tracked[p] = PieceOf(e, p)
    BY <1>1, <2>1, SourcedEntryIs
  <2>3. p \in SourcedPages
    BY <1>3, <2>2, RunIsInside
  <2>4. p \in DOMAIN tracked /\ p \in Page /\ "dirty" \notin flags[p]
    BY <1>1, <2>3 DEF SourcedPages, DirtyPages, TrackedTyped
  <2>5. flags[p] = e.flag /\ PageHolds(mem, p, e.id, e.offset + p * PageCells - e.addr)
    BY <1>1, <2>2, <2>4 DEF CleanFlags, CleanData, PieceOf
  <2>6. ASSUME NEW x \in Addr, PageOf(x) = p
        PROVE  mem[x] = Source[e.id][e.offset + x - e.addr + 1]
    <3>1. mem[x] = Source[e.id][e.offset + p * PageCells - e.addr + x - p * PageCells + 1]
      BY <2>5, <2>6 DEF PageHolds
    <3>2. e.offset \in Nat /\ e.addr \in Nat /\ x \in Nat /\ p * PageCells \in Nat
      BY <2>2, <2>4, SizeIs DEF SourcedEntryOK
    <3>3. e.offset + p * PageCells - e.addr + x - p * PageCells + 1 = e.offset + x - e.addr + 1
      BY <3>2
    <3>4. QED
      BY <3>1, <3>3
  <2>7. QED
    BY <2>5, <2>6
<1>6. ASSUME NEW p \in Page
      PROVE  \/ \E e \in D : p \in DirtyPagesOf(e)
             \/ \E e \in S : p \in SourcedPagesOf(e)
             \/ Fresh(mem, flags, p)
  <2>1. CASE p \in DirtyPages
    <3>1. PICK r \in Runs(DirtyPages, DirtyJoined) : p \in r[1] .. r[2]
      BY <1>3, <2>1, EveryPageInRun
    <3>2. DirtyEntry(r) \in D /\ DirtyPagesOf(DirtyEntry(r)) = r[1] .. r[2]
      BY <1>1, DirtyEntryIs
    <3>3. QED
      BY <3>1, <3>2
  <2>2. CASE p \in SourcedPages
    <3>1. PICK r \in Runs(SourcedPages, SourcedJoined) : p \in r[1] .. r[2]
      BY <1>3, <2>2, EveryPageInRun
    <3>2. SourcedEntry(r) \in S /\ SourcedPagesOf(SourcedEntry(r)) = r[1] .. r[2]
      BY <1>1, SourcedEntryIs
    <3>3. QED
      BY <3>1, <3>2
  <2>3. CASE p \notin DirtyPages /\ p \notin SourcedPages
    BY <1>1, <2>3 DEF DirtyPages, SourcedPages, CleanFlags
  <2>4. QED
    BY <2>1, <2>2, <2>3
<1>7. QED
  BY <1>1, <1>2, <1>4, <1>5, <1>6 DEF Shows, MemoryTyped

(* When nothing is left to restore, the machine is what the snapshot says. *)
LEMMA RestoredShows ==
  ASSUME SnapshotInv, Resumed
  PROVE  Shows(snapshot, mem, flags, core)
<1>1. /\ MemoryTyped /\ TrackedTyped /\ Restoring /\ pc = "resume" /\ left = NoEntries
      /\ SnapshotOK(snapshot) /\ core = snapshot.core
  BY DEF SnapshotInv, Resumed, Restoring, SavedOK
<1>2. SourcedRestored = snapshot.sourced /\ DirtyRestored = snapshot.dirty
  BY <1>1 DEF SourcedRestored, DirtyRestored, NoEntries
<1>3. ASSUME NEW e \in snapshot.dirty, NEW p \in DirtyPagesOf(e)
      PROVE  /\ flags[p] = e.flag
             /\ \A x \in Addr : PageOf(x) = p => mem[x] = e.content[x - e.addr + 1]
  BY <1>1, <1>2 DEF Restoring
<1>4. ASSUME NEW e \in snapshot.sourced, NEW p \in SourcedPagesOf(e)
      PROVE  /\ flags[p] = e.flag
             /\ \A x \in Addr : PageOf(x) = p => mem[x] = Source[e.id][e.offset + x - e.addr + 1]
  <2>1. /\ p \in DOMAIN tracked /\ tracked[p] = PieceOf(e, p) /\ flags[p] = e.flag
        /\ PageHolds(mem, p, tracked[p].id, tracked[p].offset)
    BY <1>1, <1>2 DEF Restoring
  <2>2. PageHolds(mem, p, e.id, e.offset + p * PageCells - e.addr)
    BY <2>1 DEF PieceOf
  <2>3. ASSUME NEW x \in Addr, PageOf(x) = p
        PROVE  mem[x] = Source[e.id][e.offset + x - e.addr + 1]
    <3>1. mem[x] = Source[e.id][e.offset + p * PageCells - e.addr + x - p * PageCells + 1]
      BY <2>2, <2>3 DEF PageHolds
    <3>2. e.offset \in Nat /\ e.addr \in Nat /\ x \in Nat /\ p \in Page
      BY <1>1, <2>1, SizeIs DEF SnapshotOK, SourcedEntryOK, TrackedTyped
    <3>3. p * PageCells \in Nat
      BY <3>2, SizeIs
    <3>4. e.offset + p * PageCells - e.addr + x - p * PageCells + 1 = e.offset + x - e.addr + 1
      BY <3>2, <3>3
    <3>5. QED
      BY <3>1, <3>4
  <2>4. QED
    BY <2>1, <2>3
<1>5. QED
  BY <1>1, <1>2, <1>3, <1>4 DEF Shows, Restoring, MemoryTyped

LEMMA ImageIsOn ==
  ASSUME NEW m, NEW f, NEW c
  PROVE  Image(m, f, c) # NoSnapshot
<1>1. DOMAIN Image(m, f, c) = {"mem", "flags", "core"}
  BY DEF Image
<1>2. DOMAIN NoSnapshot = {"none"}
  BY DEF NoSnapshot
<1>3. QED
  BY <1>1, <1>2

LEMMA DescribedIsOn ==
  ASSUME NEW s
  PROVE  Described(s) # NoSnapshot
<1>1. \E m, f, c : Described(s) = Image(m, f, c)
  BY DEF Described
<1>2. QED
  BY <1>1, ImageIsOn

machineView == IF pc = "run" THEN Image(mem, flags, core) ELSE NoSnapshot
savedView   == IF snapshot = NoSnapshot THEN NoSnapshot ELSE Described(snapshot)

LEMMA StartsOff == Init => Machine!Init
BY DEF Init, Machine!Init

LEMMA StepsResumable ==
  ASSUME SnapshotInv, SnapshotInv', OwnPages(program), [Next]_vars
  PROVE  [Machine!Next]_<<machineView, savedView>>
<1> USE DEF machineView, savedView
<1>1. CASE LoadSegment \/ SegmentRefused \/ InitializeStack \/ StackRefused \/ MarkSegment
  <2>1. pc # "run" /\ pc' # "run" /\ snapshot' = snapshot
    BY <1>1 DEF LoadSegment, SegmentRefused, InitializeStack, StackRefused, MarkSegment, Drop
  <2>2. QED
    BY <2>1
<1>2. CASE Marked
  <2>1. pc # "run" /\ pc' = "run" /\ snapshot' = snapshot /\ snapshot = NoSnapshot
    BY <1>2 DEF Marked, SnapshotInv, Loading
  <2>2. Machine!Boot
    BY <2>1, ImageIsOn DEF Machine!Boot
  <2>3. QED
    BY <2>2 DEF Machine!Next
<1>3. CASE Store \/ LoadSyscall
  <2>1. pc = "run" /\ pc' = "run" /\ snapshot' = snapshot
    BY <1>3 DEF Store, LoadSyscall, Running
  <2>2. Machine!Run
    BY <2>1, ImageIsOn DEF Machine!Run
  <2>3. QED
    BY <2>2 DEF Machine!Next
<1>4. CASE MakeSnapshot
  <2>1. pc = "run" /\ UNCHANGED <<mem, flags, pc, core>>
    BY <1>4 DEF MakeSnapshot
  <2>2. snapshot' # NoSnapshot
    <3>1. snapshot'.core = core /\ DOMAIN snapshot' = {"sourced", "dirty", "core"}
      BY <1>4 DEF MakeSnapshot
    <3>2. DOMAIN NoSnapshot = {"none"}
      BY DEF NoSnapshot
    <3>3. QED
      BY <3>1, <3>2
  <2>3. SnapshotOK(snapshot')
    BY <2>2 DEF SnapshotInv, SavedOK
  <2>4. Described(snapshot') = Image(mem, flags, core)
    BY <1>4, <2>3, MadeSnapshotShows, DescribedIs
  <2>5. Machine!Save
    BY <2>1, <2>2, <2>4, ImageIsOn DEF Machine!Save
  <2>6. QED
    BY <2>5 DEF Machine!Next
<1>5. CASE Resume
  <2>1. pc' # "run" /\ snapshot' = snapshot /\ snapshot # NoSnapshot
    BY <1>5 DEF Resume
  <2>2. Machine!Halt
    BY <2>1, DescribedIsOn DEF Machine!Halt
  <2>3. QED
    BY <2>2 DEF Machine!Next
<1>6. CASE RestoreSourced \/ RestoreDirty
  <2>1. pc # "run" /\ pc' # "run" /\ snapshot' = snapshot
    BY <1>6 DEF RestoreSourced, RestoreDirty
  <2>2. QED
    BY <2>1
<1>7. CASE Resumed
  <2>1. /\ pc # "run" /\ pc' = "run" /\ UNCHANGED <<mem, flags, core, snapshot>>
        /\ snapshot # NoSnapshot /\ SnapshotOK(snapshot)
    BY <1>7 DEF Resumed, SnapshotInv, Restoring, SavedOK
  <2>2. Described(snapshot) = Image(mem, flags, core)
    BY <1>7, <2>1, RestoredShows, DescribedIs
  <2>3. Machine!Restore
    BY <2>1, <2>2, DescribedIsOn DEF Machine!Restore
  <2>4. QED
    BY <2>3 DEF Machine!Next
<1>8. CASE UNCHANGED vars
  BY <1>8 DEF vars
<1>9. QED
  BY <1>1, <1>2, <1>3, <1>4, <1>5, <1>6, <1>7, <1>8 DEF Next, Load, Dropped

LEMMA ProgramKept == OwnPages(program) /\ [Next]_vars => OwnPages(program)'
<1>1. [Next]_vars => program' = program
  BY DEF Next, vars, Load, LoadSegment, SegmentRefused, InitializeStack, StackRefused, Drop,
         MarkSegment, Marked, Store, LoadSyscall, MakeSnapshot, Resume, RestoreSourced,
         RestoreDirty, Resumed, Dropped
<1>2. QED
  BY <1>1

(* A machine resumed from a snapshot has the memory, the flags of every    *)
(* page and the core of the machine that make_snapshot was called on, for  *)
(* every program whose segments lie in pages of their own and below the    *)
(* arguments: the machine with its snapshots implements ResumableMachine.  *)
THEOREM ResumesTheSavedMachine == Spec /\ OwnPages(program) => ResumesAsSaved
<1>1. SnapshotInv /\ SnapshotInv' /\ OwnPages(program) /\ [Next]_vars
        => [Machine!Next]_<<IF pc = "run" THEN Image(mem, flags, core) ELSE NoSnapshot,
                            IF snapshot = NoSnapshot THEN NoSnapshot ELSE Described(snapshot)>>
  BY StepsResumable DEF machineView, savedView
<1>2. QED
  BY <1>1, SnapshotInit, SnapshotStep, ProgramKept, StartsOff, PTL
  DEF Spec, ResumesAsSaved, Machine!Spec
================================================================================
