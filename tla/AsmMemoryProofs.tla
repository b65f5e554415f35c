----------------------------- MODULE AsmMemoryProofs -----------------------------
(***************************************************************************)
(* For every number and size of pages and frames, every program, and       *)
(* operations of host and guest in any order and number: the assembly VM's *)
(* memory, which is zeroed lazily and checked sparingly, answers as the    *)
(* interpreter's does.  The one assumption is that no segment leaves the   *)
(* last page of a frame, where prepare_memory zeroes too little.  On the   *)
(* way, and without that assumption: the checks that the assembly skips    *)
(* because of last_write_page and last_read_frame would pass, and change   *)
(* nothing, whatever the host does to the memory between two instructions. *)
(* The proofs do not use the bound on operations.                          *)
(***************************************************************************)
EXTENDS AsmMemory, TLAPS

(***************************************************************************)
(* What the assembly remembers                                             *)
(***************************************************************************)
(* LastWritePageIsOpen says this of the page remembered.                   *)
IsOpen(p) ==
  ~Refuses(p) /\ "dirty" \in flags[p] /\ p \div FramePages \in frames

CacheInv == LastWritePageIsOpen /\ LastReadFrameIsInited

(* Quotients are monotone, so an access lies on the page it starts in.     *)
LEMMA DivMonotone ==
  ASSUME NEW d \in Nat \ {0}, NEW x \in Nat, NEW y \in Nat, x <= y
  PROVE  x \div d \in Nat /\ y \div d \in Nat /\ x \div d <= y \div d
<1> DEFINE q == x \div d
           r == y \div d
<1>1. q \in Nat /\ r \in Nat
  OBVIOUS
<1>2. d * q <= x /\ y < d * (r + 1)
  OBVIOUS
<1>3. SUFFICES ASSUME r < q PROVE FALSE
  BY <1>1
<1> HIDE DEF q, r
<1>4. d * (r + 1) <= d * q
  BY <1>1, <1>3
<1> QED
  BY <1>1, <1>2, <1>4

LEMMA FirstPageAccessed ==
  ASSUME NEW acc \in Accesses
  PROVE  PageOf(acc[1]) \in PageIndices(acc[1], acc[2])
<1> DEFINE a == acc[1]
           n == acc[2]
<1>1. a \in Nat /\ n \in Nat \ {0}
  BY AsmMemoryAssumption
<1>2. a + n - 1 \in Nat /\ a <= a + n - 1
  BY <1>1
<1>3. PageOf(a) \in Nat /\ PageOf(a + n - 1) \in Nat /\ PageOf(a) <= PageOf(a + n - 1)
  BY <1>1, <1>2, DivMonotone, PageMemoryAssumption DEF PageOf
<1> QED
  BY <1>1, <1>3 DEF PageIndices

(* What initialising frames does to the two maps the caches depend on.     *)
LEMMA InitedMaps ==
  ASSUME NEW fs, Becomes(Inited(Here, fs))
  PROVE  frames' = frames \cup fs /\ flags' = flags
  BY DEF Becomes, Inited, Here, State

(* A store of Rust code, refused or not, opens the pages before the first  *)
(* that refuses it.                                                        *)
LEMMA StoredMaps ==
  ASSUME NEW a, NEW n, NEW v, Stored(a, n, v)
  PROVE  LET opened == Opened(PageIndices(a, n)) IN
         /\ frames' = frames \cup FramesOfPages(opened)
         /\ flags'  = SetFlag(flags, opened, {"dirty"})
         /\ out' # <<"refused">> => opened = PageIndices(a, n)
<1> DEFINE opened == Opened(PageIndices(a, n))
           st     == Open(opened)
<1>1. st.frames = frames \cup FramesOfPages(opened) /\ st.flags = SetFlag(flags, opened, {"dirty"})
  BY DEF Open, Inited, Here, State
<1>2. CASE opened = PageIndices(a, n)
  BY <1>1, <1>2 DEF Stored, Becomes, State
<1>3. CASE opened # PageIndices(a, n)
  BY <1>1, <1>3 DEF Stored, Becomes
<1> QED
  BY <1>2, <1>3

(* A page that is open stays so when frames and dirty flags are added.     *)
LEMMA OpenStays ==
  ASSUME NEW p, NEW ps, IsOpen(p), frames \subseteq frames',
         flags' = flags \/ flags' = SetFlag(flags, ps, {"dirty"})
  PROVE  IsOpen(p)'
  BY DEF IsOpen, Refuses, SetFlag

(* The store that is answered leaves every page it touched open.           *)
LEMMA StoreOpens ==
  ASSUME NEW acc \in Accesses, NEW v,
         Stored(acc[1], acc[2], v), out' # <<"refused">>
  PROVE  IsOpen(PageOf(acc[1]))'
<1> DEFINE p  == PageOf(acc[1])
           ps == PageIndices(acc[1], acc[2])
<1>1. /\ frames' = frames \cup FramesOfPages(ps)
      /\ flags' = SetFlag(flags, ps, {"dirty"})
      /\ Opened(ps) = ps
  BY StoredMaps
<1>2. p \in ps
  BY FirstPageAccessed
<1>3. p \in Int /\ ~Refuses(p)
  <2>1. \A q \in ps : q <= p => ~Refuses(q)
    BY <1>1, <1>2 DEF Opened
  <2>2. p \in Int
    BY AsmMemoryAssumption, PageMemoryAssumption, DivMonotone DEF PageOf
  <2> QED
    BY <1>2, <2>1, <2>2
<1>4. p \div FramePages \in frames'
  BY <1>1, <1>2 DEF FramesOfPages
<1>5. p \in Page /\ flags'[p] = flags[p] \cup {"dirty"}
  BY <1>1, <1>2, <1>3 DEF Refuses, SetFlag
<1> QED
  BY <1>3, <1>4, <1>5 DEF IsOpen, Refuses

LEMMA CachesEmpty == Init => CacheInv
  BY DEF Init, CacheInv, LastWritePageIsOpen, LastReadFrameIsInited

LEMMA CachesKept == CacheInv /\ [Next]_vars => CacheInv'
<1> SUFFICES ASSUME CacheInv, [Next]_vars PROVE CacheInv'
  OBVIOUS
<1> USE DEF CacheInv
(* Of a step it is enough to know what it does to caches and maps.         *)
<1>1. ASSUME lastWrite' = lastWrite, failed' = failed, frames \subseteq frames', flags' = flags
      PROVE  LastWritePageIsOpen'
  BY <1>1 DEF LastWritePageIsOpen, Refuses
<1>2. ASSUME lastRead' = lastRead, frames \subseteq frames'
      PROVE  LastReadFrameIsInited'
  BY <1>2 DEF LastReadFrameIsInited
<1>3. ASSUME lastWrite' = NoPage
      PROVE  LastWritePageIsOpen'
  BY <1>3 DEF LastWritePageIsOpen
<1>4. ASSUME lastRead' = NoPage
      PROVE  LastReadFrameIsInited'
  BY <1>4 DEF LastReadFrameIsInited
<1>5. ASSUME NEW seg \in Segments, InitPages(seg)
      PROVE  CacheInv'
  <2>1. CASE InitPagesOk(flags, seg.addr, seg.size, seg.pad)
    BY <1>3, <1>4, <1>5, <2>1 DEF InitPages
  <2>2. CASE ~InitPagesOk(flags, seg.addr, seg.size, seg.pad)
    BY <1>1, <1>2, <1>5, <2>2 DEF InitPages
  <2> QED
    BY <2>1, <2>2
<1>6. ASSUME NEW acc \in Accesses, NEW v \in Values, StoreBytes(acc[1], acc[2], v)
      PROVE  CacheInv'
  <2> DEFINE opened == Opened(PageIndices(acc[1], acc[2]))
  <2>1. CASE UNCHANGED <<mem, frames, flags, lastWrite>>
    BY <1>1, <1>2, <1>6, <2>1 DEF StoreBytes
  <2>2. CASE /\ Stored(acc[1], acc[2], v)
             /\ lastWrite' = IF opened = {} THEN lastWrite ELSE WriteCacheAfterFlags
    <3>1. frames \subseteq frames' /\ flags' = SetFlag(flags, opened, {"dirty"})
      BY <2>2, StoredMaps
    <3>2. CASE opened # {}
      BY <1>2, <1>3, <1>6, <2>2, <3>1, <3>2 DEF StoreBytes, WriteCacheAfterFlags
    <3>3. CASE opened = {}
      <4>1. lastWrite' = lastWrite /\ lastRead' = lastRead /\ failed' = failed
        BY <1>6, <2>2, <3>3 DEF StoreBytes
      <4>2. IsOpen(lastWrite) => IsOpen(lastWrite)'
        BY <3>1, <4>1, OpenStays DEF IsOpen, Refuses, SetFlag
      <4> QED
        BY <1>2, <3>1, <4>1, <4>2 DEF LastWritePageIsOpen, IsOpen
    <3> QED
      BY <3>2, <3>3
  <2> QED
    BY <1>6, <2>1, <2>2 DEF StoreBytes
<1>7. ASSUME NEW acc \in Accesses, LoadBytes(acc[1], acc[2])
      PROVE  CacheInv'
  <2>1. \/ Becomes(Here)
        \/ \E fs : Becomes(Inited(Here, fs))
    BY <1>7 DEF LoadBytes
  <2>2. frames \subseteq frames' /\ flags' = flags
    BY <2>1, InitedMaps DEF Becomes, Here, State
  <2> QED
    BY <1>1, <1>2, <1>7, <2>2 DEF LoadBytes
<1>8. ASSUME NEW acc \in Words, Fetch(acc[1], acc[2])
      PROVE  CacheInv'
  <2>1. \E fs : Becomes(Inited(Here, fs))
    BY <1>8 DEF Fetch
  <2>2. frames \subseteq frames' /\ flags' = flags
    BY <2>1, InitedMaps
  <2> QED
    BY <1>1, <1>2, <1>8, <2>2 DEF Fetch
<1>9. ASSUME NEW p \in Page, NEW fs \in FlagSets, ChangeFlag(p, fs)
      PROVE  CacheInv'
  BY <1>2, <1>3, <1>9 DEF ChangeFlag, WriteCacheAfterFlags
<1>10. CASE Reset
  BY <1>3, <1>4, <1>10 DEF Reset, ReadCacheAfterReset
<1>11. ASSUME NEW acc \in Words, NEW v \in Values, GuestStore(acc[1], acc[2], v)
       PROVE  CacheInv'
  <2>1. CASE UNCHANGED <<frames, flags, lastWrite, failed>>
    BY <1>1, <1>2, <1>11, <2>1 DEF GuestStore
  <2>2. CASE /\ Stored(acc[1], acc[2], v)
             /\ lastWrite' = PageOf(acc[1]) /\ failed' = (out' = <<"refused">>)
    <3>1. LastReadFrameIsInited'
      BY <1>2, <1>11, <2>2, StoredMaps DEF GuestStore
    <3>2. ~failed' => IsOpen(PageOf(acc[1]))'
      BY <2>2, StoreOpens DEF Words
    <3>3. LastWritePageIsOpen'
      BY <2>2, <3>2 DEF LastWritePageIsOpen, IsOpen
    <3> QED
      BY <3>1, <3>3
  <2> QED
    BY <1>11, <2>1, <2>2 DEF GuestStore
<1>12. ASSUME NEW acc \in Words, GuestLoad(acc[1], acc[2])
       PROVE  CacheInv'
  <2> DEFINE a  == acc[1]
             n  == acc[2]
             fs == {FrameOf(a), FrameOf(a + n - 1)}
  <2>1. CASE Answered(Here, a, n) /\ UNCHANGED <<lastRead, failed>>
    BY <1>1, <1>2, <1>12, <2>1 DEF GuestLoad, Answered, Becomes, Here, State
  <2>2. CASE failed' = TRUE /\ UNCHANGED <<mem, frames, flags, lastRead>>
    BY <1>2, <2>2 DEF LastWritePageIsOpen
  <2>3. CASE Answered(Inited(Here, fs), a, n) /\ lastRead' = FrameToRead(a, n) /\ UNCHANGED failed
    <3>1. frames' = frames \cup fs /\ flags' = flags
      BY <2>3, InitedMaps DEF Answered
    <3>2. LastReadFrameIsInited'
      BY <2>3, <3>1 DEF LastReadFrameIsInited, FrameToRead
    <3> QED
      BY <1>1, <1>12, <2>3, <3>1, <3>2 DEF GuestLoad
  <2> QED
    BY <1>12, <2>1, <2>2, <2>3 DEF GuestLoad
<1>13. CASE UNCHANGED vars
  BY <1>1, <1>2, <1>13 DEF vars
<1> QED
  BY <1>5, <1>6, <1>7, <1>8, <1>9, <1>10, <1>11, <1>12, <1>13 DEF Next, Stopped

(* The page remembered by a store is one where a store would be granted    *)
(* and mark nothing, whatever was done since to its flags and frame: the   *)
(* fast path of CHECK_WRITE in execute_x64.S is no escape from the checks. *)
THEOREM WriteCacheSound == Spec => []LastWritePageIsOpen
<1>1. CacheInv => LastWritePageIsOpen
  BY DEF CacheInv
<1> QED
  BY <1>1, CachesEmpty, CachesKept, PTL DEF Spec

(* The frame remembered by a load is initialised, also after a reset: the  *)
(* fast path of CHECK_READ never reads what the allocator left.            *)
THEOREM ReadCacheSound == Spec => []LastReadFrameIsInited
<1>1. CacheInv => LastReadFrameIsInited
  BY DEF CacheInv
<1> QED
  BY <1>1, CachesEmpty, CachesKept, PTL DEF Spec

(***************************************************************************)
(* Cells, pages and frames                                                 *)
(***************************************************************************)
LEMMA DivIs ==
  ASSUME NEW d \in Nat \ {0}, NEW x \in Nat, NEW k \in Nat
  PROVE  k * d <= x <=> k <= x \div d
<1> DEFINE q == x \div d
<1>1. q \in Nat /\ q * d <= x /\ x < (q + 1) * d
  OBVIOUS
<1> HIDE DEF q
<1>2. ASSUME k <= q PROVE k * d <= x
  <2>1. k * d <= q * d
    BY <1>1, <1>2
  <2>2. QED
    BY <1>1, <2>1
<1>3. ASSUME k > q PROVE k * d > x
  <2>1. k * d >= (q + 1) * d
    BY <1>1, <1>3
  <2>2. QED
    BY <1>1, <2>1
<1>4. QED
  BY <1>1, <1>2, <1>3 DEF q

LEMMA MultipleIs ==
  ASSUME NEW d \in Nat \ {0}, NEW x \in Nat
  PROVE  x % d = 0 <=> (x \div d) * d = x
OBVIOUS

LEMMA MultipleOf ==
  ASSUME NEW d \in Nat \ {0}, NEW k \in Nat
  PROVE  (k * d) % d = 0
<1> DEFINE x == k * d
           q == x \div d
<1>1. x \in Nat /\ q \in Nat
  OBVIOUS
<1>2. k <= q
  BY <1>1, DivIs
<1>3. q <= k
  <2>1. q * d <= x
    BY <1>1, DivIs
  <2>2. SUFFICES ASSUME k + 1 <= q PROVE FALSE
    BY <1>1
  <2> HIDE DEF q
  <2>3. (k + 1) * d <= q * d
    BY <1>1, <2>2
  <2>4. QED
    BY <1>1, <2>1, <2>3
<1>4. q * d = x
  BY <1>1, <1>2, <1>3
<1>5. QED
  BY <1>1, <1>4, MultipleIs

LEMMA Sizes ==
  /\ PageCells \in Nat \ {0} /\ FramePages \in Nat \ {0} /\ FrameCells \in Nat \ {0}
  /\ NPages \in Nat /\ Size \in Nat
  /\ \A k \in Nat : /\ k * FrameCells \in Nat /\ k * PageCells \in Nat /\ k * FramePages \in Nat
                    /\ k * FrameCells = (k * FramePages) * PageCells
<1>1. PageCells \in Nat \ {0} /\ FramePages \in Nat \ {0} /\ NPages \in Nat
  BY PageMemoryAssumption, AsmMemoryAssumption
<1>2. \A k \in Nat : k * FrameCells = (k * FramePages) * PageCells /\ k * FramePages \in Nat
  BY <1>1 DEF FrameCells
<1>3. FrameCells \in Nat \ {0} /\ Size \in Nat
  BY <1>1 DEF FrameCells, Size
<1>4. \A k \in Nat : k * FrameCells \in Nat /\ k * PageCells \in Nat
  BY <1>1, <1>3
<1>5. QED
  BY <1>1, <1>2, <1>3, <1>4

(* Pages and frames by their bounds, and a frame by its pages.             *)
LEMMA CellIs ==
  ASSUME NEW c \in Nat
  PROVE  /\ PageOf(c) \in Nat /\ FrameOf(c) \in Nat
         /\ \A k \in Nat : k * PageCells <= c <=> k <= PageOf(c)
         /\ \A k \in Nat : k * FrameCells <= c <=> k <= FrameOf(c)
         /\ \A k \in Nat : k * FramePages <= PageOf(c) <=> k <= FrameOf(c)
         /\ PageOf(c) \div FramePages = FrameOf(c)
<1>1. PageOf(c) \in Nat /\ FrameOf(c) \in Nat
  BY Sizes DEF PageOf, FrameOf
<1>2. \A k \in Nat : k * PageCells <= c <=> k <= PageOf(c)
  BY Sizes, DivIs DEF PageOf
<1>3. \A k \in Nat : k * FrameCells <= c <=> k <= FrameOf(c)
  BY Sizes, DivIs DEF FrameOf
<1>4. ASSUME NEW k \in Nat PROVE k * FramePages <= PageOf(c) <=> k <= FrameOf(c)
  BY <1>2, <1>3, Sizes
<1> DEFINE q == PageOf(c) \div FramePages
<1>5. q \in Nat /\ \A k \in Nat : k * FramePages <= PageOf(c) <=> k <= q
  BY <1>1, Sizes, DivIs
<1> HIDE DEF q
<1>6. q = FrameOf(c)
  BY <1>1, <1>4, <1>5
<1>7. QED
  BY <1>1, <1>2, <1>3, <1>4, <1>6 DEF q

LEMMA Ordered ==
  ASSUME NEW x \in Nat, NEW y \in Nat, x <= y
  PROVE  PageOf(x) <= PageOf(y) /\ FrameOf(x) <= FrameOf(y)
  BY Sizes, DivMonotone DEF PageOf, FrameOf

(* Memory ends with a page and with a frame.                               *)
LEMMA WithinMemory ==
  ASSUME NEW c \in Nat
  PROVE  /\ c \in Addr <=> c < Size
         /\ c \in Addr <=> PageOf(c) \in Page
         /\ c \in Addr <=> FrameOf(c) \in Frame
<1>1. c \in Addr <=> c < Size
  BY Sizes DEF Addr
<1>2. Size = NPages * PageCells
  BY DEF Size
<1>3. c \in Addr <=> PageOf(c) \in Page
  <2>1. NPages * PageCells <= c <=> NPages <= PageOf(c)
    BY CellIs, Sizes
  <2>2. NPages \in Nat /\ NPages * PageCells \in Nat /\ PageOf(c) \in Nat
    BY CellIs, Sizes
  <2>3. QED
    BY <1>1, <1>2, <2>1, <2>2 DEF Page
<1>4. c \in Addr <=> FrameOf(c) \in Frame
  <2> DEFINE n == NPages \div FramePages
  <2>1. n \in Nat /\ NPages = n * FramePages
    BY Sizes, AsmMemoryAssumption
  <2> HIDE DEF n
  <2>2. Size = n * FrameCells
    BY <2>1, <1>2, Sizes
  <2>3. n * FrameCells <= c <=> n <= FrameOf(c)
    BY <2>1, CellIs
  <2>4. n * FrameCells \in Nat
    BY <2>1, Sizes
  <2>5. QED
    BY <1>1, <2>1, <2>2, <2>3, <2>4, CellIs DEF Frame, n
<1>5. QED
  BY <1>1, <1>3, <1>4

(* The pages and the frames of an access are those of its cells, except    *)
(* that a frame may lie between two of its pages only if it is touched.    *)
LEMMA FramesTouched ==
  ASSUME NEW a \in Nat, NEW n \in Nat \ {0}
  PROVE  /\ \A c \in a .. a + n - 1 : /\ PageOf(c) \in PageIndices(a, n)
                                      /\ FrameOf(c) \in FramesOfPages(PageIndices(a, n))
         /\ \A f \in FramesOfPages(PageIndices(a, n)) :
              f \in Nat /\ FrameOf(a) <= f /\ f <= FrameOf(a + n - 1)
<1>1. a + n - 1 \in Nat /\ PageIndices(a, n) = PageOf(a) .. PageOf(a + n - 1)
  BY DEF PageIndices
<1>2. ASSUME NEW c \in a .. a + n - 1
      PROVE  PageOf(c) \in PageIndices(a, n) /\ FrameOf(c) \in FramesOfPages(PageIndices(a, n))
  <2>1. c \in Nat
    BY <1>2
  <2>2. PageOf(a) <= PageOf(c) /\ PageOf(c) <= PageOf(a + n - 1)
    <3>1. a <= c /\ c <= a + n - 1
      BY <1>2
    <3>2. QED
      BY <1>1, <2>1, <3>1, Ordered
  <2>3. PageOf(a) \in Nat /\ PageOf(c) \in Nat /\ PageOf(a + n - 1) \in Nat
    BY <1>1, <2>1, CellIs
  <2>4. PageOf(c) \div FramePages = FrameOf(c)
    BY <2>1, CellIs
  <2>5. PageOf(c) \in PageIndices(a, n)
    BY <1>1, <2>2, <2>3
  <2>6. QED
    BY <2>4, <2>5 DEF FramesOfPages
<1>3. ASSUME NEW f \in FramesOfPages(PageIndices(a, n))
      PROVE  f \in Nat /\ FrameOf(a) <= f /\ f <= FrameOf(a + n - 1)
  <2>1. PICK p \in PageOf(a) .. PageOf(a + n - 1) : f = p \div FramePages
    BY <1>1, <1>3 DEF FramesOfPages
  <2>2. PageOf(a) \in Nat /\ PageOf(a + n - 1) \in Nat /\ p \in Nat
    BY <1>1, <2>1, CellIs
  <2>3. /\ f \in Nat /\ PageOf(a) \div FramePages <= f
        /\ f <= PageOf(a + n - 1) \div FramePages
    BY <2>1, <2>2, DivMonotone, Sizes
  <2>4. QED
    BY <1>1, <2>3, CellIs
<1>4. QED
  BY <1>2, <1>3

(***************************************************************************)
(* The memory as it is seen                                                *)
(***************************************************************************)
LEMMA Seen ==
  ASSUME NEW st, Becomes(st)
  PROVE  View(Here)' = View(st)
  BY DEF Becomes, View, Here, State

LEMMA InitedUnseen ==
  ASSUME NEW st, NEW fs
  PROVE  View(Inited(st, fs)) = View(st) /\ Inited(st, fs).frames = st.frames \cup fs
<1>1. Inited(st, fs).frames = st.frames \cup fs
  BY DEF Inited, State
<1>2. ASSUME NEW c \in Addr
      PROVE  View(Inited(st, fs))[c] = View(st)[c]
  BY <1>2 DEF View, Inited, State
<1>3. View(Inited(st, fs)) = View(st)
  BY <1>2 DEF View
<1>4. QED
  BY <1>1, <1>3

(* Every frame of an access is initialised.                                *)
Reaches(st, a, n) == \A c \in a .. a + n - 1 : FrameOf(c) \in st.frames

(* What is loaded from initialised frames is what is seen.                 *)
LEMMA DataSeen ==
  ASSUME NEW st, NEW a, NEW n, a \in Nat, n \in Nat, a + n <= Size,
         Reaches(st, a, n)
  PROVE  Data(st.mem, a, n) = Data(View(st), a, n)
<1>1. ASSUME NEW k \in 1 .. n
      PROVE  st.mem[a + k - 1] = View(st)[a + k - 1]
  <2>1. a + k - 1 \in a .. a + n - 1 /\ a + k - 1 \in Addr
    BY Sizes DEF Addr
  <2>2. QED
    BY <2>1 DEF View, Reaches
<1>2. QED
  BY <1>1 DEF Data

(* What is stored in initialised frames is seen.                           *)
LEMMA StoreSeen ==
  ASSUME NEW st, NEW new, NEW a, NEW n, NEW v, a \in Nat, n \in Nat, Reaches(st, a, n),
         new.mem = Written(st.mem, a, Copies(v, n)), new.frames = st.frames
  PROVE  View(new) = Written(View(st), a, Copies(v, n))
<1>1. ASSUME NEW c \in Addr
      PROVE  View(new)[c] = Written(View(st), a, Copies(v, n))[c]
  <2>1. c - a + 1 \in DOMAIN Copies(v, n) => FrameOf(c) \in st.frames
    <3>1. c \in Int
      BY DEF Addr
    <3>2. QED
      BY <3>1 DEF Copies, Reaches
  <2>2. QED
    BY <2>1 DEF View, Written
<1>2. QED
  BY <1>1 DEF View, Written

(* The memory of FlatMachine is described by the same operators.           *)
LEMMA SameSizes ==
  Flat!Page = Page /\ Flat!Addr = Addr /\ Flat!Size = Size
  BY DEF Flat!Page, Page, Flat!Addr, Addr, Flat!Size, Size

LEMMA SamePages ==
  ASSUME NEW a, NEW n
  PROVE  Flat!PageIndices(a, n) = PageIndices(a, n) /\ (Flat!NoOverflow(a, n) <=> NoOverflow(a, n))
  BY SameSizes DEF Flat!PageIndices, PageIndices, Flat!PageOf, PageOf, Flat!NoOverflow, NoOverflow

LEMMA SameFlags ==
  ASSUME NEW fl, NEW ps, NEW fs, NEW a, NEW n
  PROVE  /\ Flat!SetFlag(fl, ps, fs) = SetFlag(fl, ps, fs)
         /\ Flat!ClearFlag(fl, ps, fs) = ClearFlag(fl, ps, fs)
         /\ Flat!Dirtied(fl, a, n) = Dirtied(fl, a, n)
         /\ Flat!FilledFlags(fl, a, n, fs) = FilledFlags(fl, a, n, fs)
         /\ Flat!Permitted(fl, a, n) <=> Permitted(fl, a, n)
  BY SameSizes, SamePages
  DEF Flat!SetFlag, SetFlag, Flat!ClearFlag, ClearFlag, Flat!Dirtied, Dirtied,
      Flat!FilledFlags, FilledFlags, Flat!Permitted, Permitted

LEMMA SameData ==
  ASSUME NEW m, NEW a, NEW n, NEW v, NEW data
  PROVE  /\ Flat!Data(m, a, n) = Data(m, a, n)
         /\ Flat!Copies(v, n) = Copies(v, n)
         /\ Flat!Written(m, a, data) = Written(m, a, data)
  BY SameSizes DEF Flat!Data, Data, Flat!Copies, Copies, Flat!Written, Written

(***************************************************************************)
(* Filling a segment                                                       *)
(***************************************************************************)

(* A cell that prepare_memory may leave as the allocator left it when the  *)
(* cells from a to just before x are stored: it lies behind x, on the last *)
(* page of a frame that begins between a and x.                            *)
InGap(a, x, c) ==
  /\ x <= c
  /\ a <= FrameOf(c) * FrameCells /\ FrameOf(c) * FrameCells < x
  /\ (PageOf(x) + 1) * PageCells = (FrameOf(c) + 1) * FrameCells

LEMMA GapFromLower ==
  ASSUME NEW a \in Nat, NEW b \in Nat, a <= b, NEW x \in Nat, NEW c \in Nat, InGap(b, x, c)
  PROVE  InGap(a, x, c)
<1>1. FrameOf(c) \in Nat
  BY CellIs
<1>2. FrameOf(c) * FrameCells \in Nat
  BY <1>1, Sizes
<1>3. QED
  BY <1>2 DEF InGap

(* The gap behind x is still a gap while only its beginning is stored to.  *)
LEMMA GapToHigher ==
  ASSUME NEW a \in Nat, NEW x \in Nat, NEW y \in Nat, x <= y, NEW c \in Nat, y <= c,
         InGap(a, x, c)
  PROVE  InGap(a, y, c)
<1>1. FrameOf(c) * FrameCells \in Nat
  <2>1. FrameOf(c) \in Nat
    BY CellIs
  <2>2. QED
    BY <2>1, Sizes
<1>2. PageOf(y) = PageOf(x)
  <2>1. PageOf(x) <= PageOf(y) /\ PageOf(y) <= PageOf(c)
    BY Ordered
  <2>2. PageOf(x) \in Nat /\ PageOf(y) \in Nat /\ PageOf(c) \in Nat /\ FrameOf(c) \in Nat
    BY CellIs
  <2>3. ~((FrameOf(c) + 1) * FrameCells <= c)
    BY <2>2, CellIs
  <2>4. ~((PageOf(x) + 1) * PageCells <= c)
    BY <2>3 DEF InGap
  <2>5. ~(PageOf(x) + 1 <= PageOf(c))
    BY <2>2, <2>4, CellIs
  <2>6. QED
    BY <2>1, <2>2, <2>5
<1>3. QED
  BY <1>1, <1>2 DEF InGap

(* The frame whose end prepare_memory zeroes is the last one touched.      *)
LEMMA TailFrame ==
  ASSUME NEW end \in Nat \ {0},
         PageOf(end) * PageCells + PageCells < (FrameOf(end - 1) + 1) * FrameCells
  PROVE  FrameOf(PageOf(end) * PageCells) = FrameOf(end - 1)
<1> DEFINE alignedEnd == PageOf(end) * PageCells
           f          == FrameOf(end - 1)
<1>1. end - 1 \in Nat /\ PageOf(end) \in Nat /\ f \in Nat
  BY CellIs
<1>2. alignedEnd \in Nat /\ f * FrameCells \in Nat /\ (f + 1) * FrameCells \in Nat
  <2>1. f + 1 \in Nat
    BY <1>1
  <2>2. QED
    BY <1>1, <2>1, Sizes
<1>3. f * FrameCells <= alignedEnd
  <2>1. (f * FramePages) * PageCells = f * FrameCells /\ f * FramePages \in Nat
    BY <1>1, Sizes
  <2>2. f * FrameCells <= end - 1
    BY <1>1, CellIs
  <2>3. f * FramePages <= PageOf(end)
    BY <1>1, <1>2, <2>1, <2>2, CellIs
  <2>4. (f * FramePages) * PageCells <= PageOf(end) * PageCells
    BY <1>1, <2>1, <2>3, Sizes
  <2>5. QED
    BY <2>1, <2>4
<1>4. f <= FrameOf(alignedEnd)
  BY <1>1, <1>2, <1>3, CellIs
<1>5. ~(f + 1 <= FrameOf(alignedEnd))
  <2>1. ~((f + 1) * FrameCells <= alignedEnd)
    BY <1>2, Sizes
  <2>2. QED
    BY <1>1, <1>2, <2>1, CellIs
<1>6. FrameOf(alignedEnd) \in Nat
  BY <1>2, CellIs
<1>7. QED
  BY <1>1, <1>4, <1>5, <1>6

(* prepare_memory: a cell of a frame it marks initialised is zeroed, or is *)
(* about to be stored to, or lies in the gap.                              *)
LEMMA PreparedZeroes ==
  ASSUME NEW st, NEW a \in Nat, NEW n \in Nat \ {0}, NEW c \in Addr,
         c \notin a .. a + n - 1,
         FrameOf(c) \in FramesOfPages(PageIndices(a, n)) \ st.frames
  PROVE  Prepared(st, a, n).mem[c] = Zero \/ InGap(a, a + n, c)
<1> DEFINE end        == a + n
           alignedEnd == PageOf(end) * PageCells
           nextFrame  == (FrameOf(end - 1) + 1) * FrameCells
           head == IF a % FrameCells > 0 THEN {FrameOf(a)} ELSE {}
           tail == IF alignedEnd + PageCells < nextFrame THEN {FrameOf(alignedEnd)} ELSE {}
           f    == FrameOf(c)
<1>1. c \in Nat /\ end \in Nat /\ end - 1 \in Nat
  BY Sizes DEF Addr
<1>2. f \in Nat /\ FrameOf(a) \in Nat /\ FrameOf(end - 1) \in Nat /\ PageOf(end) \in Nat
  BY <1>1, CellIs
<1>3. FrameOf(a) <= f /\ f <= FrameOf(end - 1)
  BY FramesTouched
<1>4. Prepared(st, a, n).mem[c] = IF f \in (head \cup tail) \ st.frames THEN Zero ELSE st.mem[c]
  BY DEF Prepared, Inited, State
<1>5. SUFFICES ASSUME f \notin head, f \notin tail PROVE InGap(a, end, c)
  BY <1>4
<1>6. a <= f * FrameCells
  <2>1. CASE FrameOf(a) < f
    <3>1. ~(f * FrameCells <= a)
      BY <1>2, <2>1, CellIs
    <3>2. QED
      BY <1>2, <3>1, Sizes
  <2>2. CASE FrameOf(a) = f
    <3>1. a % FrameCells = 0
      BY <1>5, <2>2, Sizes
    <3>2. a = FrameOf(a) * FrameCells
      BY <1>5, <3>1, Sizes, MultipleIs DEF FrameOf
    <3>3. QED
      BY <2>2, <3>2
  <2>3. QED
    BY <1>2, <1>3, <2>1, <2>2
<1>7. f * FrameCells <= c
  BY <1>1, <1>2, CellIs
<1>8. end <= c
  <2>1. a <= c
    BY <1>1, <1>2, <1>6, <1>7, Sizes
  <2>2. QED
    BY <1>1, <2>1
<1>9. f = FrameOf(end - 1)
  <2>1. FrameOf(end - 1) <= f
    BY <1>1, <1>8, Ordered
  <2>2. QED
    BY <1>2, <1>3, <2>1
<1>10. f * FrameCells < end
  <2>1. f * FrameCells <= end - 1
    BY <1>1, <1>2, <1>9, CellIs
  <2>2. QED
    BY <1>1, <1>2, <2>1, Sizes
<1>11. PICK next \in Nat : next = (f + 1) * FrameCells /\ c < next
  <2>1. f + 1 \in Nat /\ ~(f + 1 <= f)
    BY <1>2
  <2>2. (f + 1) * FrameCells \in Nat /\ ~((f + 1) * FrameCells <= c)
    BY <1>1, <2>1, CellIs, Sizes
  <2>3. QED
    BY <1>1, <2>2
<1>12. alignedEnd + PageCells = (PageOf(end) + 1) * PageCells /\ alignedEnd \in Nat
  BY <1>2, Sizes
<1>13. alignedEnd + PageCells >= next
  <2>1. SUFFICES ASSUME alignedEnd + PageCells < next PROVE FALSE
    BY <1>11, <1>12, Sizes
  <2>2. FrameOf(alignedEnd) = f
    BY <1>1, <1>9, <1>11, <2>1, TailFrame
  <2>3. f \in tail
    BY <1>9, <1>11, <2>1, <2>2
  <2>4. QED
    BY <1>5, <2>3
<1>14. alignedEnd + PageCells = next
  <2>1. PageOf(end) <= PageOf(c)
    BY <1>1, <1>8, Ordered
  <2>2. ((f + 1) * FramePages) * PageCells = next /\ (f + 1) * FramePages \in Nat
    <3>1. f + 1 \in Nat
      BY <1>2
    <3>2. QED
      BY <1>11, <3>1, Sizes
  <2>3. ~((f + 1) * FramePages <= PageOf(c))
    BY <1>1, <1>11, <2>2, CellIs
  <2>4. PageOf(end) + 1 <= (f + 1) * FramePages
    BY <1>1, <1>2, <2>1, <2>2, <2>3, CellIs
  <2>5. (PageOf(end) + 1) * PageCells <= ((f + 1) * FramePages) * PageCells
    BY <1>2, <2>2, <2>4, Sizes
  <2>6. QED
    BY <1>11, <1>12, <1>13, <2>2, <2>5, Sizes
<1>15. QED
  BY <1>6, <1>8, <1>10, <1>11, <1>12, <1>14 DEF InGap

(* What prepare_memory leaves alone, and what it marks.                    *)
LEMMA PreparedKeeps ==
  ASSUME NEW st, NEW a \in Nat, NEW n \in Nat \ {0}
  PROVE  LET past == Prepared(st, a, n) IN
         /\ \A c \in Addr : FrameOf(c) \in st.frames => past.mem[c] = st.mem[c]
         /\ \A f : f \in past.frames <=> f \in st.frames \/ f \in FramesOfPages(PageIndices(a, n))
         /\ past.flags = Dirtied(st.flags, a, n)
<1> DEFINE end        == a + n
           alignedEnd == PageOf(end) * PageCells
           nextFrame  == (FrameOf(end - 1) + 1) * FrameCells
           head    == IF a % FrameCells > 0 THEN {FrameOf(a)} ELSE {}
           tail    == IF alignedEnd + PageCells < nextFrame THEN {FrameOf(alignedEnd)} ELSE {}
           fs      == head \cup tail
           touched == FramesOfPages(PageIndices(a, n))
<1>1. fs \subseteq touched
  <2>1. a \in a .. a + n - 1 /\ end - 1 \in a .. a + n - 1 /\ end \in Nat \ {0}
    OBVIOUS
  <2>2. FrameOf(a) \in touched /\ FrameOf(end - 1) \in touched
    BY <2>1, FramesTouched
  <2>3. tail \subseteq {FrameOf(end - 1)}
    BY <2>1, TailFrame
  <2>4. QED
    BY <2>2, <2>3
<1>2. /\ Prepared(st, a, n).mem = Inited(st, fs).mem
      /\ Prepared(st, a, n).frames = Inited(st, fs).frames \cup touched
      /\ Prepared(st, a, n).flags = Dirtied(Inited(st, fs).flags, a, n)
  BY DEF Prepared, State
<1>3. /\ \A c \in Addr : FrameOf(c) \in st.frames => Inited(st, fs).mem[c] = st.mem[c]
      /\ Inited(st, fs).frames = st.frames \cup fs
      /\ Inited(st, fs).flags = st.flags
  BY DEF Inited, State
<1>4. QED
  BY <1>1, <1>2, <1>3

(* The cells seen are as if data were stored at x in what should be seen,  *)
(* but for the gap before; what is stored begins where the gap begins.     *)
Agree(st, a, x, m) == \A c \in Addr : View(st)[c] = m[c] \/ InGap(a, x, c)

LEMMA FastStoreAgrees ==
  ASSUME NEW st, NEW a, NEW x, NEW n, NEW v, NEW m,
         a \in Nat, x \in Nat, n \in Nat, a <= x, Agree(st, a, x, m)
  PROVE  Agree(FastStore(st, x, Copies(v, n)), a, x + n, Written(m, x, Copies(v, n)))
<1> DEFINE new  == FastStore(st, x, Copies(v, n))
           past == Prepared(st, x, n)
<1>1. DOMAIN Copies(v, n) = 1 .. n /\ Len(Copies(v, n)) = n /\ (Copies(v, n) = <<>> <=> n = 0)
  BY DEF Copies
<1>2. SUFFICES ASSUME NEW c \in Addr
               PROVE  View(new)[c] = Written(m, x, Copies(v, n))[c] \/ InGap(a, x + n, c)
  BY DEF Agree
<1>3. c \in Nat /\ x + n \in Nat /\ x <= x + n
  BY Sizes DEF Addr
<1>4. View(st)[c] = m[c] \/ InGap(a, x, c)
  BY DEF Agree
<1>5. CASE n = 0
  <2>1. new = st
    BY <1>1, <1>5 DEF FastStore
  <2>2. Written(m, x, Copies(v, n))[c] = m[c]
    BY <1>1, <1>3, <1>5 DEF Written
  <2>3. x + n = x
    BY <1>5
  <2>4. QED
    BY <1>4, <2>1, <2>2, <2>3
<1>6. CASE n # 0
  <2>1. n \in Nat \ {0}
    BY <1>6
  <2>2. /\ new.mem = Written(past.mem, x, Copies(v, n))
        /\ \A f : f \in new.frames <=> f \in st.frames \/ f \in FramesOfPages(PageIndices(x, n))
    <3>1. new = State(Written(past.mem, x, Copies(v, n)), past.frames, past.flags)
      BY <1>1, <1>6 DEF FastStore
    <3>2. \A f : f \in past.frames <=> f \in st.frames \/ f \in FramesOfPages(PageIndices(x, n))
      BY <2>1, PreparedKeeps
    <3>3. QED
      BY <3>1, <3>2 DEF State
  <2>0. \A d \in Addr : FrameOf(d) \in st.frames => past.mem[d] = st.mem[d]
    BY <2>1, PreparedKeeps
  <2> HIDE DEF new, past
  <2>3. View(new)[c] = IF FrameOf(c) \in new.frames THEN new.mem[c] ELSE Zero
    BY DEF View
  <2>4. View(st)[c] = IF FrameOf(c) \in st.frames THEN st.mem[c] ELSE Zero
    BY DEF View
  <2>5. CASE c \in x .. x + n - 1
    <3>1. FrameOf(c) \in new.frames
      BY <2>1, <2>2, <2>5, FramesTouched
    <3>2. c - x + 1 \in DOMAIN Copies(v, n)
      BY <1>1, <1>3, <2>5
    <3>3. QED
      BY <2>2, <2>3, <3>1, <3>2 DEF Written
  <2>6. CASE c \notin x .. x + n - 1
    <3>1. c - x + 1 \notin DOMAIN Copies(v, n)
      BY <1>1, <1>3, <2>6
    <3>2. new.mem[c] = past.mem[c] /\ Written(m, x, Copies(v, n))[c] = m[c]
      BY <2>2, <3>1 DEF Written
    <3>3. View(new)[c] = View(st)[c] \/ InGap(x, x + n, c)
      <4>1. CASE FrameOf(c) \in st.frames
        BY <2>0, <2>2, <2>3, <2>4, <3>2, <4>1
      <4>2. CASE FrameOf(c) \notin new.frames
        BY <2>2, <2>3, <2>4, <4>2
      <4>3. CASE FrameOf(c) \in new.frames /\ FrameOf(c) \notin st.frames
        <5>1. past.mem[c] = Zero \/ InGap(x, x + n, c)
          BY <2>1, <2>2, <2>6, <4>3, PreparedZeroes DEF past
        <5>2. QED
          BY <2>3, <2>4, <3>2, <4>3, <5>1
      <4>4. QED
        BY <4>1, <4>2, <4>3
    <3>4. CASE InGap(x, x + n, c)
      BY <1>3, <3>4, GapFromLower
    <3>5. CASE InGap(a, x, c)
      <4>1. x + n <= c
        BY <1>3, <2>6, <3>5 DEF InGap
      <4>2. QED
        BY <1>3, <3>5, <4>1, GapToHigher
    <3>6. QED
      BY <1>4, <3>2, <3>3, <3>4, <3>5
  <2>7. QED
    BY <2>5, <2>6 DEF new
<1>7. QED
  BY <1>5, <1>6

(* A segment that does not leave the last page of a frame leaves no gap.   *)
LEMMA NoGap ==
  ASSUME NEW seg \in Segments, ~LeavesLastPage(seg),
         seg.addr % PageCells = 0, seg.size % PageCells = 0,
         NEW c \in Addr
  PROVE  ~InGap(seg.addr, seg.addr + seg.size, c)
<1> DEFINE a   == seg.addr
           end == seg.addr + seg.size
           f   == FrameOf(c)
<1>1. a \in Nat /\ seg.size \in Nat /\ end \in Nat /\ c \in Nat
  <2>1. a \in Nat /\ seg.size \in Nat
    BY AsmMemoryAssumption
  <2>2. c \in Nat
    BY Sizes DEF Addr
  <2>3. QED
    BY <2>1, <2>2
<1>2. f \in Nat /\ PageOf(end) \in Nat /\ f * FrameCells \in Nat
  BY <1>1, CellIs, Sizes
<1>3. SUFFICES ASSUME InGap(a, end, c) PROVE FALSE
  OBVIOUS
<1>4. end <= c /\ a <= f * FrameCells /\ f * FrameCells < end
  BY <1>3 DEF InGap
<1>5. end - 1 \in Nat /\ seg.size > 0
  BY <1>1, <1>2, <1>4
<1>6. FrameOf(end - 1) = f
  <2>1. f <= FrameOf(end - 1)
    BY <1>1, <1>2, <1>4, <1>5, CellIs
  <2>2. FrameOf(end - 1) <= f
    BY <1>1, <1>4, <1>5, Ordered
  <2>3. FrameOf(end - 1) \in Nat
    BY <1>5, CellIs
  <2>4. QED
    BY <1>2, <2>1, <2>2, <2>3
<1>7. end = PageOf(end) * PageCells
  <2>1. (a \div PageCells) * PageCells = a /\ (seg.size \div PageCells) * PageCells = seg.size
    BY <1>1, MultipleIs, Sizes
  <2> DEFINE i == a \div PageCells
             j == seg.size \div PageCells
  <2>2. i * PageCells = a /\ j * PageCells = seg.size /\ i \in Nat /\ j \in Nat
    BY <1>1, <2>1, Sizes
  <2> HIDE DEF i, j
  <2>3. (i + j) * PageCells = end /\ i + j \in Nat
    BY <2>2, Sizes
  <2>4. i + j <= PageOf(end)
    BY <1>1, <2>3, CellIs
  <2>5. end <= PageOf(end) * PageCells
    BY <1>2, <2>3, <2>4, Sizes
  <2>6. PageOf(end) * PageCells <= end
    BY <1>1, <1>2, CellIs
  <2>7. PageOf(end) * PageCells \in Nat
    BY <1>2, Sizes
  <2>8. QED
    BY <1>1, <2>5, <2>6, <2>7
<1>8. end + PageCells = (f + 1) * FrameCells
  <2>1. (PageOf(end) + 1) * PageCells = PageOf(end) * PageCells + PageCells
    BY <1>2, Sizes
  <2>2. QED
    BY <1>3, <1>7, <2>1 DEF InGap
<1>9. (end + PageCells) % FrameCells = 0
  <2>1. f + 1 \in Nat /\ FrameCells \in Nat \ {0}
    BY <1>2, Sizes
  <2>2. QED
    BY <1>8, <2>1, MultipleOf
<1>10. QED
  BY <1>2, <1>4, <1>5, <1>6, <1>9 DEF LeavesLastPage

(* What filling a segment, or a part of it, does to the maps.              *)
Marked(st, new, ps) ==
  /\ \A p \in Page : \/ new.flags[p] = st.flags[p]
                     \/ p \in ps /\ new.flags[p] = st.flags[p] \cup {"dirty"}
  /\ \A f \in new.frames : f \in st.frames \/ f \in Frame
  /\ DOMAIN st.mem = Addr => DOMAIN new.mem = Addr

LEMMA FramesInMemory ==
  ASSUME NEW a \in Nat, NEW n \in Nat \ {0}, a + n <= Size
  PROVE  FramesOfPages(PageIndices(a, n)) \subseteq Frame
<1>1. a + n - 1 \in Nat /\ a + n - 1 < Size
  BY Sizes
<1>2. FrameOf(a + n - 1) \in Frame
  BY <1>1, WithinMemory
<1>3. ASSUME NEW f \in FramesOfPages(PageIndices(a, n))
      PROVE  f \in Frame
  <2>1. f \in Nat /\ f <= FrameOf(a + n - 1)
    BY FramesTouched
  <2>2. NPages \div FramePages \in Nat
    BY Sizes
  <2>3. QED
    BY <1>2, <2>1, <2>2 DEF Frame
<1>4. QED
  BY <1>3

LEMMA PagesOfPart ==
  ASSUME NEW a \in Nat, NEW size \in Nat, NEW x \in Nat, NEW n \in Nat \ {0},
         a <= x, x + n <= a + size
  PROVE  PageIndices(x, n) \subseteq PageIndices(a, size)
<1>1. size # 0 /\ x + n - 1 \in Nat /\ a + size - 1 \in Nat /\ x + n - 1 <= a + size - 1
  OBVIOUS
<1>2. PageOf(a) <= PageOf(x) /\ PageOf(x + n - 1) <= PageOf(a + size - 1)
  BY <1>1, Ordered
<1>3. /\ PageOf(a) \in Nat /\ PageOf(x) \in Nat
      /\ PageOf(x + n - 1) \in Nat /\ PageOf(a + size - 1) \in Nat
  BY <1>1, CellIs
<1>4. PageOf(x) .. PageOf(x + n - 1) \subseteq PageOf(a) .. PageOf(a + size - 1)
  BY <1>2, <1>3
<1>5. QED
  BY <1>1, <1>4 DEF PageIndices

LEMMA FastStoreMarks ==
  ASSUME NEW st, NEW a, NEW size, NEW x, NEW n, NEW v,
         a \in Nat, size \in Nat, x \in Nat, n \in Nat,
         a + size <= Size, a <= x, x + n <= a + size
  PROVE  Marked(st, FastStore(st, x, Copies(v, n)), PageIndices(a, size))
<1> DEFINE new  == FastStore(st, x, Copies(v, n))
           past == Prepared(st, x, n)
<1>1. Len(Copies(v, n)) = n /\ (Copies(v, n) = <<>> <=> n = 0)
  BY DEF Copies
<1>2. CASE n = 0
  BY <1>1, <1>2 DEF FastStore, Marked
<1>3. CASE n # 0
  <2>1. n \in Nat \ {0}
    BY <1>3
  <2>2. new = State(Written(past.mem, x, Copies(v, n)), past.frames, past.flags)
    BY <1>1, <1>3 DEF FastStore
  <2>3. new.frames = past.frames /\ new.flags = past.flags /\ DOMAIN new.mem = Addr
    BY <2>2 DEF State, Written
  <2>4. \A f : f \in past.frames <=> f \in st.frames \/ f \in FramesOfPages(PageIndices(x, n))
    BY <2>1, PreparedKeeps
  <2>5. past.flags = Dirtied(st.flags, x, n)
    BY <2>1, PreparedKeeps
  <2>6. FramesOfPages(PageIndices(x, n)) \subseteq Frame
    BY <2>1, FramesInMemory, Sizes
  <2>7. PageIndices(x, n) \subseteq PageIndices(a, size)
    BY <2>1, PagesOfPart
  <2> HIDE DEF new, past
  <2>8. QED
    BY <2>3, <2>4, <2>5, <2>6, <2>7 DEF Marked, Dirtied, SetFlag, new
<1>4. QED
  BY <1>2, <1>3

LEMMA WrittenCell ==
  ASSUME NEW m, NEW x, NEW n, NEW v, NEW c \in Addr, x \in Nat, n \in Nat
  PROVE  Written(m, x, Copies(v, n))[c] = IF c \in x .. x + n - 1 THEN v ELSE m[c]
<1>1. c \in Nat
  BY Sizes DEF Addr
<1>2. c - x + 1 \in 1 .. n <=> c \in x .. x + n - 1
  BY <1>1
<1>3. QED
  BY <1>2 DEF Written, Copies

(* fill_page_data on a memory that is zeroed lazily fills as it does on a  *)
(* memory that is zero, and marks no page outside the segment.             *)
LEMMA FillsAlike ==
  ASSUME NEW st, NEW seg \in Segments, NEW fl,
         InitPagesOk(fl, seg.addr, seg.size, seg.pad)
  PROVE  LET new == FilledFast(st, seg) IN
         /\ Marked(st, new, PageIndices(seg.addr, seg.size))
         /\ ~LeavesLastPage(seg) =>
              View(new) = Filled(View(st), seg.addr, seg.size, Flat!SourceData(seg), seg.pad)
<1> DEFINE a    == seg.addr
           size == seg.size
           pad  == seg.pad
           real == IF seg.len < size - pad THEN seg.len ELSE size - pad
           rest == size - pad - real
           x2   == a + pad
           x3   == a + pad + real
           st1 == FastStore(st, a, Copies(Zero, pad))
           st2 == FastStore(st1, x2, Copies("source", real))
           st3 == FastStore(st2, x3, Copies(Zero, rest))
           m0 == View(st)
           m1 == Written(m0, a, Copies(Zero, pad))
           m2 == Written(m1, x2, Copies("source", real))
           m3 == Written(m2, x3, Copies(Zero, rest))
           ps == PageIndices(a, size)
<1>1. /\ a \in Nat /\ size \in Nat /\ pad \in Nat /\ pad <= size /\ a + size <= Size
      /\ a % PageCells = 0 /\ size % PageCells = 0 /\ seg.len \in Nat
  BY AsmMemoryAssumption DEF InitPagesOk
<1>2. /\ real \in Nat /\ rest \in Nat /\ x2 \in Nat /\ x3 \in Nat
      /\ x2 = a + pad /\ x3 = x2 + real /\ a + size = x3 + rest
      /\ real <= seg.len /\ (real = seg.len \/ rest = 0)
      /\ a <= a /\ a <= x2 /\ a <= x3
      /\ a + pad <= a + size /\ x2 + real <= a + size /\ x3 + rest <= a + size
  BY <1>1
<1>3. FilledFast(st, seg) = st3
  BY DEF FilledFast
<1> HIDE DEF a, size, pad, real, rest, x2, x3
<1>4. ASSUME ~LeavesLastPage(seg)
      PROVE  View(st3) = m3
  <2>1. Agree(st, a, a, m0)
    BY DEF Agree
  <2>2. Agree(st1, a, x2, m1)
    BY <1>1, <1>2, <2>1, FastStoreAgrees
  <2> HIDE DEF st1, m1
  <2>3. Agree(st2, a, x3, m2)
    BY <1>1, <1>2, <2>2, FastStoreAgrees, Zenon
  <2> HIDE DEF st2, m2
  <2>4. Agree(st3, a, a + size, m3)
    BY <1>1, <1>2, <2>3, FastStoreAgrees, Zenon
  <2> HIDE DEF st3, m3
  <2>5. \A c \in Addr : ~InGap(a, a + size, c)
    BY <1>1, <1>4, NoGap DEF a, size
  <2>6. \A c \in Addr : View(st3)[c] = m3[c]
    BY <2>4, <2>5 DEF Agree
  <2>7. QED
    BY <2>6 DEF View, m3, Written
<1>5. m3 = Filled(m0, a, size, Flat!SourceData(seg), pad)
  <2>1. SUFFICES ASSUME NEW c \in Addr
                 PROVE  m3[c] = Filled(m0, a, size, Flat!SourceData(seg), pad)[c]
    BY DEF Written, Filled
  <2>2. c \in Nat
    BY Sizes DEF Addr
  <2>3. m1[c] = IF c \in a .. a + pad - 1 THEN Zero ELSE m0[c]
    BY <1>1, WrittenCell
  <2> HIDE DEF m0, m1
  <2>4. m2[c] = IF c \in x2 .. x2 + real - 1 THEN "source" ELSE m1[c]
    BY <1>2, WrittenCell
  <2> HIDE DEF m2
  <2>5. m3[c] = IF c \in x3 .. x3 + rest - 1 THEN Zero ELSE m2[c]
    BY <1>2, WrittenCell
  <2> HIDE DEF m3
  <2>6. /\ DOMAIN Flat!SourceData(seg) = 1 .. seg.len
        /\ \A k \in 1 .. seg.len : Flat!SourceData(seg)[k] = "source"
    BY DEF Flat!SourceData
  <2>7. Filled(m0, a, size, Flat!SourceData(seg), pad)[c]
          = IF c \notin a .. a + size - 1 THEN m0[c]
            ELSE IF c - a - pad + 1 \in 1 .. seg.len THEN "source" ELSE Zero
    BY <2>6 DEF Filled
  <2>8. QED
    BY <1>1, <1>2, <2>2, <2>3, <2>4, <2>5, <2>7
<1>6. Marked(st, st1, ps)
  BY <1>1, <1>2, FastStoreMarks, Zenon
<1> HIDE DEF st1
<1>7. Marked(st1, st2, ps)
  BY <1>1, <1>2, FastStoreMarks, Zenon
<1> HIDE DEF st2
<1>8. Marked(st2, st3, ps)
  BY <1>1, <1>2, FastStoreMarks, Zenon
<1> HIDE DEF st3, m3, ps
<1>9. Marked(st, st3, ps)
  BY <1>6, <1>7, <1>8 DEF Marked
<1>10. QED
  BY <1>3, <1>4, <1>5, <1>9 DEF a, size, pad, ps

LEMMA MarkedAlike ==
  ASSUME NEW st, NEW new, NEW a, NEW n, NEW fs, Marked(st, new, PageIndices(a, n))
  PROVE  FilledFlags(new.flags, a, n, fs) = FilledFlags(st.flags, a, n, fs)
  BY DEF Marked, FilledFlags, SetFlag

(***************************************************************************)
(* Types                                                                   *)
(***************************************************************************)
MapsTyped ==
  DOMAIN mem = Addr /\ flags \in [Page -> SUBSET Flags] /\ frames \subseteq Frame

LEMMA FramesOfMemory ==
  ASSUME NEW ps, ps \subseteq Page
  PROVE  FramesOfPages(ps) \subseteq Frame
<1> DEFINE n == NPages \div FramePages
<1>1. n \in Nat /\ NPages = n * FramePages
  BY Sizes, AsmMemoryAssumption
<1> HIDE DEF n
<1>2. ASSUME NEW q \in ps
      PROVE  q \div FramePages \in Frame
  <2>1. q \in Nat /\ q < NPages
    BY Sizes DEF Page
  <2>2. q \div FramePages \in Nat /\ ~(n <= q \div FramePages)
    BY <1>1, <2>1, Sizes, DivIs
  <2>3. QED
    BY <1>1, <2>2 DEF Frame, n
<1>3. QED
  BY <1>2 DEF FramesOfPages

LEMMA SetFlagTyped ==
  ASSUME NEW fl \in [Page -> SUBSET Flags], NEW ps, NEW fs, fs \subseteq Flags
  PROVE  /\ SetFlag(fl, ps, fs) \in [Page -> SUBSET Flags]
         /\ ClearFlag(fl, ps, fs) \in [Page -> SUBSET Flags]
  BY DEF SetFlag, ClearFlag

LEMMA InitedTyped ==
  ASSUME NEW fs, MapsTyped, fs \subseteq Frame, Becomes(Inited(Here, fs))
  PROVE  MapsTyped'
<1>1. DOMAIN mem' = Addr
  BY DEF Becomes, Inited, State
<1>2. QED
  BY <1>1, InitedMaps DEF MapsTyped

LEMMA AccessIs ==
  ASSUME NEW acc \in Accesses
  PROVE  /\ acc[1] \in Nat /\ acc[2] \in Nat /\ acc[2] # 0 /\ acc[2] \in Nat \ {0}
         /\ PageOf(acc[1]) \in Nat /\ PageIndices(acc[1], acc[2]) \subseteq Nat
         /\ PageOf(acc[1]) \in PageIndices(acc[1], acc[2])
<1>1. acc[1] \in Nat /\ acc[2] \in Nat /\ acc[2] # 0 /\ acc[2] \in Nat \ {0}
  BY AsmMemoryAssumption
<1>2. acc[1] + acc[2] - 1 \in Nat
  BY <1>1
<1>3. PageOf(acc[1]) \in Nat /\ PageOf(acc[1] + acc[2] - 1) \in Nat
  BY <1>1, <1>2, CellIs
<1>4. PageIndices(acc[1], acc[2]) \subseteq Nat
  BY <1>1, <1>3 DEF PageIndices
<1>5. QED
  BY <1>1, <1>3, <1>4, FirstPageAccessed

LEMMA OpenedInMemory ==
  ASSUME NEW ps, ps \subseteq Nat
  PROVE  Opened(ps) \subseteq Page
<1>1. SUFFICES ASSUME NEW q \in Opened(ps), q \notin Page PROVE FALSE
  OBVIOUS
<1>2. q \in ps /\ q <= q
  BY <1>1 DEF Opened
<1>3. QED
  BY <1>1, <1>2 DEF Opened, Refuses

LEMMA StoredTyped ==
  ASSUME NEW acc \in Accesses, NEW v, MapsTyped, Stored(acc[1], acc[2], v)
  PROVE  MapsTyped'
<1> DEFINE ps     == PageIndices(acc[1], acc[2])
           opened == Opened(ps)
<1>1. frames' = frames \cup FramesOfPages(opened) /\ flags' = SetFlag(flags, opened, {"dirty"})
  BY StoredMaps
<1>2. opened \subseteq Page
  BY AccessIs, OpenedInMemory
<1>3. FramesOfPages(opened) \subseteq Frame
  BY <1>2, FramesOfMemory
<1>4. flags' \in [Page -> SUBSET Flags]
  BY <1>1, SetFlagTyped DEF MapsTyped, Flags
<1>5. DOMAIN mem' = Addr
  BY DEF Stored, Becomes, Open, State, Written, Inited
<1>6. QED
  BY <1>1, <1>3, <1>4, <1>5 DEF MapsTyped

(* check_no_overflow, and the pages of an access.                          *)
LEMMA WithinBounds ==
  ASSUME NEW acc \in Accesses
  PROVE  /\ NoOverflow(acc[1], acc[2]) <=> acc[1] + acc[2] <= Size
         /\ NoOverflow(acc[1], acc[2]) <=> PageIndices(acc[1], acc[2]) \subseteq Page
         /\ NoOverflow(acc[1], acc[2]) =>
              FramesOfPages(PageIndices(acc[1], acc[2])) \subseteq Frame
<1> DEFINE a    == acc[1]
           n    == acc[2]
           last == a + n - 1
<1>1. a \in Nat /\ n \in Nat \ {0} /\ last \in Nat /\ Size \in Nat /\ NPages \in Nat
  BY AccessIs, Sizes
<1>2. NoOverflow(a, n) <=> a + n <= Size
  BY <1>1 DEF NoOverflow
<1>3. PageIndices(a, n) = PageOf(a) .. PageOf(last)
  BY <1>1 DEF PageIndices
<1>4. PageOf(a) \in Nat /\ PageOf(last) \in Nat /\ PageOf(a) <= PageOf(last)
  BY <1>1, CellIs, Ordered
<1>5. PageOf(last) \in Page <=> last < Size
  BY <1>1, WithinMemory
<1>6. PageIndices(a, n) \subseteq Page <=> PageOf(last) \in Page
  BY <1>1, <1>3, <1>4 DEF Page
<1>7. a + n <= Size <=> last < Size
  BY <1>1
<1>8. NoOverflow(a, n) => FramesOfPages(PageIndices(a, n)) \subseteq Frame
  BY <1>1, <1>2, FramesInMemory
<1>9. QED
  BY <1>2, <1>5, <1>6, <1>7, <1>8

LEMMA FilledTyped ==
  ASSUME NEW seg \in Segments, MapsTyped, InitPagesOk(flags, seg.addr, seg.size, seg.pad),
         NEW st, st = FilledFast(Here, seg),
         Becomes(State(st.mem, st.frames, FilledFlags(st.flags, seg.addr, seg.size, seg.flags)))
  PROVE  /\ MapsTyped'
         /\ flags' = FilledFlags(flags, seg.addr, seg.size, seg.flags)
<1>1. Marked(Here, st, PageIndices(seg.addr, seg.size))
  BY FillsAlike
<1>2. flags' = FilledFlags(flags, seg.addr, seg.size, seg.flags)
  BY <1>1, MarkedAlike DEF Becomes, State, Here
<1>3. flags' \in [Page -> SUBSET Flags]
  BY <1>2, SetFlagTyped, AsmMemoryAssumption DEF FilledFlags, MapsTyped, Flags
<1>4. DOMAIN mem' = Addr /\ frames' \subseteq Frame
  BY <1>1 DEF Marked, Becomes, State, Here, MapsTyped
<1>5. QED
  BY <1>2, <1>3, <1>4 DEF MapsTyped

LEMMA TypesHold == Init => AsmTypeOK
<1> SUFFICES ASSUME Init PROVE AsmTypeOK
  OBVIOUS
<1>1. DOMAIN mem = Addr /\ flags \in [Page -> SUBSET Flags] /\ frames \subseteq Frame
  BY DEF Init, ZeroMem, NoFlags
<1>2. version0 \in BOOLEAN /\ failed \in BOOLEAN
  BY Zenon DEF Init
<1>3. ops \in 0 .. MaxOps
  BY AsmMemoryAssumption DEF Init
<1>4. QED
  BY <1>1, <1>2, <1>3 DEF Init, AsmTypeOK

CachesTyped ==
  (lastWrite \in Page \cup {NoPage} \/ failed) /\ lastRead \in Frame \cup {NoPage}

LEMMA TypesKept == AsmTypeOK /\ [Next]_vars => AsmTypeOK'
<1> SUFFICES ASSUME AsmTypeOK, [Next]_vars PROVE AsmTypeOK'
  OBVIOUS
<1>1. MapsTyped /\ CachesTyped /\ version0 \in BOOLEAN /\ failed \in BOOLEAN /\ ops \in 0 .. MaxOps
  BY DEF AsmTypeOK, MapsTyped, CachesTyped
<1>2. ASSUME Step, failed' \in BOOLEAN, MapsTyped', CachesTyped'
      PROVE  AsmTypeOK'
  BY <1>1, <1>2, AsmMemoryAssumption DEF Step, AsmTypeOK, MapsTyped, CachesTyped
<1>3. ASSUME UNCHANGED <<mem, frames, flags>>
      PROVE  MapsTyped'
  BY <1>1, <1>3 DEF MapsTyped
<1>4. ASSUME NEW seg \in Segments, InitPages(seg)
      PROVE  AsmTypeOK'
  <2>1. Step /\ failed' = failed
    BY <1>4 DEF InitPages
  <2>2. CASE InitPagesOk(flags, seg.addr, seg.size, seg.pad)
    <3>1. MapsTyped'
      BY <1>1, <1>4, <2>2, FilledTyped DEF InitPages
    <3>2. CachesTyped'
      BY <1>4, <2>2 DEF InitPages, CachesTyped
    <3>3. QED
      BY <1>1, <1>2, <2>1, <3>1, <3>2
  <2>3. CASE ~InitPagesOk(flags, seg.addr, seg.size, seg.pad)
    BY <1>1, <1>2, <1>3, <1>4, <2>1, <2>3 DEF InitPages, CachesTyped
  <2>4. QED
    BY <2>2, <2>3
<1>5. ASSUME NEW acc \in Accesses, NEW v \in Values, StoreBytes(acc[1], acc[2], v)
      PROVE  AsmTypeOK'
  <2>1. Step /\ lastRead' = lastRead /\ failed' = failed
    BY <1>5 DEF StoreBytes
  <2>2. MapsTyped'
    BY <1>1, <1>3, <1>5, StoredTyped DEF StoreBytes
  <2>3. CachesTyped'
    BY <1>1, <1>5, <2>1 DEF StoreBytes, CachesTyped, WriteCacheAfterFlags
  <2>4. QED
    BY <1>1, <1>2, <2>1, <2>2, <2>3
<1>6. ASSUME NEW acc \in Accesses, LoadBytes(acc[1], acc[2])
      PROVE  AsmTypeOK'
  <2> DEFINE ps == PageIndices(acc[1], acc[2])
  <2>1. Step /\ UNCHANGED <<lastWrite, lastRead, failed>>
    BY <1>6 DEF LoadBytes
  <2>2. CASE Becomes(Here)
    BY <1>1, <1>2, <2>1, <2>2 DEF Becomes, Here, State, MapsTyped, CachesTyped
  <2>3. CASE \E fs : fs \subseteq Frame /\ Becomes(Inited(Here, fs))
    BY <1>1, <1>2, <2>1, <2>3, InitedTyped DEF CachesTyped
  <2>4. FramesOfPages(ps \cap Page) \subseteq Frame
    BY FramesOfMemory
  <2>5. NoOverflow(acc[1], acc[2]) => FramesOfPages(ps) \subseteq Frame
    BY WithinBounds
  <2>6. QED
    BY <1>6, <2>2, <2>3, <2>4, <2>5 DEF LoadBytes
<1>7. ASSUME NEW acc \in Words, Fetch(acc[1], acc[2])
      PROVE  AsmTypeOK'
  <2> DEFINE ps     == PageIndices(acc[1], acc[2])
             Bad(p) == p \notin Page \/ "executable" \notin flags[p]
             passed == {p \in ps : \A q \in ps : q <= p => ~Bad(q)}
  <2>1. Step /\ UNCHANGED <<lastWrite, lastRead, failed>>
    BY <1>7 DEF Fetch
  <2>2. Becomes(Inited(Here, FramesOfPages(passed)))
    BY <1>7 DEF Fetch
  <2>3. passed \subseteq Page
    <3>1. ps \subseteq Nat
      BY AccessIs DEF Words
    <3>2. \A p \in ps : p <= p
      BY <3>1
    <3>3. QED
      BY <3>2
  <2>4. MapsTyped'
    BY <1>1, <2>2, <2>3, FramesOfMemory, InitedTyped
  <2>5. QED
    BY <1>1, <1>2, <2>1, <2>4 DEF CachesTyped
<1>8. ASSUME NEW p \in Page, NEW fs \in FlagSets, ChangeFlag(p, fs)
      PROVE  AsmTypeOK'
  <2>1. Step /\ failed' = failed /\ CachesTyped'
    BY <1>1, <1>8 DEF ChangeFlag, CachesTyped, WriteCacheAfterFlags
  <2>2. fs \subseteq Flags
    BY AsmMemoryAssumption
  <2>3. MapsTyped'
    BY <1>1, <1>8, <2>2, SetFlagTyped DEF ChangeFlag, MapsTyped
  <2>4. QED
    BY <1>1, <1>2, <2>1, <2>3
<1>9. CASE Reset
  <2>1. Step /\ failed' = failed /\ CachesTyped' /\ MapsTyped'
    BY <1>1, <1>9 DEF Reset, CachesTyped, MapsTyped, NoFlags, ReadCacheAfterReset
  <2>2. QED
    BY <1>1, <1>2, <2>1
<1>10. ASSUME NEW acc \in Words, NEW v \in Values, GuestStore(acc[1], acc[2], v)
       PROVE  AsmTypeOK'
  <2>1. Step /\ lastRead' = lastRead /\ acc \in Accesses
    BY <1>10 DEF GuestStore, Words
  <2>2. CASE WritesInLastPage(acc[1], acc[2])
    BY <1>1, <1>2, <1>10, <2>1, <2>2
    DEF GuestStore, MapsTyped, CachesTyped, Written
  <2>3. CASE /\ Stored(acc[1], acc[2], v)
             /\ lastWrite' = PageOf(acc[1]) /\ failed' = (out' = <<"refused">>)
    <3>1. failed' \in BOOLEAN
      BY <2>3
    <3>2. MapsTyped'
      BY <1>1, <2>1, <2>3, StoredTyped
    <3>3. ~failed' => lastWrite' \in Page
      BY <2>1, <2>3, StoreOpens DEF IsOpen, Refuses
    <3>4. CachesTyped'
      BY <1>1, <2>1, <3>3 DEF CachesTyped
    <3>5. QED
      BY <1>2, <2>1, <3>1, <3>2, <3>4
  <2>4. QED
    BY <1>10, <2>2, <2>3 DEF GuestStore
<1>11. ASSUME NEW acc \in Words, GuestLoad(acc[1], acc[2])
       PROVE  AsmTypeOK'
  <2> DEFINE a  == acc[1]
             n  == acc[2]
             fs == {FrameOf(a), FrameOf(a + n - 1)}
  <2>1. Step /\ lastWrite' = lastWrite /\ acc \in Accesses
    BY <1>11 DEF GuestLoad, Words
  <2>2. CASE Becomes(Here) /\ UNCHANGED <<lastRead, failed>>
    BY <1>1, <1>2, <2>1, <2>2 DEF Becomes, Here, State, MapsTyped, CachesTyped
  <2>3. CASE failed' = TRUE /\ UNCHANGED <<mem, frames, flags, lastRead>>
    BY <1>1, <1>2, <1>3, <2>1, <2>3 DEF CachesTyped
  <2>4. CASE /\ ~ReadRefused(a, n) /\ Becomes(Inited(Here, fs))
             /\ lastRead' = FrameOf(a) /\ UNCHANGED failed
    <3>1. a \in Nat /\ a + n - 1 \in Nat /\ a < Size /\ a + n - 1 < Size
      BY <2>1, <2>4, AccessIs, Sizes DEF ReadRefused
    <3>2. FrameOf(a) \in Frame /\ FrameOf(a + n - 1) \in Frame
      BY <3>1, WithinMemory
    <3>3. MapsTyped'
      BY <1>1, <2>4, <3>2, InitedTyped
    <3>4. QED
      BY <1>1, <1>2, <2>1, <2>4, <3>2, <3>3 DEF CachesTyped
  <2>5. QED
    BY <1>11, <2>2, <2>3, <2>4 DEF GuestLoad, Answered, FrameToRead
<1>12. CASE UNCHANGED vars
  BY <1>12 DEF vars, AsmTypeOK
<1>13. QED
  BY <1>4, <1>5, <1>6, <1>7, <1>8, <1>9, <1>10, <1>11, <1>12 DEF Next, Stopped

(* Every operation, in any order and number, keeps caches, flags and       *)
(* frames within the memory: what the assembly indexes its tables with.    *)
THEOREM AsmTypeCorrect == Spec => []AsmTypeOK
  BY TypesHold, TypesKept, PTL DEF Spec

(***************************************************************************)
(* Refinement                                                              *)
(***************************************************************************)

(* A step of FlatMachine, said in the terms of this module.                *)
FlatStore(a, n, v) ==
  \/ /\ Permitted(flags, a, n)
     /\ View(Here)' = Written(View(Here), a, Copies(v, n))
     /\ flags' = Dirtied(flags, a, n) /\ out' = <<"ok">>
  \/ /\ ~Permitted(flags, a, n)
     /\ \E ps \in SUBSET (PageIndices(a, n) \cap Page) : flags' = SetFlag(flags, ps, {"dirty"})
     /\ View(Here)' = View(Here) /\ out' = <<"refused">>

LEMMA StoreIsFlat ==
  ASSUME NEW acc \in Accesses, NEW v \in Values, FlatStore(acc[1], acc[2], v)
  PROVE  Flat!Store
  BY SameFlags, SameData, SamePages, SameSizes DEF FlatStore, Flat!Store

FlatLoad(by, a, n) ==
  /\ View(Here)' = View(Here) /\ flags' = flags
  /\ out' = IF NoOverflow(a, n) /\ ~(by = "guest" /\ version0 /\ a + n = Size)
            THEN <<by>> \o Data(View(Here), a, n) ELSE <<by, "refused">>

LEMMA LoadIsFlat ==
  ASSUME NEW by, NEW acc \in Accesses, FlatLoad(by, acc[1], acc[2])
  PROVE  Flat!Load(by)
  BY SameData, SamePages, SameSizes DEF FlatLoad, Flat!Load

FlatFetch(a, n) ==
  /\ View(Here)' = View(Here) /\ flags' = flags
  /\ out' = IF NoOverflow(a, n) /\ \A p \in PageIndices(a, n) : "executable" \in flags[p]
            THEN <<"fetch">> \o Data(View(Here), a, n) ELSE <<"refused">>

LEMMA FetchIsFlat ==
  ASSUME NEW acc \in Accesses, FlatFetch(acc[1], acc[2])
  PROVE  Flat!Fetch
  BY SameData, SamePages, SameSizes DEF FlatFetch, Flat!Fetch

(* Rust's store: answered if every page of it lets it, and as if the       *)
(* frames had been zero all along.                                         *)
LEMMA StoredIsFlat ==
  ASSUME NEW acc \in Accesses, NEW v \in Values, Stored(acc[1], acc[2], v)
  PROVE  FlatStore(acc[1], acc[2], v)
<1> DEFINE a      == acc[1]
           n      == acc[2]
           ps     == PageIndices(a, n)
           opened == Opened(ps)
           st     == Open(opened)
<1>1. flags' = SetFlag(flags, opened, {"dirty"})
  BY StoredMaps
<1>2. ps \subseteq Nat /\ n # 0 /\ n \in Nat \ {0} /\ a \in Nat /\ n \in Nat
  BY AccessIs
<1>3. opened \subseteq ps \cap Page
  BY <1>2, OpenedInMemory DEF Opened
<1>4. View(st) = View(Here) /\ st.frames = frames \cup FramesOfPages(opened)
  BY InitedUnseen DEF Open, View, State, Here
<1>5. CASE opened = ps
  <2>1. Permitted(flags, a, n)
    <3>1. NoOverflow(a, n)
      BY <1>3, <1>5, WithinBounds
    <3>2. \A p \in ps : "executable" \notin flags[p]
      <4>1. \A p \in ps : p <= p
        BY <1>2
      <4>2. QED
        BY <1>5, <4>1 DEF Opened, Refuses
    <3>3. QED
      BY <3>1, <3>2 DEF Permitted
  <2>2. /\ Becomes(State(Written(st.mem, a, Copies(v, n)), st.frames, st.flags))
        /\ out' = <<"ok">>
    BY <1>5 DEF Stored
  <2>3. Reaches(st, a, n)
    BY <1>2, <1>4, <1>5, FramesTouched DEF Reaches
  <2>4. View(Here)' = Written(View(st), a, Copies(v, n))
    <3> DEFINE new == State(Written(st.mem, a, Copies(v, n)), st.frames, st.flags)
    <3>1. View(Here)' = View(new)
      BY <2>2, Seen
    <3>2. new.mem = Written(st.mem, a, Copies(v, n)) /\ new.frames = st.frames
      BY DEF State
    <3> HIDE DEF a, n, st, new
    <3>3. View(new) = Written(View(st), a, Copies(v, n))
      BY <1>2, <2>3, <3>2, StoreSeen
    <3>4. QED
      BY <3>1, <3>3
  <2>5. flags' = Dirtied(flags, a, n)
    BY <1>1, <1>5 DEF Dirtied
  <2>6. QED
    BY <1>4, <2>1, <2>2, <2>4, <2>5 DEF FlatStore
<1>6. CASE opened # ps
  <2>1. PICK p \in ps : Refuses(p)
    BY <1>6 DEF Opened
  <2>2. ~Permitted(flags, a, n)
    BY <1>2, <2>1, WithinBounds DEF Permitted, Refuses
  <2>3. Becomes(st) /\ out' = <<"refused">>
    BY <1>6 DEF Stored
  <2>4. View(Here)' = View(Here)
    BY <1>4, <2>3, Seen
  <2>5. QED
    BY <1>1, <1>3, <2>2, <2>3, <2>4 DEF FlatStore
<1>7. QED
  BY <1>5, <1>6

(* The store of the assembly, when it starts and ends on the page it last  *)
(* stored to: what was checked then holds now.                             *)
LEMMA FastStoreIsFlat ==
  ASSUME NEW acc \in Accesses, NEW v \in Values, IsOpen(PageOf(acc[1])),
         flags \in [Page -> SUBSET Flags],
         WritesInLastPage(acc[1], acc[2]),
         mem' = Written(mem, acc[1], Copies(v, acc[2])), out' = <<"ok">>,
         UNCHANGED <<frames, flags>>
  PROVE  FlatStore(acc[1], acc[2], v)
<1> DEFINE a == acc[1]
           n == acc[2]
           p == PageOf(a)
           new == State(Written(mem, a, Copies(v, n)), frames, flags)
<1>1. /\ a \in Nat /\ n \in Nat /\ n # 0 /\ n \in Nat \ {0} /\ p \in Nat
      /\ a + n - 1 \in Nat /\ a + n \in Nat
  BY AccessIs
<1>2. PageIndices(a, n) = {p}
  <2>1. p <= PageOf(a + n - 1) /\ PageOf(a + n - 1) <= PageOf(a + n)
    <3>1. a <= a + n - 1 /\ a + n - 1 <= a + n
      BY <1>1
    <3>2. QED
      BY <1>1, <3>1, Ordered
  <2>2. PageOf(a + n - 1) \in Nat /\ PageOf(a + n) = p
    BY <1>1, CellIs DEF WritesInLastPage
  <2>3. PageOf(a + n - 1) = p
    BY <1>1, <2>1, <2>2
  <2>4. QED
    BY <1>1, <2>3 DEF PageIndices
<1>3. Permitted(flags, a, n)
  BY <1>2, WithinBounds DEF Permitted, IsOpen, Refuses
<1>4. flags' = Dirtied(flags, a, n)
  <2>1. flags[p] \cup {"dirty"} = flags[p]
    BY DEF IsOpen
  <2>2. QED
    BY <1>2, <2>1 DEF Dirtied, SetFlag
<1>5. Reaches(Here, a, n)
  <2>1. FramesOfPages(PageIndices(a, n)) \subseteq frames
    BY <1>2 DEF FramesOfPages, IsOpen
  <2>2. QED
    BY <1>1, <2>1, FramesTouched DEF Reaches, Here, State
<1>6. View(Here)' = Written(View(Here), a, Copies(v, n))
  <2> DEFINE st == Here
  <2>1. Becomes(new)
    BY DEF Becomes, State
  <2>2. View(Here)' = View(new)
    BY <2>1, Seen
  <2>3. new.mem = Written(st.mem, a, Copies(v, n)) /\ new.frames = st.frames
    BY DEF Here, State
  <2>4. Reaches(st, a, n)
    BY <1>5
  <2>5. View(new) = Written(View(st), a, Copies(v, n))
    <3> HIDE DEF a, n, st, new
    <3>1. QED
      BY <1>1, <2>3, <2>4, StoreSeen
  <2>6. QED
    BY <2>2, <2>5
<1>7. QED
  BY <1>3, <1>4, <1>6 DEF FlatStore

(* Loading from frames that are initialised, or are just then.             *)
LEMMA LoadedSeen ==
  ASSUME NEW st, NEW a, NEW n, a \in Nat, n \in Nat, a + n <= Size, Reaches(st, a, n),
         View(st) = View(Here), Becomes(st)
  PROVE  View(Here)' = View(Here) /\ Data(st.mem, a, n) = Data(View(Here), a, n)
<1>1. View(Here)' = View(st)
  BY Seen
<1>2. Data(st.mem, a, n) = Data(View(st), a, n)
  BY DataSeen
<1>3. QED
  BY <1>1, <1>2

(* A word touches at most the frames of its first and of its last cell.    *)
LEMMA WordFrames ==
  ASSUME NEW a \in Nat, NEW n \in Nat \ {0}, n <= PageCells, NEW c \in a .. a + n - 1
  PROVE  FrameOf(c) \in {FrameOf(a), FrameOf(a + n - 1)}
<1> DEFINE f == FrameOf(a)
<1>1. c \in Nat /\ a + n - 1 \in Nat /\ a <= c /\ c <= a + n - 1
  OBVIOUS
<1>2. f \in Nat /\ FrameOf(c) \in Nat /\ FrameOf(a + n - 1) \in Nat
  BY <1>1, CellIs
<1>3. f <= FrameOf(c) /\ FrameOf(c) <= FrameOf(a + n - 1)
  BY <1>1, Ordered
<1>4. f + 1 \in Nat /\ f + 2 \in Nat /\ PageCells \in Nat /\ FrameCells \in Nat
  BY <1>2, Sizes
<1>5. ~((f + 1) * FrameCells <= a)
  BY <1>2, <1>4, CellIs
<1>6. PageCells <= FrameCells
  BY Sizes DEF FrameCells
<1>7. (f + 2) * FrameCells = (f + 1) * FrameCells + FrameCells /\ (f + 1) * FrameCells \in Nat
  <2> HIDE DEF f
  <2>1. (f + 2) * FrameCells = (f + 1) * FrameCells + FrameCells
    BY <1>2, <1>4
  <2>2. (f + 1) * FrameCells \in Nat
    BY <1>4, Sizes
  <2>3. QED
    BY <2>1, <2>2
<1>8. ~((f + 2) * FrameCells <= a + n - 1)
  BY <1>4, <1>5, <1>6, <1>7
<1>9. ~(f + 2 <= FrameOf(a + n - 1))
  BY <1>1, <1>4, <1>8, CellIs
<1>10. QED
  BY <1>2, <1>3, <1>9

LEMMA GuestLoadIsFlat ==
  ASSUME NEW acc \in Words, GuestLoad(acc[1], acc[2]), AsmTypeOK, CacheInv
  PROVE  FlatLoad("guest", acc[1], acc[2])
<1> DEFINE a  == acc[1]
           n  == acc[2]
           fs == {FrameOf(a), FrameOf(a + n - 1)}
<1>1. /\ acc \in Accesses /\ a \in Nat /\ n \in Nat /\ n # 0 /\ n \in Nat \ {0}
      /\ a + n \in Nat /\ a + n - 1 \in Nat /\ Size \in Nat
  BY AccessIs, Sizes DEF Words
<1>2. ASSUME NEW f \in Nat, NEW c \in a .. a + n - 1, FrameOf(a) = f, FrameOf(a + n) = f
      PROVE  FrameOf(c) = f
  <2>1. c \in Nat /\ a <= c /\ c <= a + n
    BY <1>1
  <2>2. FrameOf(a) <= FrameOf(c) /\ FrameOf(c) <= FrameOf(a + n) /\ FrameOf(c) \in Nat
    BY <1>1, <2>1, Ordered, CellIs
  <2>3. QED
    BY <1>2, <2>2
<1>3. CASE ReadsInLastFrame(a, n) /\ Answered(Here, a, n)
  <2>1. lastRead = FrameOf(a) /\ FrameOf(a + n) = FrameOf(a) /\ FrameOf(a) \in Nat
    BY <1>1, <1>3, CellIs DEF ReadsInLastFrame
  <2>2. lastRead # NoPage /\ lastRead \in frames /\ lastRead \in Frame
    BY <2>1 DEF CacheInv, LastReadFrameIsInited, AsmTypeOK, NoPage
  <2>3. a + n < Size
    BY <1>1, <2>1, <2>2, WithinMemory
  <2>4. Reaches(Here, a, n)
    BY <1>2, <2>1, <2>2 DEF Reaches, Here, State
  <2>5. NoOverflow(a, n) /\ a + n # Size
    BY <1>1, <2>3 DEF NoOverflow
  <2>6. View(Here)' = View(Here) /\ Data(Here.mem, a, n) = Data(View(Here), a, n)
    BY <1>1, <1>3, <2>3, <2>4, LoadedSeen DEF Answered
  <2>7. flags' = flags
    BY <1>3 DEF Answered, Becomes, Here, State
  <2>8. QED
    BY <1>3, <2>5, <2>6, <2>7 DEF FlatLoad, Answered
<1>4. CASE /\ ReadRefused(a, n) /\ out' = <<"guest", "refused">>
           /\ UNCHANGED <<mem, frames, flags>>
  <2>1. ~NoOverflow(a, n) \/ (version0 /\ a + n = Size)
    BY <1>1, <1>4 DEF ReadRefused, NoOverflow
  <2>2. View(Here)' = View(Here)
    BY <1>4 DEF View, Here, State
  <2>3. QED
    BY <1>4, <2>1, <2>2 DEF FlatLoad
<1>5. CASE ~ReadRefused(a, n) /\ Answered(Inited(Here, fs), a, n)
  <2> DEFINE st == Inited(Here, fs)
  <2>1. View(st) = View(Here) /\ st.frames = frames \cup fs /\ st.flags = flags
    BY InitedUnseen DEF Inited, State, Here
  <2>2. a + n <= Size /\ NoOverflow(a, n) /\ ~(version0 /\ a + n = Size)
    BY <1>1, <1>5 DEF ReadRefused, NoOverflow
  <2>3. Reaches(st, a, n)
    BY <1>1, <2>1, WordFrames DEF Words, Reaches
  <2>4. Becomes(st)
    BY <1>5 DEF Answered
  <2>5. View(Here)' = View(Here) /\ Data(st.mem, a, n) = Data(View(Here), a, n)
    <3> HIDE DEF a, n, st
    <3>1. QED
      BY <1>1, <2>1, <2>2, <2>3, <2>4, LoadedSeen
  <2>6. flags' = flags
    BY <2>1, <2>4 DEF Becomes
  <2>7. QED
    BY <1>5, <2>2, <2>5, <2>6 DEF FlatLoad, Answered
<1>6. QED
  BY <1>3, <1>4, <1>5 DEF GuestLoad

(* Reads by Rust code: load_bytes, and fetching an instruction.            *)
LEMMA InitedReaches ==
  ASSUME NEW a, NEW n, NEW fs, a \in Nat, n \in Nat \ {0},
         FramesOfPages(PageIndices(a, n)) \subseteq fs
  PROVE  Reaches(Inited(Here, fs), a, n)
<1>1. \A c \in a .. a + n - 1 : FrameOf(c) \in fs
  BY FramesTouched
<1>2. QED
  BY <1>1, InitedUnseen DEF Reaches

LEMMA LoadBytesIsFlat ==
  ASSUME NEW acc \in Accesses, LoadBytes(acc[1], acc[2])
  PROVE  FlatLoad("host", acc[1], acc[2])
<1> DEFINE a  == acc[1]
           n  == acc[2]
           fs == FramesOfPages(PageIndices(a, n))
           st == Inited(Here, fs)
<1>1. a \in Nat /\ n \in Nat /\ n \in Nat \ {0}
  BY AccessIs
<1>2. CASE NoOverflow(a, n)
  <2>1. Becomes(st) /\ out' = <<"host">> \o Data(st.mem, a, n)
    BY <1>2 DEF LoadBytes
  <2>2. Reaches(st, a, n) /\ View(st) = View(Here) /\ a + n <= Size
    BY <1>1, <1>2, InitedReaches, InitedUnseen DEF NoOverflow
  <2>3. flags' = flags
    BY <2>1, InitedMaps
  <2>4. View(Here)' = View(Here) /\ Data(st.mem, a, n) = Data(View(Here), a, n)
    <3> HIDE DEF a, n, st
    <3>1. QED
      BY <1>1, <2>1, <2>2, LoadedSeen
  <2>5. QED
    BY <1>2, <2>1, <2>3, <2>4 DEF FlatLoad
<1>3. CASE ~NoOverflow(a, n)
  <2>1. out' = <<"host", "refused">>
    BY <1>3 DEF LoadBytes
  <2>2. Becomes(Here) \/ \E other : Becomes(Inited(Here, other))
    BY <1>3 DEF LoadBytes
  <2>3. View(Here)' = View(Here) /\ flags' = flags
    <3>1. CASE Becomes(Here)
      BY <3>1, Seen DEF Becomes, Here, State
    <3>2. CASE \E other : Becomes(Inited(Here, other))
      BY <3>2, Seen, InitedUnseen, InitedMaps
    <3>3. QED
      BY <2>2, <3>1, <3>2
  <2>4. QED
    BY <1>3, <2>1, <2>3 DEF FlatLoad
<1>4. QED
  BY <1>2, <1>3

LEMMA FetchesFlat ==
  ASSUME NEW acc \in Accesses, Fetch(acc[1], acc[2])
  PROVE  FlatFetch(acc[1], acc[2])
<1> DEFINE a  == acc[1]
           n  == acc[2]
           ps == PageIndices(a, n)
           Bad(p) == p \notin Page \/ "executable" \notin flags[p]
           passed == {p \in ps : \A q \in ps : q <= p => ~Bad(q)}
           fs == FramesOfPages(passed)
           st == Inited(Here, fs)
<1>1. /\ a \in Nat /\ n \in Nat /\ n \in Nat \ {0} /\ ps \subseteq Nat
      /\ \A p \in ps : p <= p
  BY AccessIs
<1>2. /\ Becomes(st)
      /\ out' = IF passed = ps THEN <<"fetch">> \o Data(st.mem, a, n) ELSE <<"refused">>
  BY DEF Fetch
<1>3. View(st) = View(Here) /\ View(Here)' = View(st) /\ flags' = flags
  BY <1>2, InitedUnseen, InitedMaps, Seen
<1>4. passed = ps <=> NoOverflow(a, n) /\ \A p \in ps : "executable" \in flags[p]
  <2>1. passed = ps <=> \A p \in ps : ~Bad(p)
    BY <1>1
  <2>2. QED
    BY <2>1, WithinBounds
<1>5. CASE passed = ps
  <2>1. Reaches(st, a, n) /\ a + n <= Size
    BY <1>1, <1>4, <1>5, InitedReaches DEF NoOverflow
  <2>2. Data(st.mem, a, n) = Data(View(Here), a, n)
    <3> HIDE DEF a, n, st
    <3>1. QED
      BY <1>1, <1>2, <1>3, <2>1, LoadedSeen
  <2>3. QED
    BY <1>2, <1>3, <1>4, <1>5, <2>2 DEF FlatFetch
<1>6. CASE passed # ps
  BY <1>2, <1>3, <1>4, <1>6 DEF FlatFetch
<1>7. QED
  BY <1>5, <1>6

LEMMA InitPagesIsFlat ==
  ASSUME NEW seg \in Segments, ~LeavesLastPage(seg), InitPages(seg), AsmTypeOK
  PROVE  Flat!InitPages
<1> DEFINE ok == InitPagesOk(flags, seg.addr, seg.size, seg.pad)
           st == FilledFast(Here, seg)
           new == State(st.mem, st.frames,
                        FilledFlags(st.flags, seg.addr, seg.size, seg.flags))
<1>1. ok <=> Flat!InitPagesOk(flags, seg.addr, seg.size, seg.pad)
  BY SameSizes, SamePages DEF InitPagesOk, Flat!InitPagesOk
<1>2. CASE ok
  <2>1. Becomes(new) /\ out' = <<"ok">>
    BY <1>2 DEF InitPages
  <2>2. flags' = FilledFlags(flags, seg.addr, seg.size, seg.flags)
    BY <1>2, <2>1, FilledTyped DEF AsmTypeOK, MapsTyped
  <2>3. View(new) = View(st)
    BY DEF View, State
  <2>4. View(Here)' = View(st)
    BY <2>1, <2>3, Seen
  <2>5. View(st) = Filled(View(Here), seg.addr, seg.size, Flat!SourceData(seg), seg.pad)
    BY <1>2, FillsAlike
  <2>6. Filled(View(Here), seg.addr, seg.size, Flat!SourceData(seg), seg.pad)
          = Flat!Filled(View(Here), seg.addr, seg.size, Flat!SourceData(seg), seg.pad)
    BY SameSizes DEF Filled, Flat!Filled
  <2>7. View(Here)' = Flat!Filled(View(Here), seg.addr, seg.size, Flat!SourceData(seg), seg.pad)
    BY <2>4, <2>5, <2>6
  <2>8. flags' = Flat!FilledFlags(flags, seg.addr, seg.size, seg.flags)
    BY <2>2, SameFlags
  <2>9. QED
    BY <1>1, <1>2, <2>1, <2>7, <2>8 DEF Flat!InitPages
<1>3. CASE ~ok
  <2>1. out' = <<"refused">> /\ UNCHANGED <<mem, frames, flags>>
    BY <1>3 DEF InitPages
  <2>2. View(Here)' = View(Here)
    BY <2>1 DEF View, Here, State
  <2>3. QED
    BY <1>1, <1>3, <2>1, <2>2 DEF Flat!InitPages
<1>4. QED
  BY <1>2, <1>3

--------------------------------------------------------------------------------
flatVars == <<View(Here), flags, out, version0>>

NoLastPageLeft == \A seg \in Segments : ~LeavesLastPage(seg)

LEMMA StartsFlat == Init => Flat!Init
<1> SUFFICES ASSUME Init PROVE Flat!Init
  OBVIOUS
<1>1. View(Here) = Flat!ZeroMem
  BY SameSizes DEF Init, View, Here, State, Flat!ZeroMem
<1>2. flags = Flat!NoFlags
  BY SameSizes DEF Init, NoFlags, Flat!NoFlags
<1>3. QED
  BY <1>1, <1>2 DEF Init, Flat!Init

LEMMA StepsFlat ==
  ASSUME NoLastPageLeft, AsmTypeOK, CacheInv, [Next]_vars
  PROVE  [Flat!Next]_flatVars
<1>1. ASSUME NEW seg \in Segments, InitPages(seg)
      PROVE  [Flat!Next]_flatVars
  <2>1. Flat!InitPages
    BY <1>1, InitPagesIsFlat DEF NoLastPageLeft
  <2>2. QED
    BY <1>1, <2>1 DEF InitPages, Step, Flat!Next
<1>2. ASSUME NEW acc \in Accesses, NEW v \in Values, StoreBytes(acc[1], acc[2], v)
      PROVE  [Flat!Next]_flatVars
  <2>1. FlatStore(acc[1], acc[2], v)
    <3>1. CASE Stored(acc[1], acc[2], v)
      BY <3>1, StoredIsFlat
    <3>2. CASE /\ ~NoOverflow(acc[1], acc[2])
               /\ out' = <<"refused">> /\ UNCHANGED <<mem, frames, flags, lastWrite>>
      <4>1. View(Here)' = View(Here)
        BY <3>2 DEF View, Here, State
      <4>2. flags' = SetFlag(flags, {}, {"dirty"})
        BY <3>2 DEF AsmTypeOK, SetFlag
      <4>3. ~Permitted(flags, acc[1], acc[2])
        BY <3>2, AccessIs DEF Permitted
      <4>4. QED
        BY <3>2, <4>1, <4>2, <4>3 DEF FlatStore
    <3>3. QED
      BY <1>2, <3>1, <3>2 DEF StoreBytes
  <2>2. QED
    BY <1>2, <2>1, StoreIsFlat DEF StoreBytes, Step, Flat!Next
<1>3. ASSUME NEW acc \in Accesses, LoadBytes(acc[1], acc[2])
      PROVE  [Flat!Next]_flatVars
  BY <1>3, LoadBytesIsFlat, LoadIsFlat DEF LoadBytes, Step, Flat!Next
<1>4. ASSUME NEW acc \in Words, Fetch(acc[1], acc[2])
      PROVE  [Flat!Next]_flatVars
  BY <1>4, FetchesFlat, FetchIsFlat DEF Words, Fetch, Step, Flat!Next
<1>5. ASSUME NEW p \in Page, NEW fs \in FlagSets, ChangeFlag(p, fs)
      PROVE  [Flat!Next]_flatVars
  <2>1. View(Here)' = View(Here)
    BY <1>5 DEF ChangeFlag, View, Here, State
  <2>2. Flat!ChangeFlag
    BY <1>5, <2>1, SameSizes, SameFlags DEF ChangeFlag, Flat!ChangeFlag
  <2>3. QED
    BY <1>5, <2>2 DEF ChangeFlag, Step, Flat!Next
<1>6. CASE Reset
  <2>1. View(Here)' = Flat!ZeroMem
    BY <1>6, SameSizes DEF Reset, View, Here, State, Flat!ZeroMem
  <2>2. flags' = Flat!NoFlags
    BY <1>6, SameSizes DEF Reset, NoFlags, Flat!NoFlags
  <2>3. QED
    BY <1>6, <2>1, <2>2 DEF Reset, Step, Flat!Reset, Flat!Next
<1>7. ASSUME NEW acc \in Words, NEW v \in Values, GuestStore(acc[1], acc[2], v)
      PROVE  [Flat!Next]_flatVars
  <2>1. acc \in Accesses /\ Step
    BY <1>7 DEF Words, GuestStore
  <2>2. FlatStore(acc[1], acc[2], v)
    <3>1. CASE Stored(acc[1], acc[2], v)
      BY <2>1, <3>1, StoredIsFlat
    <3>2. CASE /\ WritesInLastPage(acc[1], acc[2])
               /\ mem' = Written(mem, acc[1], Copies(v, acc[2])) /\ out' = <<"ok">>
               /\ UNCHANGED <<frames, flags, lastWrite, failed>>
      <4>1. lastWrite = PageOf(acc[1]) /\ lastWrite # NoPage /\ ~failed
        BY <2>1, <3>2, AccessIs DEF WritesInLastPage, Step, NoPage
      <4>2. IsOpen(PageOf(acc[1]))
        BY <4>1 DEF CacheInv, LastWritePageIsOpen, IsOpen
      <4>3. QED
        BY <2>1, <3>2, <4>2, FastStoreIsFlat DEF AsmTypeOK
    <3>3. QED
      BY <1>7, <3>1, <3>2 DEF GuestStore
  <2>3. QED
    BY <2>1, <2>2, StoreIsFlat DEF Step, Flat!Next
<1>8. ASSUME NEW acc \in Words, GuestLoad(acc[1], acc[2])
      PROVE  [Flat!Next]_flatVars
  BY <1>8, GuestLoadIsFlat, LoadIsFlat DEF Words, GuestLoad, Step, Flat!Next
<1>9. CASE UNCHANGED vars
  BY <1>9 DEF vars, flatVars, View, Here, State
<1>10. QED
  BY <1>1, <1>2, <1>3, <1>4, <1>5, <1>6, <1>7, <1>8, <1>9 DEF Next, Stopped

(* Lazily zeroed frames and skipped checks cannot be observed, whatever    *)
(* the sizes, the program and the number of operations: check_memory,      *)
(* CHECK_WRITE and CHECK_READ implement the memory of the interpreter if   *)
(* no segment is one for which prepare_memory zeroes too little.           *)
THEOREM LazyMemoryRefines ==
  ASSUME NoLastPageLeft
  PROVE  Spec => ImplementsFlatMemory
<1>1. AsmTypeOK /\ CacheInv /\ [Next]_vars => [Flat!Next]_<<View(Here), flags, out, version0>>
  BY StepsFlat DEF flatVars
<1>2. QED
  BY <1>1, StartsFlat, TypesHold, TypesKept, CachesEmpty, CachesKept, PTL
  DEF Spec, ImplementsFlatMemory, Flat!Spec

(* What is seen was stored, filled or zeroed: it is so for FlatMachine.    *)
SeenIsStored == \A c \in Addr : View(Here)[c] \in Values \cup {Zero, "source"}

LEMMA FlatStoresOnly ==
  ASSUME SeenIsStored, [Flat!Next]_flatVars
  PROVE  SeenIsStored'
<1> DEFINE known == Values \cup {Zero, "source"}
           Known(m) == \A c \in Addr : m[c] \in known
<1>1. Known(View(Here))
  BY DEF SeenIsStored
<1>2. SUFFICES Known(View(Here)')
  BY SameSizes DEF SeenIsStored, Addr, Size
<1>3. CASE Flat!InitPages
  <2>1. PICK seg \in Segments :
          \/ View(Here)' = View(Here)
          \/ View(Here)' = Flat!Filled(View(Here), seg.addr, seg.size, Flat!SourceData(seg), seg.pad)
    BY <1>3 DEF Flat!InitPages
  <2>2. Known(Flat!Filled(View(Here), seg.addr, seg.size, Flat!SourceData(seg), seg.pad))
    BY <1>1, SameSizes DEF Flat!Filled, Flat!SourceData
  <2>3. QED
    BY <1>1, <2>1, <2>2
<1>4. CASE Flat!Store
  <2>1. PICK acc \in Accesses, v \in Values :
          \/ View(Here)' = View(Here)
          \/ View(Here)' = Flat!Written(View(Here), acc[1], Flat!Copies(v, acc[2]))
    BY <1>4 DEF Flat!Store
  <2>2. Known(Flat!Written(View(Here), acc[1], Flat!Copies(v, acc[2])))
    BY <1>1, SameSizes DEF Flat!Written, Flat!Copies
  <2>3. QED
    BY <1>1, <2>1, <2>2
<1>5. CASE Flat!Reset
  BY <1>5, SameSizes DEF Flat!Reset, Flat!ZeroMem
<1>6. CASE View(Here)' = View(Here)
  BY <1>1, <1>6
<1>7. Flat!Load("guest") \/ Flat!Load("host") \/ Flat!Fetch \/ Flat!ChangeFlag \/ UNCHANGED flatVars
        => View(Here)' = View(Here)
  BY DEF Flat!Load, Flat!Fetch, Flat!ChangeFlag, flatVars
<1>8. QED
  BY <1>3, <1>4, <1>5, <1>6, <1>7 DEF Flat!Next

(* No operation, in any order, leaves in an initialised frame what the     *)
(* allocator had there: the shortcut of prepare_memory, which does not     *)
(* zero what it is about to fill, exposes nothing.                         *)
THEOREM NoJunkInFrames ==
  ASSUME NoLastPageLeft
  PROVE  Spec => []InitedFrameIsClean
<1>1. Init => SeenIsStored
  BY DEF Init, SeenIsStored, View, Here, State
<1>2. AsmTypeOK /\ CacheInv /\ SeenIsStored /\ [Next]_vars => SeenIsStored'
  BY StepsFlat, FlatStoresOnly
<1>3. SeenIsStored => InitedFrameIsClean
  BY AsmMemoryAssumption DEF SeenIsStored, InitedFrameIsClean, View, Here, State
<1>4. QED
  BY <1>1, <1>2, <1>3, TypesHold, TypesKept, CachesEmpty, CachesKept, PTL DEF Spec
================================================================================
