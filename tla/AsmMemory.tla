------------------------------- MODULE AsmMemory -------------------------------
(***************************************************************************)
(* The memory of the assembly VM (forks/ckb-vm-asm/src/machine/asm/mod.rs  *)
(* and the checks of execute_x64.S).  It is allocated uninitialised; a     *)
(* frame is zeroed when it is first touched.  The assembly remembers the   *)
(* last page written and the last frame read and skips their checks.       *)
(*                                                                         *)
(* Any operation of the Memory trait may follow any other: the program     *)
(* loader, syscalls, snapshots, the decoder and slow instructions call it, *)
(* between loads and stores the assembly executes itself.                  *)
(***************************************************************************)
EXTENDS PageMemory

CONSTANTS
  FramePages, (* pages in a frame: 2^MEMORY_FRAME_PAGE_SHIFTS              *)
  Junk,       (* what an uninitialised cell reads as                       *)
  Segments,   (* init_pages: [addr, size, flags, pad, len], len cells of data *)
  Values,     (* what is stored                                            *)
  Accesses,   (* bound: <<address, cells>> of stores, loads and fetches    *)
  FlagSets,   (* what set_flag and clear_flag are called with              *)
  MaxOps      (* bound: operations                                         *)

ASSUME AsmMemoryAssumption ==
  /\ FramePages \in Nat \ {0} /\ NPages % FramePages = 0
  /\ Accesses \subseteq Nat \X (Nat \ {0})
  /\ \A seg \in Segments : /\ seg.addr \in Nat /\ seg.size \in Nat
                            /\ seg.pad \in Nat /\ seg.len \in Nat /\ seg.flags \subseteq Flags
  /\ \A fs \in FlagSets : fs \subseteq Flags
  /\ MaxOps \in Nat /\ Junk \notin Values \cup {Zero, "source"}

VARIABLES
  frames,     (* the frames marked initialised                             *)
  lastWrite,  (* last_write_page                                           *)
  lastRead,   (* last_read_frame                                           *)
  version0,   (* version = VERSION0                                        *)
  out,        (* the answer to the last operation                          *)
  failed,     (* an instruction of the guest was refused: run returned     *)
  ops

vars == <<mem, flags, frames, lastWrite, lastRead, version0, out, failed, ops>>

NoPage     == -1 (* u64::MAX *)
FrameCells == FramePages * PageCells
Frame      == 0 .. NPages \div FramePages - 1
FrameOf(a) == a \div FrameCells

FramesOfPages(ps) == {p \div FramePages : p \in ps}

(* AsmCoreMachine::new.  The allocator's memory may happen to be zero.     *)
Init ==
  /\ mem \in {ZeroMem, [c \in Addr |-> Junk]} /\ flags = NoFlags /\ frames = {}
  /\ lastWrite = NoPage /\ lastRead = NoPage
  /\ version0 \in BOOLEAN /\ out = <<"ok">> /\ failed = FALSE /\ ops = 0

--------------------------------------------------------------------------------
(* The memory, its frames and its flags as one value, to be threaded       *)
(* through a sequence of calls.                                            *)
State(m, fs, fl) == [mem |-> m, frames |-> fs, flags |-> fl]

Here == State(mem, frames, flags)

Becomes(st) == mem' = st.mem /\ frames' = st.frames /\ flags' = st.flags

(* check_memory, inited_memory.                                            *)
Inited(st, fs) ==
  State([c \in Addr |-> IF FrameOf(c) \in fs \ st.frames THEN Zero ELSE st.mem[c]],
        st.frames \cup fs, st.flags)

(* FastMemory::prepare_memory.  Mutant: the end of the last frame is not   *)
(* looked at.                                                              *)
PreparedHeadOnly(st, a, n) ==
  LET head == IF a % FrameCells > 0 THEN {FrameOf(a)} ELSE {}
      st1  == Inited(st, head)
  IN  State(st1.mem, st1.frames \cup FramesOfPages(PageIndices(a, n)),
            Dirtied(st1.flags, a, n))

Prepared(st, a, n) ==
  LET end        == a + n
      alignedEnd == PageOf(end) * PageCells
      nextFrame  == (FrameOf(end - 1) + 1) * FrameCells
      head == IF a % FrameCells > 0 THEN {FrameOf(a)} ELSE {}
      tail == IF alignedEnd + PageCells < nextFrame THEN {FrameOf(alignedEnd)} ELSE {}
      st1  == Inited(st, head \cup tail)
  IN  State(st1.mem, st1.frames \cup FramesOfPages(PageIndices(a, n)),
            Dirtied(st1.flags, a, n))

(* FastMemory::store_bytes, store_byte.                                    *)
FastStore(st, a, data) ==
  IF data = <<>> THEN st
  ELSE LET st1 == Prepared(st, a, Len(data))
       IN  State(Written(st1.mem, a, data), st1.frames, st1.flags)

Copies(v, n)  == [k \in 1 .. n |-> v]
Data(m, a, n) == [k \in 1 .. n |-> m[a + k - 1]]

(* fill_page_data: the padding, the data, the rest.                        *)
FilledFast(st, seg) ==
  LET real == IF seg.len < seg.size - seg.pad THEN seg.len ELSE seg.size - seg.pad
      st1  == FastStore(st, seg.addr, Copies(Zero, seg.pad))
      st2  == FastStore(st1, seg.addr + seg.pad, Copies("source", real))
  IN  FastStore(st2, seg.addr + seg.pad + real, Copies(Zero, seg.size - seg.pad - real))

--------------------------------------------------------------------------------
(* set_flag and clear_flag drop last_write_page.  Mutant: they do not.     *)
WriteCacheKept       == lastWrite
WriteCacheAfterFlags == NoPage

(* Mutant: reset leaves last_read_frame.                                   *)
ReadCacheKept       == lastRead
ReadCacheAfterReset == NoPage

(* What an instruction loads or stores at once.                            *)
Words == {acc \in Accesses : acc[2] <= PageCells}

Step == ~failed /\ ops < MaxOps /\ ops' = ops + 1 /\ UNCHANGED version0

InitPages(seg) ==
  /\ Step
  /\ IF InitPagesOk(flags, seg.addr, seg.size, seg.pad)
     THEN LET st == FilledFast(Here, seg) IN
          /\ Becomes(State(st.mem, st.frames,
                           FilledFlags(st.flags, seg.addr, seg.size, seg.flags)))
          /\ lastWrite' = NoPage /\ lastRead' = NoPage /\ out' = <<"ok">>
     ELSE out' = <<"refused">> /\ UNCHANGED <<mem, frames, flags, lastWrite, lastRead>>
  /\ UNCHANGED failed

(* A store visits its pages in order: the ones before the first page that  *)
(* refuses it are initialised and marked dirty.                            *)
Refuses(p) == p \notin Page \/ "executable" \in flags[p]

Opened(ps) == {p \in ps : \A q \in ps : q <= p => ~Refuses(q)}

Open(ps) ==
  LET st == Inited(Here, FramesOfPages(ps))
  IN  State(st.mem, st.frames, SetFlag(st.flags, ps, {"dirty"}))

Stored(a, n, v) ==
  LET ps == PageIndices(a, n)
      st == Open(Opened(ps))
  IN  IF Opened(ps) = ps
      THEN /\ Becomes(State(Written(st.mem, a, Copies(v, n)), st.frames, st.flags))
           /\ out' = <<"ok">>
      ELSE Becomes(st) /\ out' = <<"refused">>

(* store_bytes, store_byte, and with n <= PageCells store8..store64: only  *)
(* the former look at the end of memory first.                             *)
StoreBytes(a, n, v) ==
  /\ Step
  /\ \/ /\ ~NoOverflow(a, n)
        /\ out' = <<"refused">> /\ UNCHANGED <<mem, frames, flags, lastWrite>>
     \/ /\ NoOverflow(a, n) \/ n <= PageCells
        /\ Stored(a, n, v)
        /\ lastWrite' = IF Opened(PageIndices(a, n)) = {} THEN lastWrite
                        ELSE WriteCacheAfterFlags
  /\ UNCHANGED <<lastRead, failed>>

(* load_bytes, and load8..load64 by check_memory_inited.                   *)
LoadBytes(a, n) ==
  /\ Step
  /\ LET st == Inited(Here, FramesOfPages(PageIndices(a, n))) IN
     IF NoOverflow(a, n)
     THEN /\ Becomes(st)
          /\ out' = <<"host">> \o Data(st.mem, a, n)
     ELSE /\ \/ Becomes(Here)
             \/ /\ n <= PageCells
                /\ Becomes(Inited(Here, FramesOfPages(PageIndices(a, n) \cap Page)))
          /\ out' = <<"host", "refused">>
  /\ UNCHANGED <<lastWrite, lastRead, failed>>

(* execute_load16, execute_load32 by check_memory_executable.              *)
Fetch(a, n) ==
  /\ Step
  /\ LET ps      == PageIndices(a, n)
         Bad(p)  == p \notin Page \/ "executable" \notin flags[p]
         passed  == {p \in ps : \A q \in ps : q <= p => ~Bad(q)}
         st      == Inited(Here, FramesOfPages(passed))
     IN  /\ Becomes(st)
         /\ out' = IF passed = ps THEN <<"fetch">> \o Data(st.mem, a, n) ELSE <<"refused">>
  /\ UNCHANGED <<lastWrite, lastRead, failed>>

ChangeFlag(p, fs) ==
  /\ Step
  /\ flags' \in {SetFlag(flags, {p}, fs), ClearFlag(flags, {p}, fs)}
  /\ lastWrite' = WriteCacheAfterFlags /\ out' = <<"ok">>
  /\ UNCHANGED <<mem, frames, lastRead, failed>>

Reset ==
  /\ Step
  /\ flags' = NoFlags /\ frames' = {}
  /\ lastWrite' = NoPage /\ lastRead' = ReadCacheAfterReset /\ out' = <<"ok">>
  /\ UNCHANGED <<mem, failed>>

--------------------------------------------------------------------------------
(* CHECK_WRITE, then the store.  The cache is set before the checks, which *)
(* matters to nobody: a refused store ends the run.                        *)

(* Mutant: a store that starts in the cached page is fast.                 *)
WritesStartInLastPage(a, n) == lastWrite = PageOf(a)
WritesInLastPage(a, n)      == lastWrite = PageOf(a) /\ PageOf(a + n) = PageOf(a)

GuestStore(a, n, v) ==
  /\ Step
  /\ \/ /\ WritesInLastPage(a, n)
        /\ mem' = Written(mem, a, Copies(v, n)) /\ out' = <<"ok">>
        /\ UNCHANGED <<frames, flags, lastWrite, failed>>
     \/ /\ ~WritesInLastPage(a, n)
        /\ Stored(a, n, v)
        /\ lastWrite' = PageOf(a)
        /\ failed' = (out' = <<"refused">>)
  /\ UNCHANGED lastRead

(* CHECK_READ_VERSION0, CHECK_READ_VERSION1, then the load.                *)
ReadsInLastFrame(a, n) == lastRead = FrameOf(a) /\ FrameOf(a + n) = FrameOf(a)

ReadRefused(a, n) == a >= Size \/ a + n > Size \/ (version0 /\ a + n = Size)

(* Mutant: the frame where the load ends is remembered.                    *)
FrameOfEnd(a, n)  == FrameOf(a + n)
FrameToRead(a, n) == FrameOf(a)

Answered(st, a, n) ==
  Becomes(st) /\ out' = <<"guest">> \o Data(st.mem, a, n)

GuestLoad(a, n) ==
  /\ Step
  /\ \/ ReadsInLastFrame(a, n) /\ Answered(Here, a, n) /\ UNCHANGED <<lastRead, failed>>
     \/ /\ ~ReadsInLastFrame(a, n) /\ ReadRefused(a, n)
        /\ out' = <<"guest", "refused">> /\ failed' = TRUE
        /\ UNCHANGED <<mem, frames, flags, lastRead>>
     \/ /\ ~ReadsInLastFrame(a, n) /\ ~ReadRefused(a, n)
        /\ Answered(Inited(Here, {FrameOf(a), FrameOf(a + n - 1)}), a, n)
        /\ lastRead' = FrameToRead(a, n) /\ UNCHANGED failed
  /\ UNCHANGED lastWrite

Stopped == (failed \/ ops = MaxOps) /\ UNCHANGED vars

Next ==
  \/ \E seg \in Segments : InitPages(seg)
  \/ \E acc \in Accesses, v \in Values : StoreBytes(acc[1], acc[2], v)
  \/ \E acc \in Accesses : LoadBytes(acc[1], acc[2])
  \/ \E acc \in Words : Fetch(acc[1], acc[2])
  \/ \E p \in Page, fs \in FlagSets : ChangeFlag(p, fs)
  \/ Reset
  \/ \E acc \in Words, v \in Values : GuestStore(acc[1], acc[2], v)
  \/ \E acc \in Words : GuestLoad(acc[1], acc[2])
  \/ Stopped

Spec == Init /\ [][Next]_vars

--------------------------------------------------------------------------------
AsmTypeOK ==
  /\ DOMAIN mem = Addr /\ flags \in [Page -> SUBSET Flags] /\ frames \subseteq Frame
  /\ lastWrite \in Page \cup {NoPage} \/ failed
  /\ lastRead \in Frame \cup {NoPage}
  /\ version0 \in BOOLEAN /\ failed \in BOOLEAN /\ ops \in 0 .. MaxOps

(* A frame that is marked initialised holds nothing the allocator left     *)
(* there: prepare_memory, which skips zeroing what it is about to fill,    *)
(* skips no more than that.                                                *)
InitedFrameIsClean == \A c \in Addr : FrameOf(c) \in frames => mem[c] # Junk

(* The page whose checks the assembly skips when it stores there again is  *)
(* one where the checks would pass and change nothing: whatever the host,  *)
(* a snapshot or a slow instruction did to flags and frames meanwhile.     *)
LastWritePageIsOpen ==
  ~failed /\ lastWrite # NoPage =>
    /\ ~Refuses(lastWrite) /\ "dirty" \in flags[lastWrite]
    /\ lastWrite \div FramePages \in frames

(* The frame whose checks the assembly skips when it loads is initialised, *)
(* also after a reset marked every frame uninitialised.                    *)
LastReadFrameIsInited == lastRead # NoPage => lastRead \in frames

(* What prepare_memory zeroes too little for: from the start of a frame to *)
(* one page before the end of a frame.                                     *)
LeavesLastPage(seg) ==
  LET end == seg.addr + seg.size
  IN  /\ seg.size > 0 /\ (end + PageCells) % FrameCells = 0
      /\ FrameOf(end - 1) * FrameCells >= seg.addr

(* The memory as it is seen: a frame not yet initialised reads as zeros.   *)
View(st) == [c \in Addr |-> IF FrameOf(c) \in st.frames THEN st.mem[c] ELSE Zero]

Flat == INSTANCE FlatMachine WITH mem <- View(Here)

(* Lazily zeroed frames and skipped checks cannot be observed: the         *)
(* assembly VM's memory answers every operation, and marks every page, as  *)
(* the interpreter's does.                                                 *)
ImplementsFlatMemory == Flat!Spec
================================================================================
