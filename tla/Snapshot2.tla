------------------------------- MODULE Snapshot2 -------------------------------
(***************************************************************************)
(* Suspending and resuming a VM (forks/ckb-vm-asm/src/snapshot2.rs).  The  *)
(* context remembers which pages hold a whole page of some data source; a  *)
(* snapshot holds the dirty pages, and for the others only where their     *)
(* content can be found.                                                   *)
(*                                                                         *)
(* The VM loads a program and its arguments, runs, and is suspended at any *)
(* point between two instructions; a new machine is resumed from the       *)
(* snapshot, any number of times.  core stands for what the snapshot       *)
(* copies as it is: registers, pc, cycles, the load reservation address.   *)
(***************************************************************************)
EXTENDS PageMemory

CONSTANTS
  Source,       (* DataSource: id -> sequence of values                     *)
  ProgramId,    (* the id of the program in the data source                *)
  ProgramStart, (* its offset there                                        *)
  Programs,     (* ProgramMetadata::actions of the programs, from parse_elf *)
  MaxArgs,      (* bound: cells the arguments take on the stack            *)
  Values,       (* what guest code stores                                  *)
  Loads,        (* bound: [id, offset, length] of the guest's load syscalls *)
  MaxSteps      (* bound: stores and loads of the guest in one life        *)

(* What parse_elf makes of a program header: file offsets are in order and  *)
(* in the file, and flags are those of convert_flags.                      *)
Segments ==
  [addr : Nat, size : Nat, flags : SUBSET {"executable", "freezed"},
   from : Nat, to : Nat, pad : Nat]

(* Data are sequences of cells.                                            *)
IsData(s) == s \in Seq({s[k] : k \in DOMAIN s})

ASSUME SnapshotAssumption ==
  /\ ProgramId \in DOMAIN Source /\ ProgramStart \in Nat
  /\ \A id \in DOMAIN Source : IsData(Source[id])
  /\ Programs \subseteq Seq(Segments)
  /\ \A prog \in Programs : \A k \in DOMAIN prog :
       prog[k].from <= prog[k].to /\ ProgramStart + prog[k].to <= Len(Source[ProgramId])
  /\ Loads \subseteq [id : DOMAIN Source, offset : Nat, length : Nat]
  /\ MaxArgs \in 0 .. Size /\ MaxSteps \in Nat

VARIABLES
  pc,           (* load, mark, run, resume; failed                         *)
  program,      (* metadata.actions                                        *)
  done,         (* actions loaded, then actions marked                     *)
  core,         (* registers, pc, cycles, ..: the number of guest steps    *)
  tracked,      (* Snapshot2Context::pages                                 *)
  snapshot,     (* the last snapshot made, or NoSnapshot                   *)
  left          (* resume: the entries of snapshot still to restore        *)

vars == <<mem, flags, pc, program, done, core, tracked, snapshot, left>>

NoSnapshot == [none |-> TRUE]
NoEntries  == [sourced |-> {}, dirty |-> {}]

Init ==
  /\ mem = ZeroMem /\ flags = NoFlags
  /\ pc = "load" /\ program \in Programs /\ done = 0 /\ core = 0
  /\ tracked = [p \in {} |-> 0]
  /\ snapshot = NoSnapshot /\ left = NoEntries

(* External: DataSource::load_data, the data from offset on, cut to length *)
(* unless length is 0.                                                     *)
Loaded(id, offset, length) ==
  LET end == IF length = 0 \/ offset + length > Len(Source[id]) THEN Len(Source[id])
             ELSE offset + length
  IN  SubSeq(Source[id], offset + 1, end)

--------------------------------------------------------------------------------
(* track_pages(start, length, id, offset)                                  *)

(* Mutant: a page that is covered from its middle on counts.               *)
CoveredFromMiddle(start, length) ==
  {p \in Page : start < (p + 1) * PageCells /\ (p + 1) * PageCells <= start + length}

Covered(start, length) ==
  {p \in Page : start <= p * PageCells /\ (p + 1) * PageCells <= start + length}

(* Mutant: the flag is fetched before DIRTY is cleared.                    *)
FlagBeforeClear(fl) == fl

FlagToTrack(fl)     == fl \ {"dirty"}

TrackedPages(tr, fl, start, length, id, offset) ==
  LET ps == Covered(start, length) IN
  [p \in DOMAIN tr \cup ps |->
     IF p \in ps THEN [id |-> id, offset |-> offset + p * PageCells - start,
                       flag |-> FlagToTrack(fl[p])]
     ELSE tr[p]]

TrackedFlags(fl, start, length) == ClearFlag(fl, Covered(start, length), {"dirty"})

--------------------------------------------------------------------------------
(* load_program_with_metadata, from VERSION1 on.  A machine whose program  *)
(* cannot be loaded is dropped.                                            *)
Drop ==
  /\ pc' = "failed"
  /\ UNCHANGED <<mem, flags, program, done, core, tracked, snapshot, left>>

SegmentData(seg) == SubSeq(Source[ProgramId], ProgramStart + seg.from + 1,
                                              ProgramStart + seg.to)

LoadSegment ==
  /\ pc = "load" /\ done < Len(program)
  /\ LET seg == program[done + 1] IN
     /\ InitPagesOk(flags, seg.addr, seg.size, seg.pad)
     /\ mem'   = Filled(mem, seg.addr, seg.size, SegmentData(seg), seg.pad)
     /\ flags' = FilledFlags(flags, seg.addr, seg.size, seg.flags)
  /\ done' = done + 1
  /\ UNCHANGED <<pc, program, core, tracked, snapshot, left>>

SegmentRefused ==
  /\ pc = "load" /\ done < Len(program)
  /\ LET seg == program[done + 1] IN ~InitPagesOk(flags, seg.addr, seg.size, seg.pad)
  /\ Drop

(* initialize_stack: arguments are pushed from the end of memory down; an  *)
(* empty argument list writes nothing.                                     *)
InitializeStack ==
  /\ pc = "load" /\ done = Len(program)
  /\ \E n \in 0 .. MaxArgs :
       /\ Permitted(flags, Size - n, n)
       /\ mem'   = Written(mem, Size - n, [k \in 1 .. n |-> "arg"])
       /\ flags' = Dirtied(flags, Size - n, n)
  /\ pc' = "mark" /\ done' = 0
  /\ UNCHANGED <<program, core, tracked, snapshot, left>>

StackRefused ==
  /\ pc = "load" /\ done = Len(program)
  /\ \E n \in 0 .. MaxArgs : ~Permitted(flags, Size - n, n)
  /\ Drop

(* mark_program: one action.                                               *)
MarkedLength(seg) ==
  IF seg.to - seg.from < seg.size - seg.pad THEN seg.to - seg.from ELSE seg.size - seg.pad

MarkSegment ==
  /\ pc = "mark" /\ done < Len(program)
  /\ LET seg    == program[done + 1]
         start  == seg.addr + seg.pad
         length == MarkedLength(seg)
     IN  /\ tracked' = TrackedPages(tracked, flags, start, length, ProgramId,
                                    ProgramStart + seg.from)
         /\ flags'   = TrackedFlags(flags, start, length)
  /\ done' = done + 1
  /\ UNCHANGED <<mem, pc, program, core, snapshot, left>>

Marked ==
  /\ pc = "mark" /\ done = Len(program)
  /\ pc' = "run"
  /\ UNCHANGED <<mem, flags, program, done, core, tracked, snapshot, left>>

--------------------------------------------------------------------------------
(* The guest runs.  A store of its own, which the context does not see.    *)
Running == pc = "run" /\ core < MaxSteps

Store ==
  /\ Running
  /\ \E a \in Addr, v \in Values :
       /\ Permitted(flags, a, 1)
       /\ mem'   = Written(mem, a, <<v>>)
       /\ flags' = Dirtied(flags, a, 1)
  /\ core' = core + 1
  /\ UNCHANGED <<pc, program, done, tracked, snapshot, left>>

(* Snapshot2Context::store_bytes.  The size of the data is stored first;   *)
(* then the pages touched are untracked one by one, up to the end of       *)
(* memory; the bytes are stored; the pages they cover are tracked.         *)
Untracked(tr, ps) == [p \in DOMAIN tr \ ps |-> tr[p]]

(* Mutant: the pages are untracked but not marked dirty.                   *)
UntrackedFlagsKept(fl, ps) == fl

UntrackedFlags(fl, ps)     == SetFlag(fl, ps, {"dirty"})

StoreBytes(ld, addr, sizeAddr) ==
  LET data == Loaded(ld.id, ld.offset, ld.length)
      n    == Len(data)
      ps   == PageIndices(addr, n) \cap Page
      mem1 == Written(mem, sizeAddr, <<"len">>)
      tr1  == Untracked(tracked, ps)
      fl1  == UntrackedFlags(Dirtied(flags, sizeAddr, 1), ps)
  IN  /\ Permitted(flags, sizeAddr, 1)
      /\ IF Permitted(fl1, addr, n)
         THEN /\ mem'     = Written(mem1, addr, data)
              /\ tracked' = TrackedPages(tr1, Dirtied(fl1, addr, n), addr, n, ld.id, ld.offset)
              /\ flags'   = TrackedFlags(Dirtied(fl1, addr, n), addr, n)
         ELSE mem' = mem1 /\ tracked' = tr1 /\ flags' = fl1

LoadSyscall ==
  /\ Running
  /\ \E ld \in Loads, addr, sizeAddr \in Addr : StoreBytes(ld, addr, sizeAddr)
  /\ core' = core + 1
  /\ UNCHANGED <<pc, program, done, snapshot, left>>

--------------------------------------------------------------------------------
(* make_snapshot.  Pages are visited in order and joined to the last entry *)
(* when they continue it: the entries are the maximal runs of such pages.  *)

(* Mutants: pages are joined whatever their flags, whatever their offsets. *)
DirtyJoinsAny(p, q)      == TRUE
SourcedJoinsAnywhere(p, q) ==
  tracked[p].flag = tracked[q].flag /\ tracked[p].id = tracked[q].id

DirtyJoins(p, q)   == flags[p] = flags[q]
SourcedJoins(p, q) ==
  /\ tracked[p].flag = tracked[q].flag /\ tracked[p].id = tracked[q].id
  /\ tracked[p].offset + PageCells = tracked[q].offset

DirtyPages   == {p \in Page : "dirty" \in flags[p]}
SourcedPages == DOMAIN tracked \ DirtyPages

(* The pages that the next one is joined to.                               *)
DirtyJoined   == {p \in DirtyPages : p + 1 \in DirtyPages /\ DirtyJoins(p, p + 1)}
SourcedJoined == {p \in SourcedPages : p + 1 \in SourcedPages /\ SourcedJoins(p, p + 1)}

(* First and last pages of the maximal runs of joined pages.               *)
Runs(ps, joined) ==
  {r \in ps \X ps : /\ r[1] .. r[2] - 1 \subseteq joined /\ r[1] <= r[2]
                    /\ {r[1] - 1, r[2]} \cap joined = {}}

DirtyEntry(r) ==
  [addr |-> r[1] * PageCells, flag |-> flags[r[1]],
   content |-> [k \in 1 .. (r[2] - r[1] + 1) * PageCells |-> mem[r[1] * PageCells + k - 1]]]

SourcedEntry(r) ==
  [addr |-> r[1] * PageCells, flag |-> tracked[r[1]].flag, id |-> tracked[r[1]].id,
   offset |-> tracked[r[1]].offset, length |-> (r[2] - r[1] + 1) * PageCells]

MakeSnapshot ==
  /\ pc = "run"
  /\ snapshot' = [sourced |-> {SourcedEntry(r) : r \in Runs(SourcedPages, SourcedJoined)},
                  dirty   |-> {DirtyEntry(r) : r \in Runs(DirtyPages, DirtyJoined)},
                  core    |-> core]
  /\ UNCHANGED <<mem, flags, pc, program, done, core, tracked, left>>

--------------------------------------------------------------------------------
(* resume: a new machine takes the place of the suspended one.             *)
Resume ==
  /\ pc = "run" /\ snapshot # NoSnapshot
  /\ mem' = ZeroMem /\ flags' = NoFlags
  /\ tracked' = [p \in {} |-> 0]
  /\ core' = snapshot.core
  /\ left' = [sourced |-> snapshot.sourced, dirty |-> snapshot.dirty]
  /\ pc' = "resume"
  /\ UNCHANGED <<program, done, snapshot>>

(* An entry of pages_from_source is not refused as unaligned or by W^X.    *)
SourcedOk(e) ==
  LET n == Len(Loaded(e.id, e.offset, e.length))
  IN  e.addr % PageCells = 0 /\ n % PageCells = 0 /\ Permitted(flags, e.addr, n)

DirtyOk(e) ==
  /\ e.addr % PageCells = 0 /\ Len(e.content) % PageCells = 0
  /\ Permitted(flags, e.addr, Len(e.content))

(* The entries of each vector do not overlap: their order does not matter. *)
RestoreSourced ==
  /\ pc = "resume"
  /\ \E e \in left.sourced :
       LET data == Loaded(e.id, e.offset, e.length)
           n    == Len(data)
           fl1  == SetFlag(Dirtied(flags, e.addr, n), PageIndices(e.addr, n), e.flag)
       IN  /\ SourcedOk(e)
           /\ mem'     = Written(mem, e.addr, data)
           /\ tracked' = TrackedPages(tracked, fl1, e.addr, n, e.id, e.offset)
           /\ flags'   = TrackedFlags(fl1, e.addr, n)
           /\ left'    = [left EXCEPT !.sourced = @ \ {e}]
  /\ UNCHANGED <<pc, program, done, core, snapshot>>

RestoreDirty ==
  /\ pc = "resume" /\ left.sourced = {}
  /\ \E e \in left.dirty :
       LET n == Len(e.content) IN
       /\ DirtyOk(e)
       /\ mem'   = Written(mem, e.addr, e.content)
       /\ flags' = SetFlag(Dirtied(flags, e.addr, n), PageIndices(e.addr, n), e.flag)
       /\ left'  = [left EXCEPT !.dirty = @ \ {e}]
  /\ UNCHANGED <<pc, program, done, core, tracked, snapshot>>

Resumed ==
  /\ pc = "resume" /\ left = NoEntries
  /\ pc' = "run"
  /\ UNCHANGED <<mem, flags, program, done, core, tracked, snapshot, left>>

Dropped == pc = "failed" /\ UNCHANGED vars

Load == LoadSegment \/ SegmentRefused \/ InitializeStack \/ StackRefused
        \/ MarkSegment \/ Marked

Next ==
  \/ Load \/ Store \/ LoadSyscall
  \/ MakeSnapshot \/ Resume \/ RestoreSourced \/ RestoreDirty \/ Resumed
  \/ Dropped

Spec == Init /\ [][Next]_vars

--------------------------------------------------------------------------------
(* Whether the segments of a program lie in pages of their own, and those  *)
(* that are not executable below the arguments, so that nothing is stored  *)
(* over a segment between load_program and mark_program.                   *)
OwnPages(prog) ==
  /\ \A i, j \in DOMAIN prog :
       i # j => PageIndices(prog[i].addr, prog[i].size)
                  \cap PageIndices(prog[j].addr, prog[j].size) = {}
  /\ \A i \in DOMAIN prog : \/ "executable" \in prog[i].flags
                             \/ prog[i].addr + prog[i].size <= Size - MaxArgs

SourcedEntries == [addr : Addr, flag : SUBSET Flags, id : DOMAIN Source,
                   offset : Nat, length : Nat]

SnapshotTypeOK ==
  /\ DOMAIN mem = Addr /\ flags \in [Page -> SUBSET Flags]
  /\ pc \in {"load", "mark", "run", "resume", "failed"}
  /\ program \in Programs /\ done \in 0 .. Len(program)
  /\ core \in 0 .. MaxSteps
  /\ DOMAIN tracked \subseteq Page
  /\ \A p \in DOMAIN tracked :
       tracked[p] \in [id : DOMAIN Source, offset : Nat, flag : SUBSET (Flags \ {"dirty"})]
  /\ snapshot # NoSnapshot => snapshot.sourced \subseteq SourcedEntries
  /\ left.sourced \subseteq SourcedEntries

PageData(p) == [k \in 1 .. PageCells |-> mem[p * PageCells + k - 1]]

(* A page the snapshot will not contain, because the context says where    *)
(* its content can be found, holds exactly that content and has the flags  *)
(* it had when it was tracked; however stores of the guest, which the      *)
(* context never sees, mix with load syscalls that fail half way.          *)
TrackedPageIsSource ==
  pc = "run" =>
    \A p \in SourcedPages :
      /\ LET src == Source[tracked[p].id] IN
         \A k \in 1 .. PageCells : /\ tracked[p].offset + k \in DOMAIN src
                                   /\ PageData(p)[k] = src[tracked[p].offset + k]
      /\ flags[p] = tracked[p].flag

(* A page the snapshot leaves out altogether is as Memory::new made it.    *)
OmittedPageIsFresh ==
  pc = "run" =>
    \A p \in Page \ (SourcedPages \cup DirtyPages) :
      flags[p] = {} /\ \A k \in 1 .. PageCells : PageData(p)[k] = Zero

(* resume never refuses what make_snapshot produced: joined entries are    *)
(* aligned, are all in the source, and are not stored over a page that is  *)
(* executable already.                                                     *)
SnapshotAccepted ==
  pc = "resume" => /\ \A e \in left.sourced : SourcedOk(e)
                   /\ \A e \in left.dirty : left.sourced = {} => DirtyOk(e)

--------------------------------------------------------------------------------
(* The machine in memory, or the one the snapshot describes.               *)
Image(m, f, c) == [mem |-> m, flags |-> f, core |-> c]

EntryCells(e, n) == e.addr .. e.addr + n - 1

Described(s) ==
  LET InDirty(c)   == {e \in s.dirty : c \in EntryCells(e, Len(e.content))}
      InSourced(c) == {e \in s.sourced : c \in EntryCells(e, e.length)}
      Value(c) == IF InDirty(c) # {}
                  THEN LET e == CHOOSE e \in InDirty(c) : TRUE IN e.content[c - e.addr + 1]
                  ELSE IF InSourced(c) # {}
                  THEN LET e == CHOOSE e \in InSourced(c) : TRUE
                       IN  Source[e.id][e.offset + c - e.addr + 1]
                  ELSE Zero
      Flag(c) == UNION {e.flag : e \in InDirty(c) \cup InSourced(c)}
  IN  Image([c \in Addr |-> Value(c)], [p \in Page |-> Flag(p * PageCells)], s.core)

Machine == INSTANCE ResumableMachine WITH
  Off     <- NoSnapshot,
  machine <- IF pc = "run" THEN Image(mem, flags, core) ELSE NoSnapshot,
  saved   <- IF snapshot = NoSnapshot THEN NoSnapshot ELSE Described(snapshot)

(* A resumed machine has the memory, the flags of every page and the core  *)
(* of the machine the snapshot was made of, and so goes on as it would.    *)
ResumesAsSaved == Machine!Spec
================================================================================
