# A verification development of jolt-ncp

jolt-ncp proves with the Jolt zkVM that a CKB transaction's scripts accept it.
A **host** asks a CKB node for the transaction and everything it refers to,
finds for every script group the ELF it runs, runs the group once to collect
its root program's system calls, and hands ELFs and traces to a **guest**. The
guest, compiled for Jolt, replays the trace of the first group in a fork of
ckb-vm (`forks/ckb-vm-asm`), whose memory,
snapshots, run loops, instructions and instruction fusion this development
models too. Paths below are relative to `src/`.

## 1. The system

### 1.1 Components, their state and what makes them correct

Host (`src/`):

| component | state | operations | what makes it correct |
|---|---|---|---|
| JSON-RPC client, `rpc_client.rs` | the request id counter | `get_transactions_batch`, `get_headers_batch`, `get_transaction`, decoding of replies | each request of a batch gets the answer to *its* id, whatever the order, number and completeness of the replies; a call ends |
| transaction resolution, `tx_converter.rs` | the mock transaction under construction | `tx_to_mock_tx` in three batches: inputs with cell deps, members of dep groups, headers | every entry holds what the chain says of its out point, in the transaction's order, with each dep group followed by its members in their order |
| script groups and ELF index, `vefier_context.rs`, `lib.rs` | hash -> ELF, the groups' traces | `from_mock_transaction_with_groups`, `accumulate_traces` | the ELF put into the proof is the code CKB runs |
| proof context, `types/types.rs`, `execute` in `lib.rs` | interned ELFs, indices | interning, truncation to `u16`, size analysis | each trace's index leads to its own ELF; an input the guest cannot take is announced |
| syscall collection, `collect_vm_syscalls.rs` | the root VM's trace | collector hooks | the trace is what the VM did (ckb-script's scheduler drives it) |
| VM creation log, `collect_vm_creation.rs` | -- | printing | -- |
| TypeID detection, `type_id.rs` | -- | `is_type_id_group` | TypeID groups, which have no ELF, are left out and nothing else is |

Guest (`guest/src/`):

| component | state | operations | what makes it correct |
|---|---|---|---|
| entry point and executor, `lib.rs`, `executor.rs` | the VM | pick the first trace, map its version, run | what is proved is the trace of that group, of its ELF, under its version |
| exec override, `exec_syscall_handler.rs` | -- | answers `exec` with 0 instead of replacing the program | the run loops keep their promises with either answer |
| Jolt memory shim, `jolt_memory.rs` | one byte array | `Memory` | same answers as `FlatMemory`; the executor does not use it |

VM (`forks/ckb-vm-asm/src/`):

| component | state | operations | what makes it correct |
|---|---|---|---|
| memory, `memory/{mod,flat,wxorx}.rs` | bytes, per-page flags (freezed, executable/writable, dirty) | `init_pages`, `store*`, `load*`, `execute_load*`, `set_flag`, `clear_flag` | W xor X; a frozen page keeps its flags; a write marks its page dirty |
| sparse memory, `memory/sparse.rs` | page map with `u16` indices | same | same answers |
| assembly memory, `machine/asm/mod.rs`, `execute_x64.S` | the same, uninitialised; initialised frames; `last_write_page`, `last_read_frame` | same, plus loads and stores executed in assembly | lazy zeroing and skipped checks cannot be observed |
| snapshots, `snapshot2.rs` | page -> source, offset | `track_pages`, `untrack_pages`, `store_bytes`, `load_program`, `mark_program`, `make_snapshot`, `resume` | a resumed machine is the one that was saved |
| old snapshots, `snapshot.rs` | dirty pages | `make_snapshot`, `resume` | same |
| loading, `elf.rs`, `machine/mod.rs` | -- | `parse_elf`, `load_binary`, `initialize_stack` | segments and arguments at their places with their flags |
| run loops, `machine/mod.rs`, `machine/trace.rs`, `machine/asm/{mod,traces}.rs`, `execute_x64.S`, `decoder.rs` | pc, cycles and their limit, the pause byte, `reset_signal`; the instruction cache; fixed, memoized and dynamic traces | `run`, `run_with_decoder`, `step`, `ecall`, `decode_raw`, `prepare_traces`, `interrupt` | what is cached is what memory holds; each loop computes what decoding every instruction afresh would; cycles and interrupts end a run |
| fusion, `decoder.rs` | -- | `decode_mop` | the fused instruction does what the ones it replaces do |
| instructions, `instructions/{execute,common,register}.rs` | registers, memory, load reservation | handlers, `Register` | results agree with one another over all operands; aliasing registers are harmless; a failing instruction has changed nothing |

### 1.2 How they interact

    node  <-JSON-RPC batches->  RpcClient  <-calls-  tx_to_mock_tx
                                                        | mock transaction
                                                        v
        ckb-script (groups, scheduler)  ->  group traces, ELF map, versions
                                                        | ScriptGroupTraces
                                                        v
                              interned ELFs + traces  ->  guest  ->  VM

    ckb-script's scheduler  ->  Snapshot2Context  ->  Memory  <-  instructions

The host is one thread: `tx_to_mock_tx` blocks on each HTTP request. What is
concurrent, or merely in an order nobody chose, is elsewhere: the node answers
the requests of a batch in any order; ckb-script's scheduler suspends and
resumes VMs between any two of their steps, calling the snapshot context while
the guest writes the same memory through instructions; and the assembly code
shares flags, frames and two caches with the Rust implementation of `Memory`,
which any system call may use between two instructions. A run loop keeps
decoded instructions and traces while the program replaces itself or loads
code, and another thread may set its pause byte at any moment.

### 1.3 Hard behaviours

* replies that are reordered, doubled, missing, without id, or
  errors; positions in the second batch computed from the first (`dep_offset`);
* two kinds of reference to a code cell (data hash, type hash) in one map that
  later cell deps overwrite, with dep-group containers among them;
* a resumed machine assembled from what the snapshot copied and what it only
  refers to: a page overwritten after it was tracked, tracked after it was
  overwritten, partly covered by a source, or changed only in its flags;
* `last_write_page` and `last_read_frame` after a flag changed, after a reset,
  after a failed store; frames initialised in part;
* instruction and trace caches that outlive the code they were made from, until
  the loop sees `reset_signal`; traces that point to other traces;
* the pc of the assembly machine, which during a trace is already that of its
  end, and its cycles, which are paid in advance;
* an interrupt between any two steps, a second one while the first is handled;
* fusion rules that compare up to fifteen register fields and must refuse every
  alias that would change a result;
* limits: `u16` indices, the guest's maximal input, the end of memory, cycles
  near their limit and near `2^64`.

`PROJECT.json` lists each hazard at its line with the properties that cover it,
or the reason why none does.

## 2. The modules

A module states a component; one with `Proofs` in its name holds theorems; `MC...`
gives the constants values and the refinement mapping.

### 2.1 RpcClient, TxConverter (implements CellResolution)

`RpcClient` has the counter `nextId`, the calls of the POST in flight (`wire`) and
the responses the node has written so far (`reply`); `BatchOk` and `BatchResults`
are the second half of `exec_batch`, the map from ids to responses and its use,
with a response that has no `"id"` filed under 0 as serde's default does.
The node is external: it may answer in any order, leave calls out, answer one
twice, with an error, or without id. It is **honest about content and free in
form**: a good response to an id carries what the chain holds for that call.
(The host compares no hash with what it gets; what a lying node could make
it prove is not a property of this code.)

`TxConverter` is `get_transaction` and `tx_to_mock_tx` with one action per stretch of
code between two requests -- `GetTransaction`, `TransactionFetched`, `ResolveCells`,
`MainResults`, `ResolveMembers`, `MemberResults`, `ResolveHeaders`,
`HeaderResults` -- and one per iteration of the two loops over the cell deps,
`CollectDep` and `PushDep`, so that `sub_result_idx` is a variable with an
invariant. `MalformedGroup`, `ReplyRejected` and `TransportFails` are the error
paths. `CellResolution` states in one atomic step what the result must be: done
with exactly what the chain defines, or failed.

### 2.2 ProofContext

From the mock transaction to the guest's replay: `IndexDep` per cell dep,
`EnumerateGroups`, `SkipTypeId`, `CollectGroup` or `CollectorFails` per group, `InternElf`
per trace with an index modulo `2^16`, `Analyse` (the host's size report), and
the guest: `InputTooLarge`, `NoTraces`, `InvalidVersion`, `ReplayFails`, `Replay`. The groups,
the code CKB finds for one (`CodeOf`) and the trace recorded are external: they
come from ckb-script, and a trace counts by its size only.

### 2.3 PageMemory; Snapshot2 (implements ResumableMachine)

`PageMemory` has the operators of `FlatMemory` under `WXorXMemory`: written
cells, flags, refusals, `init_pages`. A page has a few cells, each of which
stands for a run of bytes: what matters is whether an access is within a page,
covers it whole, or crosses into another.

`Snapshot2` runs one VM with its snapshot context: `LoadSegment`, `InitializeStack` and
`MarkSegment` load and mark the program; then the guest's `Store`s, which the
context does not see, interleave with `LoadSyscall`s (`store_bytes`, which may fail
after it has untracked pages), with `MakeSnapshot`, and with `Resume`, whose
restored entries are one action each.
`ResumableMachine` knows memory, flags, core and a saved copy of the three.
The refinement mapping, at the end of `Snapshot2`, rebuilds the machine
from a snapshot *independently of the code that resumes it*.

### 2.4 AsmMemory (implements FlatMachine)

`FlatMachine` is the abstract machine: one operation per step, of host or
guest, and its answer; memory all zero at the start; every check made each
time. `AsmMemory` is the assembly VM: uninitialised memory, frames zeroed on
first touch, two caches. `GuestStore` and `GuestLoad` are the macros
`CHECK_WRITE` and `CHECK_READ` followed by the access, with the fast path as a
disjunct of its own; the other actions are the Rust side. The mapping reads an
uninitialised frame as zeros. The x64 macros are modelled; the aarch64 and
riscv64 files are not modelled.

A guest store that is refused ends the run (`failed`), and a machine that failed is
not run again: that is the reason `last_write_page` may be stored before
the checks that it vouches for.

### 2.5 Register, Execute, Decoder, WordDecoder, Pipeline

`Register` is the trait of that name at the width `XLEN`, a parameter: a byte,
a half and a word are an eighth, a quarter and a half of it, as in the 64-bit
machine. `Execute` has the handlers of `execute.rs` on a machine that is a
record: families of instructions with the value they compute (`AluValue`,
`MulDivValue`, ..), loads and stores with their errors, atomics and
reservations, branches and jumps in both versions, and the fused instructions;
`Run` is one instruction with its pc commitment. `Decoder` is `decode_mop`: a
predicate for each rule on the instructions at the pc (`RuleAdc`, `RuleSbb`,
`RuleFarJump`, ..), what it makes of them, and which of the rules is asked first.
`Pipeline` puts them together: `Step` decodes what is at the pc and runs it.
Instructions are records of their fields.

`WordDecoder` is what comes before: `DecodeBits` reads two or four bytes at the pc,
in one load or two, with the refusals of `WXorXMemory`; `DecodeRaw` asks the
factories of the decoder's extensions one after another (`FactoriesOf`,
`FirstAnswer`). `RvcFactory` .. `AFactory` are the five factories, with the version's
opcodes and hints and for registers of 32 and 64 bits; the matches on
fields are tables of keys and opcodes (`Row`). A word is two halves of 16 bits,
since TLC's integers have 32 with a sign. Words keep their real widths, so
that programs at a parametric width and words are checked side by side
(`MCNext`): a state of the run belongs to one of the two.

### 2.6 GuestCode; VmRun (implements DirectMachine)

Here an instruction is what it means to a run loop. `GuestCode` keeps how it
moves the pc (one register `acc` decides branches), what it costs, whether it
ends a straight line, and what it does to the code in memory: `Exec` replaces the
program and raises the reset signal, `LoadCode` writes a page and freezes it,
`Store` is refused on executable pages. One fusion, `LUI` with `ADDIW`, stands for all.

`VmRun` has the three loops:

| actions | code |
|---|---|
| `Start` | `run`, and the host that calls it again after a pause or with a higher limit, with the decoder of before or a new one |
| `Interrupt`, `SeeInterrupt`, `Pausing` | `Pause::interrupt` from another thread, `has_interrupted`, and `free` as a step of its own |
| `InterpreterStep` | `DefaultMachine::run_with_decoder`, `step`: reset, decode with cache, pay, execute |
| `TraceHead`, `TraceThread` | `machine/trace.rs`: hit or build a trace; one instruction of it |
| `AsmHead`, `AsmHit`, `AsmMiss`, `AsmThread`, `AsmTraceEnd` | `machine/asm/mod.rs` around `execute_x64.S`: the reset signal, `.trace_loaded`, `RET_DECODE_TRACE` into `prepare_traces` of the simple, memoized or dynamic decoder, one thread, the way on to the next trace |

While an assembly trace runs, `m.pc` is that of its end and `m.cycles` includes
all of it, as in the code; the refinement mapping subtracts what is `left`.

`DirectMachine` has no caches, traces, interrupts or host. Its step decodes what
memory holds, pays and executes. What a trace machine adds is stated there
openly: it may fail, or run out of cycles, already at the start of a
straight line at whose end it must (`FailAhead`, `ShortAhead`), and before version 2,
where `TraceHit` compares 32 bits, it may run what is at the low 32 bits of
its pc (`Here`).

## 3. What TLC checks

| run | question | bounds | result |
|---|---|---|---|
| `resolve` | does resolution give what the chain holds, whatever the replies? | 8 transactions (plain, dep groups of 0, 1, 2 members, cellbase, bad group, missing output, unknown), at most `MaxOdd` = 2 odd replies per run | holds; 158,732 states |
| `context` | does every trace get the code CKB runs? | 5 mock transactions, two trace sizes | holds; 489 states |
| `context_clash` | the same, a dep-group container sharing a type script with a code cell | 1 transaction | **violated** |
| `context_size` | is an input the guest cannot take announced? | as `context` | **violated** |
| `context_version` | does the VM run every version the executor maps? | as `context` | **violated** |
| `snapshot` | is a resumed machine the saved one? | 4 pages of 2 cells, 5 programs, 3 loads, `MaxSteps` = 2 | holds; 62,112 states |
| `snapshot_overlap` | the same, with segments that share a page | 1 program | **violated** |
| `asm_memory` | can lazy zeroing and skipped checks be observed? | 2 frames of 3 pages of 2 cells, `MaxOps` = 3 | holds; 33,642 states |
| `asm_gap` | the same, `init_pages` up to one page before the end of a frame | 3 segments | **violated** |
| `pipeline` | do fusion, aliases, edge operands, failures change a result? | 16-bit registers, 64 bytes; every rule under every assignment of registers and every change of one operand; every handler; 3,072 compressed words in every version, 7,104 full ones and 1,440 of them again before version 1, for registers of 32 bits and with fewer extensions; 1,152 fetches at the even pcs of two pages | holds; 244,783 states |
| `fusion_sbb` | the same, with the rule for subtract-with-borrow as it is | its instances | **violated** |
| `vm_run` | do caches, traces, limits, interrupts show? | 9 programs, 450 setups; 2 pages of 6 parcels | holds; 51,292 states |

### 3.1 Properties

* `resolve`: `EntriesMatchChain` -- each entry of the mock transaction, at every
  moment, is the chain's content at its out point and at its position;
  `IdsIdentifyCalls` -- the calls of a batch have distinct ids, and none has the 0
  under which a response without id is filed; `CompleteReplyAccepted` -- a reply
  in which the last response to each id is good is not refused, whatever its
  order and what else is in it; `ResolvesAtomically` -- the refinement; `RunEnds` -- liveness.
* `context`: `RunnableGroupHasElf`, `ElfIsVerifiedCode` -- what is found in the ELF
  map for a group is the code CKB resolves for its script; `IndexedElf` --
  interning and truncation lead each trace to its ELF; `ProvesFirstGroup`.
* `snapshot`: `TrackedPageIsSource` -- a page the context declares sourced holds
  the source's data; `OmittedPageIsFresh` -- a page the snapshot neither copies
  nor refers to is as a fresh machine has it; `SnapshotAccepted` -- `resume`
  takes every snapshot `make_snapshot` made; `ResumesAsSaved` -- the refinement.
* `asm_memory`: `InitedFrameIsClean`, `LastWritePageIsOpen`,
  `LastReadFrameIsInited`, `ImplementsFlatMemory` -- the refinement, on every answer.

* `pipeline`: `FusedAsSequence` -- a step of the fusing machine is one to five steps
  of one that does not fuse, whatever the registers; `AliasingIsHarmless` -- no
  handler reads a register that it has written; `QuotientAndRemainder`,
  `ProductHalves`, `BitLaws` -- families of instructions satisfy the laws that bind
  them, for edge operands in all widths; `ScAnswersLastLr` -- reservations,
  on every line of four loads-reserved, stores-conditional and stores;
  `FaultIsPrecise` -- what a failing instruction may have changed. On words:
  `FactoriesAreDisjoint` -- what a word means does not hang on the order of the
  factories or on other extensions; `EveryBitCounts` -- no two words a bit apart are
  the same instruction (aq, rl and hints excepted); `LaterVersionsAgree` -- a version
  keeps the instructions of those before; `ImmediatesAsCommented` -- compressed
  immediates are what `rvc.rs`' comments say; `FetchReadsTheInstruction` -- the fast
  path of `decode_bits` refuses and reads what two loads of two bytes would.
* `vm_run`: `CachedIsCurrent` -- what is cached, memoized or left of a trace is what
  memory holds, unless a reset has yet to be seen; `CyclesWithinLimit`;
  `ImplementsDirectMachine` -- the refinement; `InterruptStops`, `RunReturns` -- liveness.

Every property has a mutant in `PROJECT.json`: a definition of the model
altered as a slip in the code would alter it, under which TLC finds the
property violated.

### 3.2 Why the bounds are enough

* `MaxOdd`: oddities of one batch are independent of each other except in pairs
  (one reply missing and another doubled keeps the number right), hence two.
* Chain: the offset arithmetic can go wrong only with a group before another
  cell dep, of a size other than one; `"groups"` has a group of two, a
  plain dep, a group of one; `"empty"` has an empty group in front.
* Pages: a load of three cells from the middle covers a page whole and a page in
  part; two adjacent pages can be sourced as one run; a third and fourth page
  leave room for the other actor. With `MaxSteps` = 3 the run was made
  once: 900,413 states, no violation.
* Frames: three pages are the least for which a frame has a page that is
  neither first nor last. `MaxOps` = 3 is enough to fill a cache, disturb it
  and use it; the run was made once with 4: 234,507 states, no violation.
* `MCSegments` leaves out segments that end one page before a frame's end, and
  `MCPrograms` segments that share a page: each is the subject of a violation
  run, and the `ASSUME GapAssumption` of `MCAsmMemory` makes TLC confirm the split.

* Registers of 16 bits make a byte of 2, a word of 8 and a 12-bit immediate
  of 4; the carry, sign and overflow cases of 64 bits all exist there. Six
  registers beside `x0` are more than any rule names. The borrow rule's unchecked
  operand is left out of `pipeline` and the subject of `fusion_sbb`. Before
  version 2 a far jump through another register than `RA` leaves that register
  unwritten; `LosesItsRegister` excepts it from `FusedAsSequence`.
* Words: a field of a sample takes every value some factory matches, all ones and,
  of registers, each bit alone; `EveryBitCounts` changes each bit of
  each sample. All 2^32 words are out of TLC's reach; what a factory does to a
  field is the same for every value it does not match. A shift in 32-bit registers drops
  a bit of its amount (`SHIFT_MASK`), so `EveryBitCounts` is stated for 64, the
  size of every machine the project builds.
* `vm_run`: two trace slots and four cache entries collide for programs of six
  parcels; traces of two instructions are shorter than the programs'
  straight lines, so that lines continue in dynamic traces; `U32Range` = 16
  exceeds memory, so that a jump by it is far. Two programs (`Edge`, `Seam`) have a `LUI`
  in the last parcel of an executable page, where a fusion looks into the next page, and
  load that page, with an `ADDIW` at its start, before or after the trace is made. The limits 4, 8, 12 are less than
  the programs cost, and `U64Max` = 12 is reached. Fusion and the exec override are
  switched on for the programs in which they occur.

### 3.3 Fairness

`TxConverter` assumes weak fairness of the host's own steps (`Compute`: it is
one thread that runs unless it waits for a reply) and of `TransportFails` (the
HTTP client's timeout bounds each POST, so one that gets no reply fails). Of
the node nothing is assumed. `RunEnds` follows: each run is done or failed in
the end.

`VmRun` assumes weak fairness of `MachineStep`: the thread that runs the machine
is scheduled. Of the host, which may never call `run` again, and of the thread
that interrupts, which may never or for ever do so, nothing is assumed.
`RunReturns` follows for programs whose instructions cost something;
`InterruptStops` also for those that cost nothing, with one exception that it
states: the assembly loop looks at the pause byte only after a jump, so a program that replaces
itself again and again and never jumps is not stopped.

The other specifications have safety properties only and no fairness.

## 4. What TLAPS proves

`TxConverterProofs`, for every chain, every set of hashes, data and types, and every
number of odd replies:

* `Invariance`: `Spec => []ConvInv`, with `ConvInv` = `TypeOK`, `Numbering`, `Asked`,
  `Answered`, `Offsets`, `EntriesMatchChain`;
* `TypeCorrect`, `EntriesCorrect` (`EntriesMatchChain`), `IdsDistinct`
  (`IdsIdentifyCalls`), `CompleteRepliesAccepted` (`CompleteReplyAccepted`);
* `ResolutionRefines` (`ResolvesAtomically`, the refinement of `CellResolution`).

`EntriesMatchChain` is not inductive: it says nothing of the arrays the entries
are read from. `Numbering` says that the calls in flight, and the sub-calls being
built, bear consecutive numbers up to the counter, and that a response is about
one of the calls in flight; `Asked` that the calls ask for the out points of the
current step, in order; `Answered` that the result arrays hold, position by
position, the chain's cells; `Offsets` where in the flat array of members each
dep group's start, and how far the second loop's index has come. Each
lemma preserves one conjunct, with a step per action that can disturb it. The
only assumption is `ChainAssumption` of `TxConverter`: the constants have their
types and a group's data lists out points.

`EntriesMatchChain` would hold of a mock transaction with entries missing, repeated or in
another order. The refinement would not: `MockInv` says, for every phase, how far the
mock transaction has come -- the inputs pushed so far, the members of the dep groups
passed, the cell deps themselves, the headers -- as a prefix of what
`CellResolution` makes at once. The abstract result is a concatenation over the groups, by a
fold on sequences; `FlattenIs` characterises it by its recursion, from `AllNats` (a set of
natural numbers with 0 and each successor is all of them), and `ConvInv` supplies
where in the flat array of answers the second loop reads. The step to `done` is the
abstract step (`StepResolves`), a refused reply the abstract failure, and every other step a
stutter.

`AsmMemoryProofs`, for every number and size of pages and frames, every program,
and operations of host and guest in any order and number:

* `WriteCacheSound` (`LastWritePageIsOpen`): the page of `last_write_page` is
  within memory, not executable, dirty already, and in an initialised frame, so that
  the fast path of `CHECK_WRITE` skips only checks that would pass;
* `ReadCacheSound` (`LastReadFrameIsInited`): likewise for `CHECK_READ`.

Their conjunction is inductive. The argument is in four lemmas: what
initialising frames and a store by Rust code do to frames and flags
(`InitedMaps`, `StoredMaps`), that adding frames and dirty flags closes no open
page (`OpenStays`), and that an answered store leaves its first page open
(`StoreOpens`). They use `PageMemoryAssumption` and `AsmMemoryAssumption`: sizes
are positive, an access has an address and at least one cell.

The same module builds on them:

* `AsmTypeCorrect` (`AsmTypeOK`);
* `LazyMemoryRefines` (`ImplementsFlatMemory`) and `NoJunkInFrames`
  (`InitedFrameIsClean`), under `NoLastPageLeft`: no segment ends one page before the
  end of a frame that it covers from its start, which is the error `asm_gap` shows.

The invariant is type correctness and the soundness of the two caches. The heart of
the refinement is `fill_page_data`: three stores in a row (padding, data, rest),
each preceded by a `prepare_memory` that zeroes only the frames at its ends. `InGap`
describes the cells these may leave as they were, `PreparedZeroes` that there are no
others, `FastStoreAgrees` that what is seen differs from what should be seen at
most there after each of the stores, and `NoGap` that after the last one no
such cell is left. The other operations are compared with those of `FlatMachine` one
by one: a store of Rust code is answered exactly if `Permitted`
(`StoredIsFlat`), one on the fast path would have been (`FastStoreIsFlat`, from
`WriteCacheSound`'s invariant), and what is read lies in initialised frames
(`LoadedSeen`; on the fast path from that of `ReadCacheSound`).

`ProofContextProofs`, for every mock transaction with any number of cell deps and
groups:

* `ContextTypeCorrect` (`ContextTypeOK`), `RunnableGroupsHaveElfs`
  (`RunnableGroupHasElf`), without further assumption;
* `ElfsAreVerifiedCode` (`ElfIsVerifiedCode`) under `NoClash`: no container of a dep
  group comes after a code cell with a hash in common; `context_clash` shows
  what happens without it;
* `IndicesLeadToElfs` (`IndexedElf`) under `FewGroups`: at most `2^16` groups;
* `FirstGroupProved` (`ProvesFirstGroup`) under both.

The invariant has five parts. `Index` says which cell dep a hash leads to: the
last one so far that has it. `Collected` that the map is complete before a group is
met, and that each trace has the ELF the map gives for a code of which CKB
found exactly one; with `NoClash` the last cell dep is then no container, so it
is among those CKB looked at. `Interning` that what the loop met is indexed within
the ELFs, and `Designates`, which needs `FewGroups`, that an index leads
to the ELF of its code. `FirstTrace` follows the first group to the replay.

`VmRunProofs`, for every program, every price and limit, every geometry of caches:

* `LimitHolds` (`CyclesWithinLimit`) for all three loops. Its invariant adds that
  limits and cycles are numbers within 64 bits, and that a loop that goes on has
  met no error;
* `InterpreterCacheHolds` (`CachedIsCurrent`), `InterpreterRefines`
  (`ImplementsDirectMachine`) for the interpreter. The argument is W^X: what is
  cached was decoded from executable pages, a store to those is refused, code is
  loaded into pages that are not executable, and a replaced program raises the
  reset signal, upon which the cache is emptied before it is asked
  (`SameFetched`: whatever could be decoded is as it was).
  The refinement goes action by action: a step of the loop is a step of
  `DirectMachine`, `Start` with a higher limit is its `RaiseLimit`, and
  interrupts, pauses and returns are stutters.

In the second part, on the same terms, for the trace machine and the assembly machine too:

* `RunTypes` (`RunTypeOK`);
* `CachesHold` (`CachedIsCurrent`): nothing cached, memoized, built into a fixed or a
  dynamic trace, or left of the running one is stale, on any of the three machines.

A trace is built by a recursive function on the line, and these provers have no
induction over data. The lemmas `OffsetIs` and `DecodeLineIs` therefore
characterise each such function by its recursion, and argue from the least
natural number that is not in a set (`AllNats`). `RunInv` has six parts. `MachineInv`: types, and
the instruction cache is current. `TracesInv`: each trace is a straight line with its
length and price, and, unless a reset is pending, in memory where it says.
`ControlInv`: which phase belongs to which machine, and that none but the head
of the loop sees a reset pending. `ThreadInv`: what is left of the running trace is in
memory at the pc that is next, and a jump to a dynamic trace leads where
the line goes on. `NumbersInv` and `LimitInv`: pc and cycles are numbers, the
latter within 64 bits, and a loop that goes on has met no error.

W^X keeps what is decoded as it was -- with one exception, which made the
invariant harder to find than the rest: a `LUI` at the end of a page whose
successor is not executable yet is decoded alone, and when code is loaded
behind it, memory decodes to a fused instruction there. Two facts save the
traces. A trace that ends so was cut because what follows could not be
decoded; a machine that is about to enter it is `Doomed`: it fails
before it can reach a system call that loads code (`Lost`). In any other
trace a `LUI` has a successor that is decoded, so that fusion cannot change
(`Paired`). `Steady` is what a state promises of its traces: that they are
current and paired; only current, when the machine is lost; nothing, when
it was reset. `GuestCodeAssumption` adds that memory has fewer than `2^32`
bytes, which keeps the 32-bit comparison of versions 0 and 1 from confusing
two addresses of it (the VM's memory is 4 MB).

In the third:

* `EnginesRefine` (`Spec => ImplementsDirectMachine`): each of the three loops
  implements `DirectMachine`.

Its invariant, `RefineInv`, is `RunInv`, `RunnableInv` (a machine that can be run on was
running, and is one that may run), `PaidFor` (the assembly machine has spent
what the threads that are left cost, so that the subtraction in the mapping is of
natural numbers) and that the machine is a record of its eight fields. The
steps: building, hitting, entering a trace and moving to the next one are
stutters; a thread of a trace is one `Step` of `DirectMachine`, whose price has
been paid already (`AsmThreadPays`: an instruction that makes no system call neither reads
nor changes the cycles, `ExecuteForAnyCycles`); a line that cannot be
decoded is `FailAhead`, since the direct machine's own `LineFrom` is broken there
(`DoomedLine`); a trace that cannot be paid for is `ShortAhead`, since
`LineFrom` is at least as long as the trace (`LongLine`).

`Snapshot2Proofs`, for every memory, data source, program and any history of stores,
load syscalls, suspensions and resumptions:

* `SnapshotTypes` (`SnapshotTypeOK`), `OmittedPages` (`OmittedPageIsFresh`),
  `SnapshotsAccepted` (`SnapshotAccepted`), without further assumption;
* `TrackedPagesAreSource` (`TrackedPageIsSource`) and `ResumesTheSavedMachine`
  (`ResumesAsSaved`, the refinement of `ResumableMachine`) under `OwnPages(program)`: no two
  segments share a page -- `snapshot_overlap` shows what happens otherwise --
  and no writable one lies under the arguments, since `initialize_stack` runs
  before `mark_program` and its bytes would be declared the segment's.

`SnapshotInv` says, beside types, that a page that is neither dirty nor tracked has no
flags and is zero, that one that is tracked has the flags it was tracked with and,
with `OwnPages`, the source's data; that while the program is loaded and
marked, what is `Placed` so far is in memory with at least its flags; that the
entries of a snapshot are aligned, within the source, and on pages of their own
(`SavedOK`); and, during a resumption, that each page is what the entries restored so
far make it. `SnapshotAssumption` gives the constants their types, and says that a
segment's data lies in the program's file. That pages are joined into maximal runs of
consecutive source data is the longest part (`Runs`): the entries of a
snapshot partition the tracked pages, and each page of an entry is at the
entry's offset plus its distance.

`PipelineProofs`, for registers of 8, 16, 32 and 64 bits, every number of them, size of memory,
set of read-only pages, version and program:

* `PipelineTypes` (`PipelineTypeOK`): whatever is executed, fused or not, registers, pc,
  reservation and bytes of memory keep their widths, and x0 is zero;
* `FaultsArePrecise` (`FaultIsPrecise`): what an instruction leaves when it fails;
* `AliasesAreHarmless` (`AliasingIsHarmless`): a destination among the operands changes
  nothing. Two opcodes are excepted: `JALR_VERSION0`, which writes `rd` before it reads
  `rs1`, and FENCE, whose `rd` is not a register;
* `ReservationsAreHeld` (`ScAnswersLastLr`): on a line of loads and stores of any length a
  store-conditional succeeds exactly when the last load-reserved was of its address and
  no other store-conditional came between, and changes no memory otherwise;
* `FusingChangesNothing` (`FusedAsSequence`): a step of a machine that fuses is one to
  five of one that does not, in every program that satisfies `NoUncheckedBorrow`;
* `DivisionsAgree` (`QuotientAndRemainder`), `ProductsAgree` (`ProductHalves`) and
  `BitLawsHold` (`BitLaws`): whatever is in the registers, quotients and remainders,
  the halves of a product with and without carries, counts, rotations and the instructions
  on words satisfy the laws that bind them together.

What concerns `Register` and the values of `Execute` alone is in `RegisterProofs`.

`FaultsArePrecise` and `AliasesAreHarmless` need no values: `Shaped` says that a machine is a record of its parts,
and each handler is followed through what it writes and in which order (`Handled`,
`Agrees`). For the aliasing, two machines that differ in one fresh register are run side by
side; a handler that writes `rd` first and reads a register later does not
keep them alike. The fused handlers do write before they read, and the rules of
`decode_mop` make up for it; that theorem is about what `decode_raw` answers, and the next
about fusion.

`PipelineTypes` goes through every operator of `Register` and every handler of
`Execute`, and says of each that its result is a value. Three things stand in the way
of provers that have no induction over data. A register is a sum over its
one bits, a loaded value a sum over its bytes: the library's sum picks one element after
the other, and a law that holds of every term is proved from a smallest set of which it
fails (`SumExists`, `SumIs`, `SumRemove`), the bound on a sum of digits from the least number
of them (`SumBelow`). Powers: the provers know `2^k` for literals only, and
`PowersAssumption` says what it is, for exponents up to the width; TLC evaluates it. Division by a
variable: `ModIn` and `DivBelow` give the facts that are used of it. The invariant is
`WellTyped`, with `Between` (no error, no jump half done) between instructions and
`CodeIsRaw`, that the code is what `decode_raw` may answer (`IsRaw`: registers in range,
shift amounts below the width, 32-bit immediates in LUI and AUIPC only, shorter ones
elsewhere). `DecodedSound` then says that what any fusion rule makes has such
fields too. `ProgramsAssumption` is `IsRaw` of the programs, and that they are sequences and lie in memory;
`MachineAssumption` gives the machine two registers at least and a memory small beside
a word (4 MB in the code).

`FusingChangesNothing` assumes of the program what `fusion_sbb` shows it must: where
the borrow rule matches, the comparison is of the registers subtracted. Every program of
`pipeline` satisfies this. Both sides are brought to one form, the
machine at other registers and another pc (`At`). For the handlers `decode_mop` adds that
is `RunFused`; for one to five instructions one after another, `LaterSums`, `LaterOne` and
`LaterTwo`. Then one lemma per rule shows that the registers are equal, from the
inequalities the rule asks for. A constant of two parts is a matter of arithmetic (`WrapOfSum`, `WordOfWrap`): wrapping on the way changes neither a register
nor a word of it. The far jumps need more. The fused one adds two immediates as an `i32` and
wraps; if they overflow, it goes elsewhere than the two instructions would. `FarTargets`
says that neither then goes into memory: an immediate of LUI and one of JALR miss the range of
an `i32` by at most a quarter of a word's span, and memory ends below that;
`EvenIsHigh`, that clearing the lowest bit of the target leaves its highest. So `Observed`
takes a pc outside memory for any other.

`ReservationsAreHeld` relates the reservation, one field of the machine, to what ran before.
The invariant is `LrHeld`: the reservation is the address of the last load-reserved before the
pc, or none if there is none or a store-conditional came after it. The history is read from the
program, which on a straight line has run up to the pc: `PlacesFollow` and `PlacedInOrder` say
that its instructions lie one after another without overlap, and `StraightStep` that
the next pc is where the next one begins, with no wrap, as memory is small beside the span of a
register. The addresses are read from the registers of those instructions, so
the line must not write them (`StraightLine`); an LR whose destination is its own
address register keeps its reservation too, but no register says so any more. `NoReservation` is no
address that a store-conditional can succeed at. One that fails writes back what it
loaded, and that this is the same memory is `ByteOfSum`: each byte of a sum of bytes is the
one it was made of.

The last three theorems say that the results of several instructions on the same operands
fit together, so that they reject an instruction that is wrong alone. Two
representations of a value are needed. As a number modulo `2^XLEN`: `LowIs` and
`LowUnique` make of `SignedLow` the one number of its class that is small enough, from
which all sign extensions and overflows follow (`WordIs`, `WrapOfShift`); the products of
two variables are multiplied out by hand (`TruncatedIs`, `HighHalf`: the unsigned high half is
computed from halves of the factors). As a set of bits: `BitsOfValue` and `ValueOfBits` say that
`BitsOf` and `ValueOf` are inverse, by `EverySet`, which takes a law from each set of
positions to one with one position more; `HighBits`, `LowBits` and `SplitAt` that the bits
from k on are the quotient by `2^k` and the others the remainder. With these a shift moves a set, a
rotation permutes it (`Turned`, `TurnsBack`), a byte swap is its own inverse
(`BytesTurnBack`), and a carry-less product counts pairs of positions, as many either way
round (`PairsCommute`).

`WordDecoderProofs`, for every memory, pc, version and set of extensions:

* `FetchesExactly` (`FetchReadsTheInstruction`): whichever path `decode_bits` takes,
  reading fails exactly when a byte of the instruction itself cannot be read, and what is
  decoded is these bytes;
* `OneFactoryAccepts` (`FactoriesAreDisjoint`): no word is accepted by two factories;
* `VersionsAgree` (`LaterVersionsAgree`): later versions accept what earlier ones do, as
  the same instruction;
* `ImmediatesHold` (`ImmediatesAsCommented`): the bits of compressed immediates stand where
  the comments of `rvc.rs` say;
* `EveryBitKept` (`EveryBitCounts`): with any one of its bits changed, no word is decoded to
  the same instruction, `aq`, `rl` and words without effect aside.

TLC decodes chosen words at chosen places, the theorems speak of every word. They
assume `FetchesAssumption`: memory consists of whole pages of even size, and the pc
is even, which is what `decode_raw` says of it. `SamePage` and `WithinMemory` are then why four bytes
that do not start in the last two of a page are as readable as the first two, so that the fast
path refuses no more than the slow one. For the factories, one lemma each says which
opcodes and function fields it demands (`IDemands`, `BDemands`, ...), from the keys of its
tables; no two are compatible (`FactoriesDiffer`), so the first factory that accepts a word
is the only one (`AnswerOf`). `Grows` says of two versions that each instruction of the
older is one of the newer, or of a newer form (`FormsAre`). Immediates are compared bit by
bit: `FieldBits` takes each field apart, `LaidOutIs` and `SumOfTerms` the sum over a layout.

That every bit counts is proved the other way round: from an instruction back to its word.
`Made` says of each of 29 arms of the full factories, and `ShortMade` of each compressed
form, what the instruction tells of the word it was made of: opcode, function fields,
registers, immediate. Which arm it was, the opcode tells (`ArmOf`, `OneKeys`; of C.ADDI's four
forms and the two forms of a load or a store, the registers), and an arm's fields make up
the whole word (`FullFields`, `ImmediatesTell`, `ShortImmediates`), so that an instruction
is made of one word (`MadeOnce`, `ShortOnce`). There are two exceptions: atomic operations
do not look at bits 25 and 26, and C.ADDI and C.ADDI16SP may make the same addition to the
stack pointer, of words that are not a bit apart (`TwoAddiApart`). A word with a bit changed is
a power of two away (`FlipIs`).

Only model-checked are `RunEnds`, `RunReturns` and `InterruptStops`: liveness is out of the
prover's reach. Every invariant and every other action property of a passing run has its theorem.

## 5. Where code and words differ

1. `context_clash`: the ELF map also indexes dep-group containers, so a
   container carrying the type script of a code cell that precedes it replaces
   the code with a list of out points.
2. `context_size`: the host warns from 2,000,000 bytes, the guest takes
   less.
3. `context_version`: version 0 is mapped by the executor and refused
   by the VM, since ISA_MOP is always on.
4. `snapshot_overlap`: `mark_program` tracks the pages of each segment after all
   of them are written; where a later segment zeroed part of an earlier
   one's last page, the page is declared to hold what it no longer does. Such
   an ELF is unusual, yet nothing refuses it.
5. `asm_gap`: `prepare_memory` zeroes the last frame only if the written range ends
   more than a page before its end (`<` where `<=` is meant); otherwise the last
   page keeps what the allocator left there.

6. `fusion_sbb`: `rule_sbb` compares `next_inst.rs2()` with itself, so five
   instructions whose first comparison names any other register are fused into
   a subtract-with-borrow.

A comment no run is about: `snapshot.rs:22-25` says `load_elf` cleans up all
dirty flags; no such code exists.

## 6. What is not modelled

* Command line, logging, error enums, configuration: no state.
* `VerifierContext` and the RPC calls nobody makes: dead code.
* ckb-script and ckb-types: external; modelled by what they return.
* `vefier_context.rs`' second copy of the index and `collect_vm_creation.rs`: not
  called, or printing.
* The packing of an instruction in 64 bits (`Rtype`, `Itype`, ..: a model's instruction
  is the record of what their accessors return), tags and disassembly
  (`tagged.rs`, `ast.rs`).
* The instructions of `execute_x64.S`: the assembly repeats the handlers of
  `execute.rs`; modelled are its memory checks and its way from trace to trace.
  The aarch64 and riscv64 files not at all.
* `DefaultMachine::step` and `AbstractAsmMachine::step` called by a host, the
  debugger on EBREAK, a second run of a machine that has exited, chaos mode.
* `jolt_memory.rs` (commented out in the executor), `sparse.rs` (only tests build
  machines with it), `snapshot.rs` (superseded by `snapshot2.rs`).
* `elf.rs`: what it makes of a file is the input of `Snapshot2`, a list of loading actions.

Observations that no run is about: `decode_raw` says that the lowest bit of a pc is
always zero, which branches and jumps keep, but no one checks it of an ELF's entry
(`WordDecoder`'s pcs are even); two arms of `rvc.rs` that call a shift by zero an
invalid instruction are never reached, an earlier arm makes it a NOP; the trace machine lacks the check that
refuses fusion under version 0, which the other two loops have; exit codes are
printed by the collector and ignored by the guest.

## 7. Plan

Done: RpcClient, TxConverter, CellResolution with proofs; ProofContext with proofs;
PageMemory, Snapshot2, ResumableMachine with proofs; FlatMachine, AsmMemory with proofs;
Register, Execute, Decoder, Pipeline, WordDecoder with proofs; GuestCode, DirectMachine, VmRun
with proofs.

What would come next, in this order:

1. **Host**: `TxConverter` composed with `ProofContext`, the mock transaction of
   one being the constant of the other, so that `ElfIsVerifiedCode` is
   a statement about the chain.
2. **JoltMemory** and **SparseMemory**, if a machine comes to use them: further
   implementations of `FlatMachine`, the unchecked additions of the one and the `u16`
   page indices of the other modulo a power of two.
3. **Loader**: `parse_elf` to loading actions, in the place of `Snapshot2`'s list of programs.

