--------------------------------- MODULE VmRun ---------------------------------
(***************************************************************************)
(* The run loops of the virtual machine: the interpreter's, the trace      *)
(* machine's and the assembly machine's, with the decoder and its          *)
(* instruction cache, the traces and what is memoized of them, the cycle   *)
(* limit, interrupts from another thread, and a host that runs a machine   *)
(* on after a pause or with a higher limit.                                *)
(***************************************************************************)
EXTENDS GuestCode

CONSTANTS
  Setups,                 (* engine, decoder, version, mop, price, override, image *)
  FirstLimit, Limits,     (* cycle limits that the host gives              *)
  TraceSize, TraceItemLength,                     (* slots; instructions   *)
  CacheSize, CacheLocal, CacheRegion              (* the instruction cache *)

ASSUME VmRunAssumption ==
  /\ TraceSize \in Nat \ {0} /\ TraceItemLength \in Nat \ {0}
  /\ U32Range % (2 * TraceSize) = 0
  /\ CacheSize \in Nat \ {0} /\ CacheLocal \in Nat \ {0} /\ CacheRegion \in Nat \ {0}
  /\ Limits \subseteq 0 .. U64Max /\ FirstLimit \in 0 .. U64Max
  /\ \A s \in Setups :
       /\ s.engine \in {"interpreter", "trace", "asm"} /\ s.decoder \in {"simple", "memoized", "dynamic"}
       /\ s.mop \in BOOLEAN /\ s.image \in DOMAIN Images /\ s.price \in Nat

VARIABLES
  setup,        (* what the host built; never changes                      *)
  m,            (* the machine                                             *)
  icache,       (* the decoder's instruction cache                         *)
  traces,       (* fixed traces, one for each slot                         *)
  memo, dynamic,(* the memoized fixed traces and the dynamic ones, by pc   *)
  pause,        (* the byte that interrupt() sets                          *)
  phase,        (* where the run is                                        *)
  left, tail    (* what is left of the running trace                       *)

decoderVars == <<icache, traces, memo, dynamic>>
vars == <<setup, m, icache, traces, memo, dynamic, pause, phase, left, tail>>

(***************************************************************************)
(* The decoder                                                             *)
(***************************************************************************)
NoPc == -1
EmptyCache == [key \in 0 .. CacheSize - 1 |-> [pc |-> NoPc, inst |-> Data]]

CacheKey(pc) == ((pc % CacheLocal) + (pc \div CacheRegion) * CacheLocal) % CacheSize

(* Mutant: any entry under the key is taken for the instruction.           *)
HitOnKey(entry, pc) == entry.pc # NoPc
CacheHit(entry, pc) == entry.pc = pc

DecodeRaw(cache, mem, pc) ==
  LET key == CacheKey(pc)
  IN  CASE pc \notin Addr -> [ok |-> FALSE, inst |-> Data, cache |-> cache]
        [] pc \in Addr /\ CacheHit(cache[key], pc) ->
             [ok |-> TRUE, inst |-> cache[key].inst, cache |-> cache]
        [] pc \in Addr /\ ~CacheHit(cache[key], pc) /\ Decodable(mem, pc) ->
             [ok    |-> TRUE, inst |-> mem.code[pc],
              cache |-> [cache EXCEPT ![key] = [pc |-> pc, inst |-> mem.code[pc]]]]
        [] pc \in Addr /\ ~CacheHit(cache[key], pc) /\ ~Decodable(mem, pc) ->
             [ok |-> FALSE, inst |-> Data, cache |-> cache]

(* An operator that is evaluated for the one element of a set binds its    *)
(* value, so that TLC evaluates it once.                                   *)
The(singleton) == CHOOSE x \in singleton : TRUE

(* An error behind the head of a fusion only means that nothing is fused.  *)
FusedWith(head, next) ==
  [head EXCEPT !.cache = next.cache,
               !.inst  = IF next.ok /\ Fusible(@, next.inst) THEN Fuse(@, next.inst) ELSE @]

Decode(cache, mem, pc) ==
  The({IF setup.mop /\ head.ok /\ head.inst.op = "LUI"
       THEN FusedWith(head, DecodeRaw(head.cache, mem, pc + head.inst.len)) ELSE head
       : head \in {DecodeRaw(cache, mem, pc)}})

(* Mutant: a jump costs nothing.                                           *)
JumpsAreFree(i) == IF i.op \in Jumps THEN 0 ELSE setup.price
InstructionCycles(i) == setup.price

(* Decode a straight line from pc on, of at most count instructions.       *)
Extend(line, f) ==
  IF f.ok
  THEN [ok |-> TRUE, end |-> IsBasicBlockEnd(f.inst), at |-> line.at + f.inst.len,
        cycles |-> line.cycles + InstructionCycles(f.inst),
        insts |-> Append(line.insts, f.inst), cache |-> f.cache]
  ELSE [line EXCEPT !.ok = FALSE, !.cache = f.cache]

DecodeLine(cache, mem, pc, count) ==
  LET line[n \in 0 .. count] ==
        IF n = 0 THEN [ok |-> TRUE, end |-> FALSE, at |-> pc, cycles |-> 0, insts |-> <<>>, cache |-> cache]
        ELSE The({IF p.end \/ ~p.ok THEN p
                  ELSE The({Extend(p, f) : f \in {Decode(p.cache, mem, p.at)}}) : p \in {line[n - 1]}})
  IN  line[count]

(***************************************************************************)
(* Traces                                                                  *)
(***************************************************************************)
DefaultTrace == [address |-> 0, length |-> 0, cycles |-> 0, insts |-> <<>>, tail |-> NoPc]
EmptyTraces  == [slot \in 0 .. TraceSize - 1 |-> DefaultTrace]
NoTraces     == [pc \in {} |-> DefaultTrace]

TraceOf(pc, line) ==
  [address |-> pc, length |-> line.at - pc, cycles |-> line.cycles, insts |-> line.insts, tail |-> NoPc]

CalculateSlot(pc) == (pc \div 2) % TraceSize

(* Before version 2 only the low 32 bits of the pc are compared.           *)
TraceHit(t, pc) ==
  t.insts # <<>> /\ t.address = IF setup.version < 2 THEN pc % U32Range ELSE pc

Cached(memory, pc, trace) == [a \in DOMAIN memory \cup {pc} |-> IF a = pc THEN trace ELSE memory[a]]

(* The dynamic trace that begins at pc, found or built.                    *)
Built(pc, line) ==
  [ok      |-> line.ok, cache |-> line.cache,
   dynamic |-> IF line.ok THEN Cached(dynamic, pc, TraceOf(pc, line)) ELSE dynamic]
FindOrBuildDynamicTrace(cache, pc) ==
  IF pc \in DOMAIN dynamic THEN [ok |-> TRUE, cache |-> cache, dynamic |-> dynamic]
  ELSE The({Built(pc, line) : line \in {DecodeLine(cache, m.mem, pc, MemorySize)}})

(* What prepare_traces of the simple decoder makes for pc, what is         *)
(* memoized, and the jump to a dynamic trace that is set behind a trace    *)
(* too short for its straight line.                                        *)
Simple(pc, line) ==
  [ok |-> line.ok, trace |-> TraceOf(pc, line), cache |-> line.cache, memo |-> memo, dynamic |-> dynamic]

Memoize(pc, made) == IF made.ok THEN [made EXCEPT !.memo = Cached(memo, pc, made.trace)] ELSE made

JumpTo(at, made, rest) ==
  [made EXCEPT !.ok = rest.ok, !.trace.tail = at, !.cache = rest.cache, !.dynamic = rest.dynamic]

Prepare(pc, line) ==
  LET made == Simple(pc, line)
  IN  CASE setup.decoder = "simple" -> made
        [] setup.decoder = "memoized" \/ (setup.decoder = "dynamic" /\ (~line.ok \/ line.end)) ->
             Memoize(pc, made)
        [] OTHER -> Memoize(pc, JumpTo(line.at, made, FindOrBuildDynamicTrace(line.cache, line.at)))

PrepareTraces(pc) ==
  IF setup.decoder # "simple" /\ pc \in DOMAIN memo
  THEN [ok |-> TRUE, trace |-> memo[pc], cache |-> icache, memo |-> memo, dynamic |-> dynamic]
  ELSE The({Prepare(pc, line) : line \in {DecodeLine(icache, m.mem, pc, TraceItemLength)}})

(***************************************************************************)
(* A run                                                                   *)
(***************************************************************************)
Init ==
  /\ setup \in Setups
  /\ m = [mem |-> Images[setup.image], pc |-> 0, acc |-> 0, cycles |-> 0, max |-> FirstLimit,
          running |-> FALSE, reset |-> FALSE, err |-> "none"]
  /\ icache = EmptyCache /\ traces = EmptyTraces /\ memo = NoTraces /\ dynamic = NoTraces
  /\ pause = 0 /\ phase = "new" /\ left = <<>> /\ tail = NoPc

(* The machine is fused, and too old for it; the trace machine never asks. *)
InvalidVersion == setup.engine # "trace" /\ setup.mop /\ setup.version = 0

(* run() has a decoder of its own, run_with_decoder is given the last one. *)
TakeDecoder(new) ==
  CASE ~new -> UNCHANGED decoderVars
    [] new /\ setup.engine = "asm" ->
         icache' = EmptyCache /\ traces' = EmptyTraces /\ memo' = NoTraces /\ dynamic' = NoTraces
    [] OTHER -> icache' = EmptyCache /\ UNCHANGED <<traces, memo, dynamic>>

Run(machine) ==
  IF InvalidVersion
  THEN m' = [machine EXCEPT !.err = "InvalidVersion"] /\ phase' = "idle" /\ UNCHANGED decoderVars
  ELSE /\ m' = [machine EXCEPT !.running = TRUE, !.err = "none"] /\ phase' = "head"
       /\ \E new \in BOOLEAN : TakeDecoder(new)

Start ==
  /\ \/ phase = "new" /\ Run(m)
     \/ phase = "idle" /\ m.err = "Pause" /\ Run(m)
     \/ /\ phase = "idle" /\ m.err = "CyclesExceeded"
        /\ \E limit \in Limits : limit > m.max /\ ~(m.cycles > limit) /\ Run([m EXCEPT !.max = limit])
  /\ UNCHANGED <<setup, pause, left, tail>>

Interrupt == pause' = 1 /\ UNCHANGED <<setup, m, icache, traces, memo, dynamic, phase, left, tail>>

(* pause.free(), after the interrupt was seen: a second one is lost.       *)
Pausing ==
  /\ phase = "pausing"
  /\ pause' = 0 /\ m' = [m EXCEPT !.err = "Pause"] /\ phase' = "idle"
  /\ UNCHANGED <<setup, icache, traces, memo, dynamic, left, tail>>

Finish ==
  /\ phase = "head" /\ ~m.running
  /\ phase' = "idle" /\ UNCHANGED <<setup, m, icache, traces, memo, dynamic, pause, left, tail>>

(* Mutant: the pause byte is looked at only where no trace is hit.         *)
SeenOnMiss == pause = 1 /\ ~TraceHit(traces[CalculateSlot(m.pc)], m.pc)
HasInterrupted == pause = 1

(* The loops in Rust look at the pause byte first; the one around the      *)
(* assembly code does not, the assembly code does after a jump.            *)
SeeInterrupt ==
  /\ \/ phase = "head" /\ m.running /\ setup.engine # "asm"
     \/ phase = "prepare"
  /\ HasInterrupted
  /\ phase' = "pausing" /\ UNCHANGED <<setup, m, icache, traces, memo, dynamic, pause, left, tail>>

(* Mutant: the traces outlive the program they were decoded from.          *)
KeepTraces(t) == t
ResetTraces(t) == EmptyTraces

AfterReset == [m EXCEPT !.reset = FALSE]
FreshCache == IF m.reset THEN EmptyCache ELSE icache

(* A loop that looks at running, at the pause byte and at the signal that  *)
(* the machine was reset.                                                  *)
Proceeds == phase = "head" /\ m.running

Paid(machine, i) == AddCycles(machine, InstructionCycles(i))
PayAndExecute(machine, i) ==
  LET paid == Paid(machine, i)
  IN  IF paid.err # "none" THEN paid ELSE Execute(paid, i, setup.override)

InterpreterStep ==
  /\ Proceeds /\ setup.engine = "interpreter" /\ ~HasInterrupted
  /\ \E found \in {Decode(FreshCache, m.mem, m.pc)} :
       /\ icache' = found.cache
       /\ m' = IF found.ok THEN PayAndExecute(AfterReset, found.inst) ELSE Failed(AfterReset)
  /\ phase' = IF m'.err = "none" THEN "head" ELSE "idle"
  /\ UNCHANGED <<setup, traces, memo, dynamic, pause, left, tail>>

(***************************************************************************)
(* The trace machine                                                       *)
(***************************************************************************)
TraceHead ==
  LET kept == IF m.reset THEN ResetTraces(traces) ELSE traces
      slot == CalculateSlot(m.pc)
  IN  /\ Proceeds /\ setup.engine = "trace" /\ ~HasInterrupted
      /\ \/ /\ TraceHit(kept[slot], m.pc)
            /\ traces' = kept /\ icache' = FreshCache
            /\ left' = kept[slot].insts /\ phase' = "thread" /\ m' = AfterReset
         \/ /\ ~TraceHit(kept[slot], m.pc)
            /\ \E line \in {DecodeLine(FreshCache, m.mem, m.pc, TraceItemLength)} :
                 /\ icache' = line.cache
                 /\ \/ /\ line.ok /\ traces' = [kept EXCEPT ![slot] = TraceOf(m.pc, line)]
                       /\ left' = line.insts /\ phase' = "thread" /\ m' = AfterReset
                    \/ /\ ~line.ok /\ traces' = [kept EXCEPT ![slot] = DefaultTrace]
                       /\ left' = <<>> /\ phase' = "idle" /\ m' = Failed(AfterReset)
      /\ UNCHANGED <<setup, memo, dynamic, pause, tail>>

TraceThread ==
  /\ phase = "thread" /\ setup.engine = "trace"
  /\ m' = PayAndExecute(m, Head(left))
  /\ left' = IF m'.err = "none" THEN Tail(left) ELSE <<>>
  /\ phase' = IF m'.err # "none" THEN "idle" ELSE IF left' # <<>> THEN "thread" ELSE "head"
  /\ UNCHANGED <<setup, icache, traces, memo, dynamic, pause, tail>>

(***************************************************************************)
(* The assembly machine.  Its pc is that of the end of the running trace.  *)
(***************************************************************************)
AsmHead ==
  /\ Proceeds /\ setup.engine = "asm"
  /\ m' = AfterReset /\ phase' = "enter" /\ icache' = FreshCache
  /\ IF m.reset THEN traces' = ResetTraces(traces) /\ memo' = NoTraces /\ dynamic' = NoTraces
     ELSE UNCHANGED <<traces, memo, dynamic>>
  /\ UNCHANGED <<setup, pause, left, tail>>

(* .trace_loaded: the whole trace is paid for and the pc moved behind it.  *)
LoadTrace(t) ==
  LET paid == AddCycles(m, t.cycles)
  IN  IF paid.err # "none"
      THEN m' = paid /\ phase' = "idle" /\ left' = <<>> /\ tail' = NoPc
      ELSE /\ m' = [paid EXCEPT !.pc = @ + t.length]
           /\ phase' = "thread" /\ left' = t.insts /\ tail' = t.tail

AsmHit ==
  LET t == traces[CalculateSlot(m.pc)]
  IN  /\ phase \in {"enter", "prepare"} /\ (phase = "prepare" => ~HasInterrupted)
      /\ TraceHit(t, m.pc) /\ LoadTrace(t)
      /\ UNCHANGED <<setup, icache, traces, memo, dynamic, pause>>

(* RET_DECODE_TRACE                                                        *)
AsmMiss ==
  /\ phase \in {"enter", "prepare"} /\ (phase = "prepare" => ~HasInterrupted)
  /\ ~TraceHit(traces[CalculateSlot(m.pc)], m.pc)
  /\ \E made \in {PrepareTraces(m.pc)} :
       /\ icache' = made.cache /\ memo' = made.memo /\ dynamic' = made.dynamic
       /\ \/ /\ made.ok /\ traces' = [traces EXCEPT ![CalculateSlot(m.pc)] = made.trace]
             /\ phase' = "head" /\ UNCHANGED m
          \/ ~made.ok /\ m' = Failed(m) /\ phase' = "idle" /\ UNCHANGED traces
  /\ UNCHANGED <<setup, pause, left, tail>>

(* Where what follows the first n instructions lies, from the first on.    *)
Offset(insts, n) ==
  LET end[k \in 0 .. Len(insts)] == IF k = 0 THEN 0 ELSE end[k - 1] + insts[k].len IN end[n]
Length(insts) == Offset(insts, Len(insts))

TakenJump(i) == i.op \in {"JAL", "JALR"} \/ (i.op = "BNE" /\ m.acc # 0)

(* One thread; the pc is that of the trace's end whatever it executes, but *)
(* for a jump that is taken and a system call, which both end a trace.     *)
AsmThread ==
  /\ phase = "thread" /\ setup.engine = "asm" /\ left # <<>>
  /\ LET i == Head(left)
     IN  \E done \in {Execute([m EXCEPT !.pc = @ - Length(left)], i, setup.override)} :
           /\ m' = [done EXCEPT !.pc = @ + Length(Tail(left))]
           /\ left' = IF done.err = "none" THEN Tail(left) ELSE <<>>
           /\ phase' = CASE done.err # "none" -> "idle"
                         [] done.err = "none" /\ i.op \in Ecalls -> "head"
                         [] done.err = "none" /\ TakenJump(i) -> "prepare"
                         [] OTHER -> "thread"
  /\ UNCHANGED <<setup, icache, traces, memo, dynamic, pause, tail>>

(* The thread behind the last one: the next trace is looked up, or the     *)
(* dynamic trace is entered that the fixed one points to.                  *)
AsmTraceEnd ==
  /\ phase = "thread" /\ setup.engine = "asm" /\ left = <<>>
  /\ \/ tail = NoPc /\ phase' = "enter" /\ UNCHANGED <<m, left, tail>>
     \/ tail # NoPc /\ LoadTrace(dynamic[tail])
  /\ UNCHANGED <<setup, icache, traces, memo, dynamic, pause>>

MachineStep ==
  \/ Pausing \/ Finish \/ SeeInterrupt \/ InterpreterStep \/ TraceHead \/ TraceThread
  \/ AsmHead \/ AsmHit \/ AsmMiss \/ AsmThread \/ AsmTraceEnd

Next == Start \/ Interrupt \/ MachineStep

(* The thread that runs the machine is scheduled; the host and the thread  *)
(* that interrupts need not ever act.                                      *)
Spec == Init /\ [][Next]_vars /\ WF_vars(MachineStep)

(***************************************************************************)
(* Properties                                                              *)
(***************************************************************************)
InLoop == phase \notin {"new", "idle"}

(* Cycles stay in 64 bits, threads are left only while a trace runs, and a *)
(* run that goes on has met no error.                                      *)
RunTypeOK ==
  /\ setup \in Setups /\ m.cycles \in 0 .. U64Max /\ m.max \in {FirstLimit} \cup Limits
  /\ m.err \in {"none", "Pause", "Error", "InvalidVersion", "CyclesOverflow", "CyclesExceeded"}
  /\ pause \in {0, 1}
  /\ phase \in {"new", "idle", "head", "pausing", "enter", "prepare", "thread"}
  /\ (left # <<>> => phase = "thread") /\ (InLoop => m.err = "none" /\ (m.running \/ phase = "head"))

(* What memory decodes to along insts from pc.                             *)
Current(mem, pc, insts) ==
  LET at == [k \in 1 .. Len(insts) |-> pc + Offset(insts, k - 1)]
  IN  \A k \in 1 .. Len(insts) :
        LET head == mem.code[at[k]]
            b    == at[k] + head.len
            fuse == setup.mop /\ Decodable(mem, at[k]) /\ Decodable(mem, b) /\ Fusible(head, mem.code[b])
        IN  Decodable(mem, at[k]) /\ insts[k] = IF fuse THEN Fuse(head, mem.code[b]) ELSE head

CurrentTrace(t) ==
  t.insts # <<>> =>
    /\ Current(m.mem, t.address, t.insts)
    /\ t.tail # NoPc => /\ t.tail \in DOMAIN dynamic
                         /\ t.tail = t.address + t.length

(* Whatever is cached, memoized, or left of the running trace is what      *)
(* memory holds, and no trace points to a dynamic trace that is gone,      *)
(* unless the machine was reset and the loop has yet to see it.  A write   *)
(* to code, or code loaded where a straight line ended, would break it.    *)
CachedIsCurrent ==
  ~m.reset =>
    /\ \A key \in DOMAIN icache :
         icache[key].pc # NoPc =>
           Decodable(m.mem, icache[key].pc) /\ icache[key].inst = m.mem.code[icache[key].pc]
    /\ \A slot \in DOMAIN traces : CurrentTrace(traces[slot])
    /\ \A pc \in DOMAIN memo : memo[pc].address = pc /\ CurrentTrace(memo[pc])
    /\ \A pc \in DOMAIN dynamic : dynamic[pc].address = pc /\ CurrentTrace(dynamic[pc])

(* No instruction is executed by a machine that has spent more than its    *)
(* limit: only a run that ends with CyclesExceeded may leave more spent.   *)
CyclesWithinLimit == m.cycles > m.max => m.err = "CyclesExceeded" /\ phase = "idle"

(* Every run loop computes what the direct machine does, with the cycles   *)
(* that the instructions executed so far cost, through any interrupts,     *)
(* resumptions, cache collisions and replacements of the program.          *)
Mapped ==
  LET seen == IF setup.engine = "asm"
              THEN [m EXCEPT !.pc = @ - Length(left), !.cycles = @ - Len(left) * setup.price] ELSE m
      alive == [seen EXCEPT !.reset = FALSE, !.running = phase = "new" \/ @]
  IN  CASE m.err = "Pause" -> [alive EXCEPT !.err = "none"]
        [] m.err \in {"Error", "InvalidVersion", "CyclesOverflow"} ->
             [alive EXCEPT !.pc = 0, !.cycles = 0, !.running = TRUE, !.err = "Error"]
        [] OTHER -> alive
Direct == INSTANCE DirectMachine WITH d <- Mapped
ImplementsDirectMachine == Direct!Spec

(* An interrupt ends the run, by a pause or otherwise, also of a program   *)
(* that costs nothing; assembly code that only replaces its program and    *)
(* never jumps sees it when it next does.                                  *)
InterruptStops ==
  /\ (pause = 1 /\ InLoop /\ setup.engine # "asm") ~> ~InLoop
  /\ (pause = 1 /\ InLoop /\ setup.engine = "asm") ~> (~InLoop \/ m.reset)

(* A program whose instructions all cost something cannot run forever.     *)
RunReturns == (InLoop /\ setup.price > 0) ~> ~InLoop
================================================================================
