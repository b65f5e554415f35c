------------------------------ MODULE VmRunProofs ------------------------------
(***************************************************************************)
(* What holds of the run loops for every program, memory, cache and limit: *)
(* the limit and the interpreter; then the traces of the trace machine and *)
(* of the assembly machine, for every decoder and geometry of slots; then, *)
(* that each of the three computes what a machine does that decodes every  *)
(* instruction from memory.                                                *)
(***************************************************************************)
EXTENDS VmRun, SequenceTheorems, WellFoundedInduction, TLAPS

Fields == {"mem", "pc", "acc", "cycles", "max", "running", "reset", "err"}

(* A machine that may go on, and what a step may make of it: its cycles    *)
(* pass the limit only together with the error that says so.               *)
Fit(x)     == DOMAIN x = Fields /\ x.err = "none" /\ ~(x.cycles > x.max)
Settled(x) == DOMAIN x = Fields /\ (x.cycles > x.max => x.err = "CyclesExceeded")

(***************************************************************************)
(* The limit                                                               *)
(***************************************************************************)

(* What leaves the cycles and the limit alone.                             *)
SameCycles(y, x) == DOMAIN y = Fields /\ y.cycles = x.cycles /\ y.max = x.max

LEMMA SameCyclesSettles ==
  ASSUME NEW x, Fit(x), NEW y, SameCycles(y, x)
  PROVE  Settled(y)
  BY DEF Fit, Settled, SameCycles

(* A field is set that is neither the cycles nor the limit.                *)
LEMMA SetSame ==
  ASSUME NEW x, DOMAIN x = Fields, NEW f, f # "cycles", f # "max", NEW v
  PROVE  SameCycles([x EXCEPT ![f] = v], x)
  BY Zenon DEF SameCycles, Fields

(* A charge is refused, or stays within the limit; that of a system call   *)
(* may pass it with the error that says so.                                *)
LEMMA ChargeSettles ==
  ASSUME NEW x, Fit(x), NEW c
  PROVE  Settled(AddCycles(x, c)) /\ Settled(AddCyclesInSyscall(x, c))
<1>1. Settled(AddCycles(x, c))
  BY Zenon DEF AddCycles, Fit, Settled, Fields
<1>2. Settled(AddCyclesInSyscall(x, c))
  BY Zenon DEF AddCyclesInSyscall, Fit, Settled, Fields
<1>3. QED
  BY <1>1, <1>2

(* Only a system call that charges changes the cycles.                     *)
LEMMA CallSettles ==
  ASSUME NEW x, Fit(x), NEW i, i.op \in Ecalls, NEW o
  PROVE  Settled(Call(x, i, o))
<1>1. CASE i.op = "EXIT"
  <2>1. Call(x, i, o) = [x EXCEPT !.running = FALSE]
    BY <1>1, Zenon DEF Call
  <2>2. QED
    BY <2>1, SetSame, SameCyclesSettles DEF Fit
<1>2. CASE i.op = "EXEC"
  <2>1. Call(x, i, o) = Exec(x, i.arg, o)
    BY <1>2, Zenon DEF Call
  <2>2. SameCycles(Exec(x, i.arg, o), x)
    BY Zenon DEF Exec, SameCycles, Fit, Fields
  <2>3. QED
    BY <2>1, <2>2, SameCyclesSettles
<1>3. CASE i.op = "LOADCODE"
  <2>1. Call(x, i, o) = LoadCode(x, i.arg)
    BY <1>3, Zenon DEF Call
  <2>2. SameCycles(LoadCode(x, i.arg), x)
    BY Zenon DEF LoadCode, Failed, SameCycles, Fit, Fields
  <2>3. QED
    BY <2>1, <2>2, SameCyclesSettles
<1>4. CASE i.op = "CHARGE"
  <2>1. Call(x, i, o) = AddCyclesInSyscall(x, SyscallCycles)
    BY <1>4, Zenon DEF Call
  <2>2. QED
    BY <2>1, ChargeSettles
<1>5. CASE i.op = "UNKNOWN"
  <2>1. Call(x, i, o) = [x EXCEPT !.err = "Error"]
    BY <1>5, Zenon DEF Call, Failed
  <2>2. QED
    BY <2>1, SetSame, SameCyclesSettles DEF Fit
<1>6. QED
  BY <1>1, <1>2, <1>3, <1>4, <1>5 DEF Ecalls

(* Computing changes acc at most.                                          *)
LEMMA ComputeSettles ==
  ASSUME NEW x, Fit(x), NEW i, i.op \in Computing
  PROVE  Settled(Compute(x, i))
<1>1. CASE i.op \in {"ADD", "ADDIW"}
  <2>1. Compute(x, i) = [x EXCEPT !.acc = (x.acc + i.arg) % AccLimit]
    BY <1>1, Zenon DEF Compute, Accumulate
  <2>2. QED
    BY <2>1, SetSame, SameCyclesSettles DEF Fit
<1>2. CASE i.op \in {"LUI", "CUSTOM_LOAD_IMM"}
  <2>1. Compute(x, i) = [x EXCEPT !.acc = i.arg % AccLimit]
    BY <1>2, Zenon DEF Compute
  <2>2. QED
    BY <2>1, SetSame, SameCyclesSettles DEF Fit
<1>3. CASE i.op = "FENCE"
  <2>1. Compute(x, i) = x
    BY <1>3, Zenon DEF Compute
  <2>2. QED
    BY <2>1 DEF Fit, Settled
<1>4. QED
  BY <1>1, <1>2, <1>3 DEF Computing

(* An instruction that is executed within the limit.                       *)
LEMMA ExecuteSettles ==
  ASSUME NEW x, Fit(x), NEW i, NEW o
  PROVE  Settled(Execute(x, i, o))
<1> DEFINE next == [x EXCEPT !.pc = @ + i.len]
<1>1. Fit(next)
  BY Zenon DEF Fit, Fields
<1> HIDE DEF next
<1>2. CASE i.op \in Computing
  <2>1. Execute(x, i, o) = Compute(next, i)
    BY <1>2, Zenon DEF Execute, next, Computing, Jumps, Ecalls
  <2>2. QED
    BY <2>1, <1>1, <1>2, ComputeSettles
<1>3. CASE i.op \in Jumps
  <2>1. Execute(x, i, o) = [x EXCEPT !.pc = Target(x, i)]
    BY <1>3, Zenon DEF Execute, Computing, Jumps, Ecalls
  <2>2. QED
    BY <2>1, SetSame, SameCyclesSettles DEF Fit
<1>4. CASE i.op \in Ecalls
  <2>1. Execute(x, i, o) = Call(next, i, o)
    BY <1>4, Zenon DEF Execute, next, Computing, Jumps, Ecalls
  <2>2. QED
    BY <2>1, <1>1, <1>4, CallSettles
<1>5. CASE i.op = "STORE"
  <2>1. Execute(x, i, o) = Store(next, i.arg)
    BY <1>5, Zenon DEF Execute, next, Computing, Jumps, Ecalls
  <2>2. SameCycles(Store(next, i.arg), next)
    BY <1>1, Zenon DEF Store, Failed, SameCycles, Fit, Fields
  <2>3. QED
    BY <2>1, <2>2, <1>1, SameCyclesSettles
<1>6. CASE i.op \notin Computing \cup Jumps \cup Ecalls \cup {"STORE"}
  <2>1. Execute(x, i, o) = [next EXCEPT !.err = "Error"]
    BY <1>6, Zenon DEF Execute, next, Failed
  <2>2. QED
    BY <2>1, <1>1, SetSame, SameCyclesSettles DEF Fit
<1>7. QED
  BY <1>2, <1>3, <1>4, <1>5, <1>6

LEMMA PayAndExecuteSettles ==
  ASSUME NEW x, Fit(x), NEW i
  PROVE  Settled(PayAndExecute(x, i))
<1>1. Settled(Paid(x, i))
  BY ChargeSettles DEF Paid
<1>2. CASE Paid(x, i).err # "none"
  BY <1>1, <1>2 DEF PayAndExecute
<1>3. CASE Paid(x, i).err = "none"
  <2>1. Fit(Paid(x, i))
    BY <1>1, <1>3 DEF Fit, Settled
  <2>2. PayAndExecute(x, i) = Execute(Paid(x, i), i, setup.override)
    BY <1>3 DEF PayAndExecute
  <2>3. QED
    BY <2>1, <2>2, ExecuteSettles
<1>4. QED
  BY <1>2, <1>3

(* A machine that is not idle may go on; one that is, is settled.          *)
LimitInv == Settled(m) /\ (phase # "idle" => m.err = "none")

LEMMA LimitInvHoldsLimit == LimitInv => CyclesWithinLimit
  BY DEF LimitInv, Settled, CyclesWithinLimit

LEMMA FitInLoop == LimitInv /\ phase # "idle" => Fit(m)
  BY DEF LimitInv, Settled, Fit

LEMMA LimitInit == Init => LimitInv
<1> SUFFICES ASSUME Init PROVE LimitInv
  OBVIOUS
<1>1. m = [mem |-> Images[setup.image], pc |-> 0, acc |-> 0, cycles |-> 0, max |-> FirstLimit,
           running |-> FALSE, reset |-> FALSE, err |-> "none"]
  BY DEF Init
<1>2. DOMAIN m = Fields /\ m.cycles = 0 /\ m.max = FirstLimit /\ m.err = "none"
  BY <1>1, Zenon DEF Fields
<1>3. ~(0 > FirstLimit)
  BY VmRunAssumption, GuestCodeAssumption
<1>4. QED
  BY <1>2, <1>3 DEF LimitInv, Settled

(* A run begins with a machine that is within the limit.                   *)
LEMMA RunKeepsLimit ==
  ASSUME NEW x, DOMAIN x = Fields, ~(x.cycles > x.max), Run(x)
  PROVE  LimitInv'
<1>1. DOMAIN m' = Fields /\ m'.cycles = x.cycles /\ m'.max = x.max
  BY Zenon DEF Run, Fields
<1>2. phase' = "idle" \/ m'.err = "none"
  BY Zenon DEF Run, Fields
<1>3. QED
  BY <1>1, <1>2 DEF LimitInv, Settled

LEMMA StartKeepsLimit ==
  ASSUME LimitInv, Start
  PROVE  LimitInv'
<1>1. CASE phase = "new" /\ Run(m)
  BY <1>1, FitInLoop, RunKeepsLimit DEF Fit
<1>2. CASE phase = "idle" /\ m.err = "Pause" /\ Run(m)
  BY <1>2, RunKeepsLimit DEF LimitInv, Settled
<1>3. ASSUME NEW limit \in Limits, ~(m.cycles > limit), Run([m EXCEPT !.max = limit])
      PROVE  LimitInv'
  <2>1. DOMAIN [m EXCEPT !.max = limit] = Fields
    BY Zenon DEF LimitInv, Settled, Fields
  <2>2. [m EXCEPT !.max = limit].cycles = m.cycles /\ [m EXCEPT !.max = limit].max = limit
    BY Zenon DEF LimitInv, Settled, Fields
  <2> HIDE DEF Run
  <2>3. QED
    BY <1>3, <2>1, <2>2, RunKeepsLimit, Zenon
<1>4. QED
  BY <1>1, <1>2, <1>3, Zenon DEF Start

(* A machine whose step settles, and that is stopped by an error.          *)
LEMMA SettledStep ==
  ASSUME Settled(m'), phase' = "idle" \/ m'.err = "none"
  PROVE  LimitInv'
  BY DEF LimitInv

(* Steps of the loop that look only at what is outside the machine.        *)
LEMMA SameMachine ==
  ASSUME LimitInv, phase # "idle", m' = m
  PROVE  LimitInv'
  BY DEF LimitInv

LEMMA AfterResetFit == Fit(m) => Fit(AfterReset)
  BY Zenon DEF Fit, AfterReset, Fields

LEMMA FailedSettles == ASSUME NEW x, Fit(x) PROVE Settled(Failed(x))
<1>1. Failed(x) = [x EXCEPT !.err = "Error"]
  BY Zenon DEF Failed
<1>2. QED
  BY <1>1, SetSame, SameCyclesSettles DEF Fit

LEMMA LoadTraceKeepsLimit ==
  ASSUME Fit(m), NEW t, LoadTrace(t)
  PROVE  LimitInv'
<1> DEFINE paid == AddCycles(m, t.cycles)
<1>1. Settled(paid)
  BY ChargeSettles
<1>2. CASE paid.err # "none"
  <2>1. m' = paid /\ phase' = "idle"
    BY <1>2 DEF LoadTrace
  <2>2. QED
    BY <1>1, <2>1, SettledStep
<1>3. CASE paid.err = "none"
  <2>1. m' = [paid EXCEPT !.pc = @ + t.length]
    BY <1>3 DEF LoadTrace
  <2> HIDE DEF paid
  <2>2. DOMAIN m' = Fields /\ m'.cycles = paid.cycles /\ m'.max = paid.max /\ m'.err = paid.err
    BY <2>1, <1>1, Zenon DEF Settled, Fields
  <2>3. QED
    BY <2>2, <1>1, <1>3 DEF LimitInv, Settled
<1>4. QED
  BY <1>2, <1>3

(* One step for each action.                                               *)
LEMMA StepKeepsLimit ==
  ASSUME LimitInv, MachineStep
  PROVE  LimitInv'
<1>1. CASE Pausing
  <2>1. Fit(m) /\ phase' = "idle" /\ m' = [m EXCEPT !.err = "Pause"]
    BY <1>1, FitInLoop DEF Pausing
  <2>2. Settled(m')
    BY <2>1, SetSame, SameCyclesSettles DEF Fit
  <2>3. QED
    BY <2>1, <2>2, SettledStep
<1>2. CASE Finish
  BY <1>2, SameMachine DEF Finish
<1>3. CASE SeeInterrupt
  BY <1>3, SameMachine DEF SeeInterrupt
<1>4. CASE InterpreterStep
  <2>1. Fit(AfterReset)
    BY <1>4, FitInLoop, AfterResetFit DEF InterpreterStep, Proceeds
  <2>2. PICK found : m' = IF found.ok THEN PayAndExecute(AfterReset, found.inst) ELSE Failed(AfterReset)
    BY <1>4 DEF InterpreterStep
  <2>3. Settled(m')
    BY <2>1, <2>2, PayAndExecuteSettles, FailedSettles
  <2>4. phase' = IF m'.err = "none" THEN "head" ELSE "idle"
    BY <1>4 DEF InterpreterStep
  <2>5. QED
    BY <2>3, <2>4, SettledStep
<1>5. CASE TraceHead
  <2>1. Fit(AfterReset)
    BY <1>5, FitInLoop, AfterResetFit DEF TraceHead, Proceeds
  <2>2. m' = AfterReset \/ (m' = Failed(AfterReset) /\ phase' = "idle")
    BY <1>5 DEF TraceHead
  <2>3. CASE m' = AfterReset
    BY <2>1, <2>3, SettledStep DEF Fit, Settled
  <2>4. CASE m' = Failed(AfterReset) /\ phase' = "idle"
    BY <2>1, <2>4, FailedSettles, SettledStep
  <2>5. QED
    BY <2>2, <2>3, <2>4
<1>6. CASE TraceThread
  <2>1. Settled(PayAndExecute(m, Head(left)))
    BY <1>6, FitInLoop, PayAndExecuteSettles DEF TraceThread
  <2>2. m' = PayAndExecute(m, Head(left)) /\ (m'.err # "none" => phase' = "idle")
    BY <1>6 DEF TraceThread
  <2>3. QED
    BY <2>1, <2>2, SettledStep
<1>7. CASE AsmHead
  <2>1. Fit(m') /\ phase' = "enter"
    BY <1>7, FitInLoop, AfterResetFit DEF AsmHead, Proceeds
  <2>2. QED
    BY <2>1, SettledStep DEF Fit, Settled
<1>8. CASE AsmHit
  BY <1>8, FitInLoop, LoadTraceKeepsLimit DEF AsmHit
<1>9. CASE AsmMiss
  <2>1. phase # "idle"
    BY <1>9 DEF AsmMiss
  <2>2. m' = m \/ (m' = Failed(m) /\ phase' = "idle")
    BY <1>9 DEF AsmMiss
  <2>3. QED
    BY <2>1, <2>2, SameMachine, FitInLoop, FailedSettles, SettledStep
<1>10. CASE AsmThread
  <2> DEFINE before == [m EXCEPT !.pc = @ - Length(left)]
             done   == Execute(before, Head(left), setup.override)
  <2>1. Fit(m)
    BY <1>10, FitInLoop DEF AsmThread
  <2>2. Fit(before)
    BY <2>1, Zenon DEF Fit, Fields
  <2>3. m' = [done EXCEPT !.pc = @ + Length(Tail(left))] /\ (done.err # "none" => phase' = "idle")
    BY <1>10, Zenon DEF AsmThread
  <2> HIDE DEF before
  <2>4. Settled(done)
    BY <2>2, ExecuteSettles
  <2> HIDE DEF done
  <2>5. DOMAIN m' = Fields /\ m'.cycles = done.cycles /\ m'.max = done.max /\ m'.err = done.err
    BY <2>3, <2>4, Zenon DEF Settled, Fields
  <2>6. QED
    BY <2>3, <2>4, <2>5, SettledStep DEF Settled
<1>11. CASE AsmTraceEnd
  <2>1. CASE tail = NoPc
    BY <1>11, <2>1, SameMachine DEF AsmTraceEnd
  <2>2. CASE tail # NoPc
    BY <1>11, <2>2, FitInLoop, LoadTraceKeepsLimit DEF AsmTraceEnd
  <2>3. QED
    BY <2>1, <2>2
<1>12. QED
  BY <1>1, <1>2, <1>3, <1>4, <1>5, <1>6, <1>7, <1>8, <1>9, <1>10, <1>11 DEF MachineStep

LEMMA LimitStep == LimitInv /\ [Next]_vars => LimitInv'
<1> SUFFICES ASSUME LimitInv, [Next]_vars PROVE LimitInv'
  OBVIOUS
<1>1. CASE Start
  BY <1>1, StartKeepsLimit
<1>2. CASE Interrupt
  BY <1>2 DEF Interrupt, LimitInv
<1>3. CASE MachineStep
  BY <1>3, StepKeepsLimit
<1>4. CASE UNCHANGED vars
  BY <1>4 DEF vars, LimitInv
<1>5. QED
  BY <1>1, <1>2, <1>3, <1>4 DEF Next

(* Whatever the program, the prices and the limits: no instruction is      *)
(* executed by a machine that has spent more than its limit; only a system *)
(* call leaves more spent, with the error that ends the run.               *)
THEOREM LimitHolds == Spec => []CyclesWithinLimit
<1>1. Init => LimitInv
  BY LimitInit
<1>2. LimitInv /\ [Next]_vars => LimitInv'
  BY LimitStep
<1>3. LimitInv => CyclesWithinLimit
  BY LimitInvHoldsLimit
<1>4. QED
  BY <1>1, <1>2, <1>3, PTL DEF Spec

(***************************************************************************)
(* The interpreter's instruction cache                                     *)
(***************************************************************************)

(* What is cached is what memory holds: the first part of CachedIsCurrent. *)
CacheIsCurrent(cache, mem) ==
  /\ DOMAIN cache = 0 .. CacheSize - 1
  /\ \A key \in DOMAIN cache :
       cache[key].pc # NoPc => Decodable(mem, cache[key].pc) /\ cache[key].inst = mem.code[cache[key].pc]

(* What was executable still is, with the same code.                       *)
SameFetched(old, new) ==
  \A a \in Addr : old.exec[PageOf(a)] => new.exec[PageOf(a)] /\ new.code[a] = old.code[a]

LEMMA AddressTypes ==
  /\ Addr \subseteq Nat
  /\ \A a \in Addr : PageOf(a) \in Page
  BY GuestCodeAssumption DEF Addr

LEMMA MemoryTypes ==
  ASSUME NEW mem \in Memory
  PROVE  /\ DOMAIN mem = {"code", "exec"}
         /\ DOMAIN mem.code = Addr /\ DOMAIN mem.exec = Page
         /\ \A a \in Addr : mem.code[a] \in Instruction
         /\ \A p \in Page : mem.exec[p] \in BOOLEAN
  BY Zenon DEF Memory, Code

LEMMA InstructionTypes ==
  ASSUME NEW i \in Instruction
  PROVE  /\ i.op \in Ops /\ i.len \in Nat \ {0} /\ i.arg \in Int
         /\ i.op = "EXEC" => i.arg \in DOMAIN Images
         /\ i.op = "LOADCODE" => i.arg \in Page
  BY DEF Instruction

LEMMA InstIsInstruction ==
  ASSUME NEW op \in Ops, op # "EXEC", op # "LOADCODE", NEW len \in Nat \ {0}, NEW arg \in Int
  PROVE  Inst(op, len, arg) \in Instruction
  BY DEF Inst, Instruction

LEMMA WhatIsDecodable ==
  ASSUME NEW mem \in Memory, NEW pc, Decodable(mem, pc)
  PROVE  pc \in Addr /\ mem.exec[PageOf(pc)] /\ mem.code[pc] \in Instruction
<1>1. pc \in Addr /\ \A a \in pc .. pc + mem.code[pc].len - 1 : mem.exec[PageOf(a)]
  BY DEF Decodable, Fetchable
<1>2. mem.code[pc] \in Instruction
  BY <1>1, MemoryTypes
<1>3. pc \in pc .. pc + mem.code[pc].len - 1
  BY <1>1, <1>2, AddressTypes, InstructionTypes
<1>4. QED
  BY <1>1, <1>2, <1>3

(* A fetched instruction stays what it is.                                 *)
LEMMA SameFetchedDecodes ==
  ASSUME NEW old \in Memory, NEW new, SameFetched(old, new), NEW pc, Decodable(old, pc)
  PROVE  Decodable(new, pc) /\ new.code[pc] = old.code[pc]
<1>1. /\ pc \in Addr /\ old.exec[PageOf(pc)]
      /\ old.code[pc].len \in Nat \ {0} /\ pc \in Nat
  BY WhatIsDecodable, InstructionTypes, AddressTypes
<1>2. new.code[pc] = old.code[pc]
  BY <1>1 DEF SameFetched
<1>3. pc + old.code[pc].len - 1 \in Addr /\ old.code[pc].op # "DATA"
  BY DEF Decodable, Fetchable
<1>4. ASSUME NEW a \in pc .. pc + old.code[pc].len - 1
      PROVE  a \in Addr /\ old.exec[PageOf(a)]
  <2>1. a \in Addr
    BY <1>1, <1>3, GuestCodeAssumption DEF Addr
  <2>2. old.exec[PageOf(a)]
    BY DEF Decodable, Fetchable
  <2>3. QED
    BY <2>1, <2>2
<1>5. \A a \in pc .. pc + old.code[pc].len - 1 : new.exec[PageOf(a)]
  BY <1>4 DEF SameFetched
<1>6. QED
  BY <1>1, <1>2, <1>3, <1>5 DEF Decodable, Fetchable

LEMMA SameFetchedKeepsCache ==
  ASSUME NEW old \in Memory, NEW new, SameFetched(old, new), NEW cache, CacheIsCurrent(cache, old)
  PROVE  CacheIsCurrent(cache, new)
<1>1. ASSUME NEW key \in DOMAIN cache, cache[key].pc # NoPc
      PROVE  Decodable(new, cache[key].pc) /\ cache[key].inst = new.code[cache[key].pc]
  BY <1>1, SameFetchedDecodes DEF CacheIsCurrent
<1>2. QED
  BY <1>1 DEF CacheIsCurrent

(* A step of the machine keeps what was fetched, or resets the machine.    *)
Typed(x)    == DOMAIN x = Fields /\ x.mem \in Memory
Keeps(x, y) == Typed(y) /\ (~y.reset => SameFetched(x.mem, y.mem))

LEMMA SameMemKeeps ==
  ASSUME NEW x, Typed(x), NEW y, DOMAIN y = Fields, y.mem = x.mem
  PROVE  Keeps(x, y)
  BY DEF Typed, Keeps, SameFetched

LEMMA SetKeeps ==
  ASSUME NEW x, Typed(x), NEW f, f # "mem", NEW v
  PROVE  Keeps(x, [x EXCEPT ![f] = v])
<1>1. DOMAIN [x EXCEPT ![f] = v] = Fields /\ [x EXCEPT ![f] = v].mem = x.mem
  BY Zenon DEF Typed, Fields
<1>2. QED
  BY <1>1, SameMemKeeps, Zenon

LEMMA AddCyclesKeeps ==
  ASSUME NEW x, Typed(x), NEW c
  PROVE  Keeps(x, AddCycles(x, c)) /\ Keeps(x, AddCyclesInSyscall(x, c))
<1>1. DOMAIN AddCycles(x, c) = Fields /\ AddCycles(x, c).mem = x.mem
  BY Zenon DEF AddCycles, Typed, Fields
<1>2. DOMAIN AddCyclesInSyscall(x, c) = Fields /\ AddCyclesInSyscall(x, c).mem = x.mem
  BY Zenon DEF AddCyclesInSyscall, Typed, Fields
<1>3. QED
  BY <1>1, <1>2, SameMemKeeps

(* W^X: what is written lies in a page that is not executable.             *)
LEMMA WrittenKeeps ==
  ASSUME NEW mem \in Memory, NEW a \in Addr, ~mem.exec[PageOf(a)]
  PROVE  Written(mem, a) \in Memory /\ SameFetched(mem, Written(mem, a))
<1>1. Inst("ADD", 1, 1) \in Instruction
  <2>1. "ADD" \in Ops /\ "ADD" # "EXEC" /\ "ADD" # "LOADCODE"
    BY Zenon DEF Ops, Computing
  <2>2. 1 \in Nat \ {0} /\ 1 \in Int
    OBVIOUS
  <2>3. QED
    BY <2>1, <2>2, InstIsInstruction, Zenon
<1>2. /\ Written(mem, a).exec = mem.exec
      /\ Written(mem, a).code = [mem.code EXCEPT ![a] = Inst("ADD", 1, 1)]
      /\ Written(mem, a) = [code |-> Written(mem, a).code, exec |-> Written(mem, a).exec]
  BY Zenon DEF Written
<1>3. mem.code \in Code /\ mem.exec \in [Page -> BOOLEAN]
  BY Zenon DEF Memory
<1>4. [mem.code EXCEPT ![a] = Inst("ADD", 1, 1)] \in Code
  BY <1>1, <1>3, Zenon DEF Code
<1>5. Written(mem, a) \in Memory
  BY <1>2, <1>3, <1>4, Zenon DEF Memory
<1>6. \A b \in Addr : b # a => Written(mem, a).code[b] = mem.code[b]
  BY <1>2, <1>3, Zenon DEF Code
<1>7. QED
  BY <1>2, <1>5, <1>6 DEF SameFetched

(* A page that code is loaded into was not executable.                     *)
LEMMA LoadedKeeps ==
  ASSUME NEW mem \in Memory, NEW page \in Page, ~mem.exec[page]
  PROVE  Loaded(mem, page) \in Memory /\ SameFetched(mem, Loaded(mem, page))
<1>1. /\ Loaded(mem, page).exec = [mem.exec EXCEPT ![page] = TRUE]
      /\ Loaded(mem, page).code =
           [a \in Addr |-> IF PageOf(a) = page THEN LoadedCode[a] ELSE mem.code[a]]
      /\ Loaded(mem, page) = [code |-> Loaded(mem, page).code, exec |-> Loaded(mem, page).exec]
  BY Zenon DEF Loaded
<1>2. mem.code \in Code /\ mem.exec \in [Page -> BOOLEAN] /\ LoadedCode \in Code
  BY GuestCodeAssumption, Zenon DEF Memory
<1>3. Loaded(mem, page).code \in Code /\ Loaded(mem, page).exec \in [Page -> BOOLEAN]
  BY <1>1, <1>2 DEF Code
<1>4. Loaded(mem, page) \in Memory
  BY <1>1, <1>3, Zenon DEF Memory
<1>5. ASSUME NEW a \in Addr, mem.exec[PageOf(a)]
      PROVE  Loaded(mem, page).exec[PageOf(a)] /\ Loaded(mem, page).code[a] = mem.code[a]
  <2>1. PageOf(a) # page /\ PageOf(a) \in Page
    BY <1>5, AddressTypes
  <2>2. QED
    BY <2>1, <1>1, <1>2, <1>5
<1>6. QED
  BY <1>4, <1>5 DEF SameFetched

LEMMA StoreKeeps ==
  ASSUME NEW x, Typed(x), NEW a
  PROVE  Keeps(x, Store(x, a))
<1>1. CASE a \in Addr /\ ~x.mem.exec[PageOf(a)]
  <2>1. Store(x, a) = [x EXCEPT !.mem = Written(x.mem, a)]
    BY <1>1, Zenon DEF Store
  <2>2. DOMAIN Store(x, a) = Fields /\ Store(x, a).mem = Written(x.mem, a)
    BY <2>1, Zenon DEF Typed, Fields
  <2>3. QED
    BY <1>1, <2>2, WrittenKeeps DEF Typed, Keeps
<1>2. CASE ~(a \in Addr /\ ~x.mem.exec[PageOf(a)])
  <2>1. Store(x, a) = [x EXCEPT !.err = "Error"]
    BY <1>2, Zenon DEF Store, Failed
  <2>2. QED
    BY <2>1, SetKeeps
<1>3. QED
  BY <1>1, <1>2

LEMMA LoadCodeKeeps ==
  ASSUME NEW x, Typed(x), NEW page \in Page
  PROVE  Keeps(x, LoadCode(x, page))
<1>1. CASE ~x.mem.exec[page]
  <2>1. LoadCode(x, page) = [x EXCEPT !.mem = Loaded(x.mem, page)]
    BY <1>1, Zenon DEF LoadCode
  <2>2. DOMAIN LoadCode(x, page) = Fields /\ LoadCode(x, page).mem = Loaded(x.mem, page)
    BY <2>1, Zenon DEF Typed, Fields
  <2>3. QED
    BY <1>1, <2>2, LoadedKeeps DEF Typed, Keeps
<1>2. CASE x.mem.exec[page]
  <2>1. LoadCode(x, page) = [x EXCEPT !.err = "Error"]
    BY <1>2, Zenon DEF LoadCode, Failed
  <2>2. QED
    BY <2>1, SetKeeps
<1>3. QED
  BY <1>1, <1>2

LEMMA ComputeKeeps ==
  ASSUME NEW x, Typed(x), NEW i, i.op \in Computing
  PROVE  Keeps(x, Compute(x, i))
<1>1. CASE i.op \in {"ADD", "ADDIW"}
  <2>1. Compute(x, i) = [x EXCEPT !.acc = (x.acc + i.arg) % AccLimit]
    BY <1>1, Zenon DEF Compute, Accumulate
  <2>2. Keeps(x, [x EXCEPT !.acc = (x.acc + i.arg) % AccLimit])
    BY SetKeeps, Zenon
  <2>3. QED
    BY <2>1, <2>2
<1>2. CASE i.op \in {"LUI", "CUSTOM_LOAD_IMM"}
  <2>1. Compute(x, i) = [x EXCEPT !.acc = i.arg % AccLimit]
    BY <1>2, Zenon DEF Compute
  <2>2. QED
    BY <2>1, SetKeeps
<1>3. CASE i.op = "FENCE"
  <2>1. Compute(x, i) = x
    BY <1>3, Zenon DEF Compute
  <2>2. QED
    BY <2>1, SameMemKeeps DEF Typed
<1>4. QED
  BY <1>1, <1>2, <1>3 DEF Computing

LEMMA CallKeeps ==
  ASSUME NEW x, Typed(x), NEW i \in Instruction, i.op \in Ecalls, NEW o
  PROVE  Keeps(x, Call(x, i, o))
<1>1. CASE i.op = "EXIT"
  <2>1. Call(x, i, o) = [x EXCEPT !.running = FALSE]
    BY <1>1, Zenon DEF Call
  <2>2. QED
    BY <2>1, SetKeeps
<1>2. CASE i.op = "EXEC"
  <2>1. Call(x, i, o) = Exec(x, i.arg, o)
    BY <1>2, Zenon DEF Call
  <2>2. CASE o
    <3>1. Exec(x, i.arg, o) = [x EXCEPT !.acc = 0]
      BY <2>2, Zenon DEF Exec
    <3>2. QED
      BY <2>1, <3>1, SetKeeps
  <2>3. CASE ~o
    <3>1. Exec(x, i.arg, o) =
            [x EXCEPT !.mem = Images[i.arg], !.pc = 0, !.acc = 0, !.reset = TRUE]
      BY <2>3, Zenon DEF Exec
    <3>2. /\ DOMAIN Exec(x, i.arg, o) = Fields /\ Exec(x, i.arg, o).reset
          /\ Exec(x, i.arg, o).mem = Images[i.arg]
      BY <3>1, Zenon DEF Typed, Fields
    <3>3. Images[i.arg] \in Memory
      BY <1>2, InstructionTypes, GuestCodeAssumption
    <3>4. QED
      BY <2>1, <3>2, <3>3 DEF Keeps, Typed
  <2>4. QED
    BY <2>2, <2>3
<1>3. CASE i.op = "LOADCODE"
  <2>1. Call(x, i, o) = LoadCode(x, i.arg)
    BY <1>3, Zenon DEF Call
  <2>2. QED
    BY <1>3, <2>1, InstructionTypes, LoadCodeKeeps
<1>4. CASE i.op = "CHARGE"
  <2>1. Call(x, i, o) = AddCyclesInSyscall(x, SyscallCycles)
    BY <1>4, Zenon DEF Call
  <2>2. QED
    BY <2>1, AddCyclesKeeps
<1>5. CASE i.op = "UNKNOWN"
  <2>1. Call(x, i, o) = [x EXCEPT !.err = "Error"]
    BY <1>5, Zenon DEF Call, Failed
  <2>2. QED
    BY <2>1, SetKeeps
<1>6. QED
  BY <1>1, <1>2, <1>3, <1>4, <1>5 DEF Ecalls

LEMMA ExecuteKeeps ==
  ASSUME NEW x, Typed(x), NEW i \in Instruction, NEW o
  PROVE  Keeps(x, Execute(x, i, o))
<1> DEFINE next == [x EXCEPT !.pc = @ + i.len]
<1>1. Typed(next) /\ next.mem = x.mem
  BY Zenon DEF Typed, Fields
<1> HIDE DEF next
<1>2. CASE i.op \in Computing
  <2>1. Execute(x, i, o) = Compute(next, i)
    BY <1>2, Zenon DEF Execute, next, Computing, Jumps, Ecalls
  <2>2. QED
    BY <2>1, <1>1, <1>2, ComputeKeeps DEF Keeps
<1>3. CASE i.op \in Jumps
  <2>1. Execute(x, i, o) = [x EXCEPT !.pc = Target(x, i)]
    BY <1>3, Zenon DEF Execute, Computing, Jumps, Ecalls
  <2>2. QED
    BY <2>1, SetKeeps
<1>4. CASE i.op \in Ecalls
  <2>1. Execute(x, i, o) = Call(next, i, o)
    BY <1>4, Zenon DEF Execute, next, Computing, Jumps, Ecalls
  <2>2. QED
    BY <2>1, <1>1, <1>4, CallKeeps DEF Keeps
<1>5. CASE i.op = "STORE"
  <2>1. Execute(x, i, o) = Store(next, i.arg)
    BY <1>5, Zenon DEF Execute, next, Computing, Jumps, Ecalls
  <2>2. QED
    BY <2>1, <1>1, StoreKeeps DEF Keeps
<1>6. CASE i.op \notin Computing \cup Jumps \cup Ecalls \cup {"STORE"}
  <2>1. Execute(x, i, o) = [next EXCEPT !.err = "Error"]
    BY <1>6, Zenon DEF Execute, next, Failed
  <2>2. QED
    BY <2>1, <1>1, SetKeeps DEF Keeps
<1>7. QED
  BY <1>2, <1>3, <1>4, <1>5, <1>6

LEMMA PayAndExecuteKeeps ==
  ASSUME NEW x, Typed(x), NEW i \in Instruction
  PROVE  Keeps(x, PayAndExecute(x, i))
<1>1. Typed(Paid(x, i)) /\ Paid(x, i).mem = x.mem
  BY Zenon DEF Paid, AddCycles, Typed, Fields
<1>2. CASE Paid(x, i).err # "none"
  BY <1>1, <1>2, SameMemKeeps DEF PayAndExecute, Typed
<1>3. CASE Paid(x, i).err = "none"
  <2>1. PayAndExecute(x, i) = Execute(Paid(x, i), i, setup.override)
    BY <1>3 DEF PayAndExecute
  <2>2. QED
    BY <2>1, <1>1, ExecuteKeeps DEF Keeps
<1>4. QED
  BY <1>2, <1>3

(***************************************************************************)
(* The decoder                                                             *)
(***************************************************************************)
LEMMA TheOne == ASSUME NEW e PROVE The({e}) = e
<1>1. \E x \in {e} : TRUE
  OBVIOUS
<1>2. (CHOOSE x \in {e} : TRUE) \in {e}
  BY <1>1, Zenon
<1>3. QED
  BY <1>2 DEF The

LEMMA CacheKeyInDomain == ASSUME NEW pc \in Addr PROVE CacheKey(pc) \in 0 .. CacheSize - 1
<1>1. pc % CacheLocal \in Nat /\ pc \div CacheRegion \in Nat
  BY AddressTypes, VmRunAssumption
<1>2. (pc \div CacheRegion) * CacheLocal \in Nat
  BY <1>1, VmRunAssumption
<1>3. \A n \in Nat : n % CacheSize \in 0 .. CacheSize - 1
  BY VmRunAssumption
<1>4. QED
  BY <1>1, <1>2, <1>3 DEF CacheKey

(* What the decoder finds is an instruction, and it caches what is there.  *)
Found(d, mem) ==
  /\ DOMAIN d = {"ok", "inst", "cache"}
  /\ d.inst \in Instruction /\ CacheIsCurrent(d.cache, mem)

LEMMA DataIsInstruction == Data \in Instruction
<1>1. "DATA" \in Ops /\ "DATA" # "EXEC" /\ "DATA" # "LOADCODE"
  BY Zenon DEF Ops
<1>2. 1 \in Nat \ {0} /\ 0 \in Int
  OBVIOUS
<1>3. Inst("DATA", 1, 0) \in Instruction
  BY <1>1, <1>2, InstIsInstruction, Zenon
<1>4. QED
  BY <1>3 DEF Data

LEMMA DecodeRawFinds ==
  ASSUME NEW mem \in Memory, NEW cache, CacheIsCurrent(cache, mem), NEW pc
  PROVE  Found(DecodeRaw(cache, mem, pc), mem)
<1> DEFINE key == CacheKey(pc)
<1>1. CASE pc \notin Addr
  <2>1. DecodeRaw(cache, mem, pc) = [ok |-> FALSE, inst |-> Data, cache |-> cache]
    BY <1>1, Zenon DEF DecodeRaw
  <2>2. QED
    BY <2>1, DataIsInstruction DEF Found
<1>2. CASE pc \in Addr /\ CacheHit(cache[key], pc)
  <2>1. DecodeRaw(cache, mem, pc) = [ok |-> TRUE, inst |-> cache[key].inst, cache |-> cache]
    BY <1>2, Zenon DEF DecodeRaw
  <2>2. pc # NoPc
    BY <1>2, AddressTypes DEF NoPc
  <2>3. Decodable(mem, pc) /\ cache[key].inst = mem.code[pc]
    BY <1>2, <2>2, CacheKeyInDomain DEF CacheHit, CacheIsCurrent
  <2>4. QED
    BY <2>1, <2>3, WhatIsDecodable DEF Found
<1>3. CASE pc \in Addr /\ ~CacheHit(cache[key], pc) /\ Decodable(mem, pc)
  <2> DEFINE filled == [cache EXCEPT ![key] = [pc |-> pc, inst |-> mem.code[pc]]]
  <2>1. DecodeRaw(cache, mem, pc) = [ok |-> TRUE, inst |-> mem.code[pc], cache |-> filled]
    BY <1>3, Zenon DEF DecodeRaw
  <2>2. key \in DOMAIN cache
    BY <1>3, CacheKeyInDomain DEF CacheIsCurrent
  <2>3. DOMAIN filled = DOMAIN cache
    BY Zenon
  <2>4. filled[key] = [pc |-> pc, inst |-> mem.code[pc]]
    BY <2>2, Zenon
  <2>5. \A k \in DOMAIN cache : k # key => filled[k] = cache[k]
    BY Zenon
  <2> HIDE DEF filled, key
  <2>6. CacheIsCurrent(filled, mem)
    BY <1>3, <2>3, <2>4, <2>5 DEF CacheIsCurrent
  <2>7. QED
    BY <1>3, <2>1, <2>6, WhatIsDecodable DEF Found
<1>4. CASE pc \in Addr /\ ~CacheHit(cache[key], pc) /\ ~Decodable(mem, pc)
  <2>1. DecodeRaw(cache, mem, pc) = [ok |-> FALSE, inst |-> Data, cache |-> cache]
    BY <1>4, Zenon DEF DecodeRaw
  <2>2. QED
    BY <2>1, DataIsInstruction DEF Found
<1>5. QED
  BY <1>1, <1>2, <1>3, <1>4

LEMMA FuseIsInstruction ==
  ASSUME NEW head \in Instruction, NEW next \in Instruction
  PROVE  Fuse(head, next) \in Instruction
<1>1. "CUSTOM_LOAD_IMM" \in Ops /\ "CUSTOM_LOAD_IMM" # "EXEC" /\ "CUSTOM_LOAD_IMM" # "LOADCODE"
  BY Zenon DEF Ops, Computing
<1>2. head.len + next.len \in Nat \ {0} /\ head.arg + next.arg \in Int
  BY InstructionTypes
<1>3. Inst("CUSTOM_LOAD_IMM", head.len + next.len, head.arg + next.arg) \in Instruction
  BY <1>1, <1>2, InstIsInstruction, Zenon
<1>4. QED
  BY <1>3 DEF Fuse

(* Decoding is decoding once, and once more behind what may be fused.      *)
LEMMA DecodeIs ==
  ASSUME NEW cache, NEW mem, NEW pc
  PROVE  LET head == DecodeRaw(cache, mem, pc)
         IN  Decode(cache, mem, pc) =
               IF setup.mop /\ head.ok /\ head.inst.op = "LUI"
               THEN FusedWith(head, DecodeRaw(head.cache, mem, pc + head.inst.len)) ELSE head
<1> DEFINE Of(head) == IF setup.mop /\ head.ok /\ head.inst.op = "LUI"
                       THEN FusedWith(head, DecodeRaw(head.cache, mem, pc + head.inst.len)) ELSE head
           found == DecodeRaw(cache, mem, pc)
<1>1. Decode(cache, mem, pc) = The({Of(head) : head \in {found}})
  BY Zenon DEF Decode
<1> HIDE DEF Of, found
<1>2. {Of(head) : head \in {found}} = {Of(found)}
  BY Zenon
<1>3. Decode(cache, mem, pc) = Of(found)
  BY <1>1, <1>2, TheOne
<1>4. QED
  BY <1>3 DEF Of, found

LEMMA DecodeFinds ==
  ASSUME NEW mem \in Memory, NEW cache, CacheIsCurrent(cache, mem), NEW pc
  PROVE  Found(Decode(cache, mem, pc), mem)
<1> DEFINE head == DecodeRaw(cache, mem, pc)
           next == DecodeRaw(head.cache, mem, pc + head.inst.len)
<1>1. Found(head, mem)
  BY DecodeRawFinds
<1>2. Found(next, mem)
  BY <1>1, DecodeRawFinds DEF Found
<1>3. Decode(cache, mem, pc) = head \/ Decode(cache, mem, pc) = FusedWith(head, next)
  BY DecodeIs
<1> HIDE DEF head, next
<1>4. /\ DOMAIN FusedWith(head, next) = {"ok", "inst", "cache"}
      /\ FusedWith(head, next).cache = next.cache
      /\ FusedWith(head, next).inst = head.inst \/ FusedWith(head, next).inst = Fuse(head.inst, next.inst)
  BY <1>1, Zenon DEF FusedWith, Found
<1>5. Found(FusedWith(head, next), mem)
  BY <1>1, <1>2, <1>4, FuseIsInstruction DEF Found
<1>6. QED
  BY <1>1, <1>3, <1>5

(***************************************************************************)
(* The interpreter                                                         *)
(***************************************************************************)
Interprets == setup.engine = "interpreter"

(* It has no traces and no steps but its own, and, but for a reset that    *)
(* its loop has yet to see, a cache that is current.                       *)
InterpreterInv ==
  /\ Typed(m)
  /\ DOMAIN icache = 0 .. CacheSize - 1
  /\ ~m.reset => CacheIsCurrent(icache, m.mem)
  /\ traces = EmptyTraces /\ memo = NoTraces /\ dynamic = NoTraces
  /\ phase \in {"new", "idle", "head", "pausing"}

LEMMA EmptyCacheIsCurrent == ASSUME NEW mem PROVE CacheIsCurrent(EmptyCache, mem)
<1>1. DOMAIN EmptyCache = 0 .. CacheSize - 1 /\ \A key \in DOMAIN EmptyCache : EmptyCache[key].pc = NoPc
  BY Zenon DEF EmptyCache
<1>2. QED
  BY <1>1 DEF CacheIsCurrent

LEMMA InterpreterInit == Init /\ Interprets => InterpreterInv
<1> SUFFICES ASSUME Init PROVE InterpreterInv
  OBVIOUS
<1>1. m = [mem |-> Images[setup.image], pc |-> 0, acc |-> 0, cycles |-> 0, max |-> FirstLimit,
           running |-> FALSE, reset |-> FALSE, err |-> "none"]
  BY DEF Init
<1>2. DOMAIN m = Fields /\ m.mem = Images[setup.image]
  BY <1>1, Zenon DEF Fields
<1>3. Images[setup.image] \in Memory
  BY VmRunAssumption, GuestCodeAssumption DEF Init
<1>4. CacheIsCurrent(icache, m.mem)
  BY EmptyCacheIsCurrent DEF Init
<1>5. QED
  BY <1>2, <1>3, <1>4 DEF Init, InterpreterInv, Typed, CacheIsCurrent

LEMMA RunKeepsInterpreter ==
  ASSUME InterpreterInv, Interprets, NEW x, DOMAIN x = Fields, x.mem = m.mem, x.reset = m.reset, Run(x)
  PROVE  InterpreterInv'
<1>1. DOMAIN m' = Fields /\ m'.mem = m.mem /\ m'.reset = m.reset
  BY Zenon DEF Run, Fields
<1>2. phase' \in {"idle", "head"}
  BY DEF Run
<1>3. UNCHANGED decoderVars \/ \E new \in BOOLEAN : TakeDecoder(new)
  BY DEF Run
<1>4. ASSUME NEW new \in BOOLEAN, TakeDecoder(new)
      PROVE  (icache' = icache \/ icache' = EmptyCache) /\ UNCHANGED <<traces, memo, dynamic>>
  <2>1. CASE ~new
    <3>1. UNCHANGED decoderVars
      BY <1>4, <2>1, Zenon DEF TakeDecoder
    <3>2. QED
      BY <3>1 DEF decoderVars
  <2>2. CASE new
    <3>1. setup.engine # "asm"
      BY DEF Interprets
    <3>2. icache' = EmptyCache /\ UNCHANGED <<traces, memo, dynamic>>
      BY <1>4, <2>2, <3>1, Zenon DEF TakeDecoder
    <3>3. QED
      BY <3>2
  <2>3. QED
    BY <2>1, <2>2
<1>5. (icache' = icache \/ icache' = EmptyCache) /\ UNCHANGED <<traces, memo, dynamic>>
  BY <1>3, <1>4 DEF decoderVars
<1>6. CacheIsCurrent(EmptyCache, m.mem)
  BY EmptyCacheIsCurrent
<1>7. QED
  BY <1>1, <1>2, <1>5, <1>6 DEF InterpreterInv, Typed, CacheIsCurrent

LEMMA StartKeepsInterpreter ==
  ASSUME InterpreterInv, Interprets, Start
  PROVE  InterpreterInv'
<1>1. CASE Run(m)
  BY <1>1, RunKeepsInterpreter DEF InterpreterInv, Typed
<1>2. ASSUME NEW limit \in Limits, Run([m EXCEPT !.max = limit])
      PROVE  InterpreterInv'
  <2>1. /\ DOMAIN [m EXCEPT !.max = limit] = Fields
        /\ [m EXCEPT !.max = limit].mem = m.mem /\ [m EXCEPT !.max = limit].reset = m.reset
    BY Zenon DEF InterpreterInv, Typed, Fields
  <2>2. QED
    BY <1>2, <2>1, RunKeepsInterpreter, Zenon
<1>3. QED
  BY <1>1, <1>2, Zenon DEF Start

LEMMA InterpreterStepKeeps ==
  ASSUME InterpreterInv, Interprets, InterpreterStep
  PROVE  InterpreterInv'
<1>1. CacheIsCurrent(FreshCache, m.mem)
  BY EmptyCacheIsCurrent DEF InterpreterInv, FreshCache
<1>2. Typed(AfterReset) /\ AfterReset.mem = m.mem
  BY Zenon DEF InterpreterInv, AfterReset, Typed, Fields
<1> DEFINE found == Decode(FreshCache, m.mem, m.pc)
<1>3. /\ icache' = found.cache
      /\ m' = IF found.ok THEN PayAndExecute(AfterReset, found.inst) ELSE Failed(AfterReset)
  BY DEF InterpreterStep
<1>4. Found(found, m.mem)
  BY <1>1, DecodeFinds DEF InterpreterInv, Typed
<1> HIDE DEF found
<1>5. Keeps(AfterReset, Failed(AfterReset))
  <2>1. Failed(AfterReset) = [AfterReset EXCEPT !.err = "Error"]
    BY Zenon DEF Failed
  <2>2. QED
    BY <1>2, <2>1, SetKeeps
<1>6. Keeps(AfterReset, m')
  BY <1>2, <1>3, <1>4, <1>5, PayAndExecuteKeeps DEF Found
<1>7. ~m'.reset => CacheIsCurrent(icache', m'.mem)
  BY <1>2, <1>3, <1>4, <1>6, SameFetchedKeepsCache DEF Keeps, Found, Typed
<1>8. phase' \in {"head", "idle"} /\ UNCHANGED <<traces, memo, dynamic>>
  BY DEF InterpreterStep
<1>9. QED
  BY <1>3, <1>4, <1>6, <1>7, <1>8 DEF InterpreterInv, Keeps, Found, CacheIsCurrent

(* Nothing but what is outside of the machine's memory changes.            *)
LEMMA SameInterpreter ==
  ASSUME InterpreterInv, UNCHANGED decoderVars, DOMAIN m' = Fields, m'.mem = m.mem, m'.reset = m.reset,
         phase' \in {"new", "idle", "head", "pausing"}
  PROVE  InterpreterInv'
  BY DEF InterpreterInv, decoderVars, Typed

LEMMA InterpreterKeeps ==
  ASSUME InterpreterInv, Interprets, [Next]_vars
  PROVE  InterpreterInv'
<1> USE DEF decoderVars
<1>1. CASE Start
  BY <1>1, StartKeepsInterpreter
<1>2. CASE Interrupt
  BY <1>2, SameInterpreter DEF Interrupt, InterpreterInv, Typed
<1>3. CASE Pausing
  <2>1. DOMAIN m' = Fields /\ m'.mem = m.mem /\ m'.reset = m.reset
    BY <1>3, Zenon DEF Pausing, InterpreterInv, Typed, Fields
  <2>2. QED
    BY <1>3, <2>1, SameInterpreter DEF Pausing
<1>4. CASE Finish
  BY <1>4, SameInterpreter DEF Finish, InterpreterInv, Typed
<1>5. CASE SeeInterrupt
  BY <1>5, SameInterpreter DEF SeeInterrupt, InterpreterInv, Typed
<1>6. CASE InterpreterStep
  BY <1>6, InterpreterStepKeeps
<1>7. CASE TraceHead \/ TraceThread \/ AsmHead \/ AsmThread \/ AsmTraceEnd
  BY <1>7 DEF TraceHead, TraceThread, AsmHead, AsmThread, AsmTraceEnd, Interprets
<1>8. CASE AsmHit \/ AsmMiss
  BY <1>8 DEF AsmHit, AsmMiss, InterpreterInv
<1>9. CASE UNCHANGED vars
  BY <1>9, SameInterpreter DEF vars, InterpreterInv, Typed
<1>10. QED
  BY <1>1, <1>2, <1>3, <1>4, <1>5, <1>6, <1>7, <1>8, <1>9 DEF Next, MachineStep

LEMMA InterpreterInvIsCurrent == InterpreterInv => CachedIsCurrent
<1> SUFFICES ASSUME InterpreterInv, ~m.reset PROVE CachedIsCurrent
  BY DEF CachedIsCurrent
<1>1. /\ DOMAIN traces = 0 .. TraceSize - 1
      /\ \A slot \in DOMAIN traces : traces[slot].insts = <<>>
  BY Zenon DEF InterpreterInv, EmptyTraces, DefaultTrace
<1>2. DOMAIN memo = {} /\ DOMAIN dynamic = {}
  BY Zenon DEF InterpreterInv, NoTraces
<1>3. QED
  BY <1>1, <1>2 DEF CachedIsCurrent, CurrentTrace, InterpreterInv, CacheIsCurrent

LEMMA SetupStays == [Next]_vars => setup' = setup
  BY DEF Next, MachineStep, vars, Start, Interrupt, Pausing, Finish, SeeInterrupt, InterpreterStep,
         TraceHead, TraceThread, AsmHead, AsmHit, AsmMiss, AsmThread, AsmTraceEnd

(* Whatever the program writes, loads or replaces, and however the cache's *)
(* keys collide: the interpreter's instruction cache holds what memory     *)
(* holds whenever the loop decodes.  It rests on W^X: what is executable   *)
(* can be neither written nor loaded over.                                 *)
THEOREM InterpreterCacheHolds == Spec => [](setup.engine = "interpreter" => CachedIsCurrent)
<1> DEFINE Inv == Interprets => InterpreterInv
<1>1. Init => Inv
  BY InterpreterInit
<1>2. Inv /\ [Next]_vars => Inv'
  BY SetupStays, InterpreterKeeps DEF Interprets
<1>3. Inv => (setup.engine = "interpreter" => CachedIsCurrent)
  BY InterpreterInvIsCurrent DEF Interprets
<1>4. QED
  BY <1>1, <1>2, <1>3, PTL DEF Spec

(***************************************************************************)
(* The interpreter implements the direct machine                           *)
(***************************************************************************)

(* The direct machine's instructions are the same.                         *)
LEMMA SameExecute == ASSUME NEW x, NEW i, NEW o PROVE Direct!Execute(x, i, o) = Execute(x, i, o)
  BY Zenon DEF Execute, Compute, Accumulate, Target, Call, Exec, LoadCode,
               Loaded, AddCyclesInSyscall, Failed, Store,
               Written, Computing, Jumps, Ecalls, PageOf,
               Addr, Inst, Direct!Execute, Direct!Compute,
               Direct!Accumulate, Direct!Target, Direct!Call,
               Direct!Exec, Direct!LoadCode, Direct!Loaded,
               Direct!AddCyclesInSyscall, Direct!Failed,
               Direct!Store, Direct!Written, Direct!Computing,
               Direct!Jumps, Direct!Ecalls, Direct!PageOf,
               Direct!Addr, Direct!Inst

LEMMA SameAddCycles == ASSUME NEW x, NEW c PROVE Direct!AddCycles(x, c) = AddCycles(x, c)
  BY Zenon DEF AddCycles, Direct!AddCycles

LEMMA SameDecodable == ASSUME NEW mem, NEW a PROVE Direct!Decodable(mem, a) = Decodable(mem, a)
  BY Zenon DEF Decodable, Direct!Decodable, Fetchable, Direct!Fetchable, Addr, Direct!Addr,
               PageOf, Direct!PageOf

LEMMA SameFuse ==
  ASSUME NEW head, NEW next
  PROVE  Direct!Fusible(head, next) = Fusible(head, next) /\ Direct!Fuse(head, next) = Fuse(head, next)
  BY Zenon DEF Fusible, Direct!Fusible, Fuse, Direct!Fuse, Inst, Direct!Inst

(* What becomes of a running machine that executes an instruction: one     *)
(* that fails changes nothing but its pc, its cycles and the error.        *)
Running(x) == DOMAIN x = Fields /\ x.err = "none" /\ x.running = TRUE
Outcome(x, y) ==
  /\ DOMAIN y = Fields /\ y.running \in BOOLEAN
  /\ x.cycles \in Nat => y.cycles \in Nat
  /\ \/ y.err = "none"
     \/ y.err = "CyclesExceeded" /\ y.running
     \/ y.err \in {"Error", "CyclesOverflow"} /\ y.mem = x.mem /\ y.acc = x.acc /\ y.max = x.max

LEMMA CallOutcome ==
  ASSUME NEW x, Running(x), NEW i, i.op \in Ecalls, NEW o
  PROVE  Outcome(x, Call(x, i, o))
<1>1. \/ Call(x, i, o) = [x EXCEPT !.running = FALSE]
      \/ Call(x, i, o) = Exec(x, i.arg, o)
      \/ Call(x, i, o) = LoadCode(x, i.arg)
      \/ Call(x, i, o) = AddCyclesInSyscall(x, SyscallCycles)
      \/ Call(x, i, o) = Failed(x)
  BY Zenon DEF Call, Ecalls
<1>2. Outcome(x, [x EXCEPT !.running = FALSE]) /\ Outcome(x, Failed(x))
  BY Zenon DEF Failed, Running, Outcome, Fields
<1>3. Outcome(x, Exec(x, i.arg, o))
  BY Zenon DEF Exec, Running, Outcome, Fields
<1>4. Outcome(x, LoadCode(x, i.arg))
  BY Zenon DEF LoadCode, Failed, Running, Outcome, Fields
<1>5. x.cycles \in Nat => x.cycles + SyscallCycles \in Nat
  BY GuestCodeAssumption
<1>6. Outcome(x, AddCyclesInSyscall(x, SyscallCycles))
  BY <1>5, Zenon DEF AddCyclesInSyscall, Running, Outcome, Fields
<1>7. QED
  BY <1>1, <1>2, <1>3, <1>4, <1>6, Zenon

LEMMA ExecuteOutcome ==
  ASSUME NEW x, Running(x), NEW i, NEW o
  PROVE  Outcome(x, Execute(x, i, o))
<1> DEFINE next == [x EXCEPT !.pc = @ + i.len]
<1>1. /\ Running(next)
      /\ next.cycles = x.cycles /\ next.mem = x.mem /\ next.acc = x.acc /\ next.max = x.max
  BY Zenon DEF Running, Fields
<1> HIDE DEF next
<1>2. \/ i.op \in Computing /\ Execute(x, i, o) = Compute(next, i)
      \/ i.op \in Ecalls /\ Execute(x, i, o) = Call(next, i, o)
      \/ Execute(x, i, o) = Store(next, i.arg)
      \/ Execute(x, i, o) = Failed(next)
      \/ Execute(x, i, o) = [x EXCEPT !.pc = Target(x, i)]
  BY Zenon DEF Execute, next, Computing, Ecalls, Jumps
<1>3. i.op \in Computing => Outcome(next, Compute(next, i))
  BY <1>1, Zenon DEF Compute, Accumulate, Computing, Running, Outcome, Fields
<1>4. i.op \in Ecalls => Outcome(next, Call(next, i, o))
  BY <1>1, CallOutcome
<1>5. Outcome(next, Store(next, i.arg)) /\ Outcome(next, Failed(next))
  BY <1>1, Zenon DEF Store, Failed, Running, Outcome, Fields
<1>6. Outcome(x, [x EXCEPT !.pc = Target(x, i)])
  BY Zenon DEF Running, Outcome, Fields
<1>7. Outcome(next, Execute(x, i, o)) \/ Outcome(x, Execute(x, i, o))
  BY <1>2, <1>3, <1>4, <1>5, <1>6, Zenon
<1>8. QED
  BY <1>1, <1>7 DEF Outcome

(* The decoder finds what is in memory, fused if the machine fuses.        *)
InstAt(mem, a) ==
  LET head == mem.code[a]
      b    == a + head.len
  IN  IF setup.mop /\ Decodable(mem, b) /\ Fusible(head, mem.code[b]) THEN Fuse(head, mem.code[b]) ELSE head

Right(d, mem, pc) ==
  d.ok \in BOOLEAN /\ (d.ok <=> Decodable(mem, pc)) /\ (d.ok => d.inst = mem.code[pc])

LEMMA DecodeRawIsRight ==
  ASSUME NEW mem \in Memory, NEW cache, CacheIsCurrent(cache, mem), NEW pc
  PROVE  Right(DecodeRaw(cache, mem, pc), mem, pc)
<1> DEFINE key == CacheKey(pc)
<1>1. CASE pc \notin Addr
  <2>1. DecodeRaw(cache, mem, pc) = [ok |-> FALSE, inst |-> Data, cache |-> cache]
    BY <1>1, Zenon DEF DecodeRaw
  <2>2. QED
    BY <1>1, <2>1 DEF Right, Decodable, Fetchable
<1>2. CASE pc \in Addr /\ CacheHit(cache[key], pc)
  <2>1. DecodeRaw(cache, mem, pc) = [ok |-> TRUE, inst |-> cache[key].inst, cache |-> cache]
    BY <1>2, Zenon DEF DecodeRaw
  <2>2. pc # NoPc
    BY <1>2, AddressTypes DEF NoPc
  <2>3. Decodable(mem, pc) /\ cache[key].inst = mem.code[pc]
    BY <1>2, <2>2, CacheKeyInDomain DEF CacheHit, CacheIsCurrent
  <2>4. QED
    BY <2>1, <2>3 DEF Right
<1>3. CASE pc \in Addr /\ ~CacheHit(cache[key], pc)
  <2>1. DecodeRaw(cache, mem, pc).ok = Decodable(mem, pc) /\ Decodable(mem, pc) \in BOOLEAN
    BY <1>3, Zenon DEF DecodeRaw, Decodable
  <2>2. Decodable(mem, pc) => DecodeRaw(cache, mem, pc).inst = mem.code[pc]
    BY <1>3, Zenon DEF DecodeRaw
  <2>3. QED
    BY <2>1, <2>2, Zenon DEF Right
<1>4. QED
  BY <1>1, <1>2, <1>3

LEMMA DecodeIsRight ==
  ASSUME NEW mem \in Memory, NEW cache, CacheIsCurrent(cache, mem), NEW pc
  PROVE  LET d == Decode(cache, mem, pc)
         IN  (d.ok <=> Decodable(mem, pc)) /\ (d.ok => d.inst = InstAt(mem, pc))
<1> DEFINE head == DecodeRaw(cache, mem, pc)
           next == DecodeRaw(head.cache, mem, pc + head.inst.len)
           d    == Decode(cache, mem, pc)
<1>1. Right(head, mem, pc) /\ Found(head, mem)
  BY DecodeRawIsRight, DecodeRawFinds
<1>2. Right(next, mem, pc + head.inst.len)
  BY <1>1, DecodeRawIsRight DEF Found
<1>3. d = IF setup.mop /\ head.ok /\ head.inst.op = "LUI" THEN FusedWith(head, next) ELSE head
  BY DecodeIs
<1> HIDE DEF d, head, next
<1>4. FusedWith(head, next).ok = head.ok
  BY <1>1, Zenon DEF FusedWith, Found
<1>5. FusedWith(head, next).inst =
        IF next.ok /\ Fusible(head.inst, next.inst) THEN Fuse(head.inst, next.inst) ELSE head.inst
  BY <1>1, Zenon DEF FusedWith, Found
<1>6. d.ok <=> Decodable(mem, pc)
  BY <1>1, <1>3, <1>4 DEF Right
<1>7. ASSUME d.ok PROVE d.inst = InstAt(mem, pc)
  <2>1. head.ok /\ head.inst = mem.code[pc]
    BY <1>1, <1>3, <1>4, <1>7 DEF Right
  <2>2. CASE setup.mop /\ head.inst.op = "LUI"
    <3>1. d.inst = IF next.ok /\ Fusible(head.inst, next.inst) THEN Fuse(head.inst, next.inst) ELSE head.inst
      BY <1>3, <1>5, <2>1, <2>2
    <3>2. QED
      BY <1>2, <2>1, <2>2, <3>1 DEF Right, InstAt
  <2>3. CASE ~(setup.mop /\ head.inst.op = "LUI")
    <3>1. d.inst = head.inst
      BY <1>3, <2>3
    <3>2. QED
      BY <2>1, <2>3, <3>1 DEF InstAt, Fusible
  <2>4. QED
    BY <2>2, <2>3
<1>8. QED
  BY <1>6, <1>7 DEF d

(* The interpreter's state as the direct machine's.                        *)
View(x, new) ==
  LET alive == [x EXCEPT !.reset = FALSE, !.running = new \/ @]
  IN  CASE x.err = "Pause" -> [alive EXCEPT !.err = "none"]
        [] x.err \in {"Error", "InvalidVersion", "CyclesOverflow"} ->
             [alive EXCEPT !.pc = 0, !.cycles = 0, !.running = TRUE, !.err = "Error"]
        [] OTHER -> alive

LEMMA MappedIsView ==
  /\ Interprets => Mapped = View(m, phase = "new")
  /\ Interprets /\ setup' = setup => Mapped' = View(m', phase' = "new")
<1>1. Interprets => Mapped = View(m, phase = "new")
  BY Zenon DEF Interprets, Mapped, View
<1>2. Interprets /\ setup' = setup => Mapped' = View(m', phase' = "new")
  BY Zenon DEF Interprets, Mapped, View
<1>3. QED
  BY <1>1, <1>2

(* A machine that can be run on was running, and is one that may run.      *)
RunnableInv ==
  /\ setup \in Setups
  /\ m.running \in BOOLEAN /\ m.cycles \in Nat
  /\ m.err \in {"Pause", "CyclesExceeded"} \/ phase = "pausing" => m.running
  /\ m.err = "CyclesExceeded" \/ InLoop => ~InvalidVersion

RefinementInv == LimitInv /\ InterpreterInv /\ RunnableInv

LEMMA RunnableInit == Init => RunnableInv
<1> SUFFICES ASSUME Init PROVE RunnableInv
  OBVIOUS
<1>1. m = [mem |-> Images[setup.image], pc |-> 0, acc |-> 0, cycles |-> 0, max |-> FirstLimit,
           running |-> FALSE, reset |-> FALSE, err |-> "none"]
  BY DEF Init
<1>2. m.running = FALSE /\ m.cycles = 0 /\ m.err = "none"
  BY <1>1, Zenon
<1>3. QED
  BY <1>2 DEF Init, RunnableInv, InLoop

LEMMA RunIsRunnable ==
  ASSUME setup \in Setups, NEW x, DOMAIN x = Fields, x.running \in BOOLEAN, x.cycles \in Nat,
         setup' = setup, Run(x)
  PROVE  RunnableInv'
<1>1. CASE InvalidVersion
  <2>1. m'.running = x.running /\ m'.cycles = x.cycles /\ m'.err = "InvalidVersion" /\ phase' = "idle"
    BY <1>1, Zenon DEF Run, Fields
  <2>2. QED
    BY <2>1 DEF RunnableInv, InLoop
<1>2. CASE ~InvalidVersion
  <2>1. m'.running = TRUE /\ m'.cycles = x.cycles /\ m'.err = "none" /\ phase' = "head"
    BY <1>2, Zenon DEF Run, Fields
  <2>2. QED
    BY <1>2, <2>1 DEF RunnableInv, InvalidVersion
<1>3. QED
  BY <1>1, <1>2

(* The live machine that a run begins with, unless it is refused.          *)
Live(x) == [x EXCEPT !.reset = FALSE, !.running = TRUE, !.err = "none"]

LEMMA RunIsLive ==
  ASSUME Mapped' = View(m', phase' = "new"), NEW x, DOMAIN x = Fields, Run(x)
  PROVE  \/ ~InvalidVersion /\ Mapped' = Live(x)
         \/ InvalidVersion /\ Mapped' = [Live(x) EXCEPT !.pc = 0, !.cycles = 0, !.err = "Error"]
<1>1. CASE InvalidVersion
  <2>1. m' = [x EXCEPT !.err = "InvalidVersion"] /\ phase' = "idle"
    BY <1>1 DEF Run
  <2>2. View(m', phase' = "new") = [Live(x) EXCEPT !.pc = 0, !.cycles = 0, !.err = "Error"]
    BY <2>1, Zenon DEF View, Live, Fields
  <2>3. QED
    BY <1>1, <2>2, Zenon
<1>2. CASE ~InvalidVersion
  <2>1. m' = [x EXCEPT !.running = TRUE, !.err = "none"] /\ phase' = "head"
    BY <1>2 DEF Run
  <2>2. View(m', phase' = "new") = Live(x)
    BY <2>1, Zenon DEF View, Live, Fields
  <2>3. QED
    BY <1>2, <2>2, Zenon
<1>3. QED
  BY <1>1, <1>2

LEMMA LiveRefuses ==
  ASSUME DOMAIN m = Fields, Mapped = Live(m), InvalidVersion, setup' = setup,
         Mapped' = [Live(m) EXCEPT !.pc = 0, !.cycles = 0, !.err = "Error"]
  PROVE  Direct!Next
<1>1. Mapped.err = "none" /\ Mapped.running
  BY Zenon DEF Live, Fields
<1>2. Direct!Refuse
  BY <1>1, Zenon DEF Direct!Refuse, Direct!Ready, Direct!Refused, Direct!Broken, InvalidVersion
<1>3. QED
  BY <1>2 DEF Direct!Next

LEMMA StartRefines ==
  ASSUME LimitInv, RunnableInv, Mapped = View(m, phase = "new"), Mapped' = View(m', phase' = "new"), Start
  PROVE  [Direct!Next]_(Direct!vars)
<1>1. DOMAIN m = Fields /\ setup' = setup /\ Mapped = View(m, phase = "new")
  BY DEF LimitInv, Settled, Start
<1>2. ASSUME Mapped = Live(m), Run(m)
      PROVE  [Direct!Next]_(Direct!vars)
  BY <1>1, <1>2, RunIsLive, LiveRefuses DEF Direct!vars
<1>3. CASE phase = "new" /\ Run(m)
  <2>1. m.err = "none"
    BY <1>3 DEF LimitInv
  <2>2. View(m, phase = "new") = Live(m)
    BY <1>1, <1>3, <2>1, Zenon DEF View, Live, Fields
  <2>3. QED
    BY <1>1, <1>2, <1>3, <2>2
<1>4. CASE phase = "idle" /\ m.err = "Pause" /\ Run(m)
  <2>1. m.running = TRUE
    BY <1>4 DEF RunnableInv
  <2>2. View(m, phase = "new") = Live(m)
    BY <1>1, <1>4, <2>1, Zenon DEF View, Live, Fields
  <2>3. QED
    BY <1>1, <1>2, <1>4, <2>2
<1>5. ASSUME phase = "idle", m.err = "CyclesExceeded", NEW limit \in Limits, limit > m.max,
             ~(m.cycles > limit), Run([m EXCEPT !.max = limit])
      PROVE  Direct!RaiseLimit /\ setup' = setup
  <2>1. m.running = TRUE /\ ~InvalidVersion /\ m.cycles \in Nat
    BY <1>5 DEF RunnableInv
  <2>2. Mapped = [m EXCEPT !.reset = FALSE, !.running = TRUE]
    BY <1>1, <1>5, <2>1, Zenon DEF View, Fields
  <2>3. DOMAIN [m EXCEPT !.max = limit] = Fields
    BY <1>1, Zenon DEF Fields
  <2>4. Mapped' = Live([m EXCEPT !.max = limit])
    BY <1>1, <1>5, <2>1, <2>3, RunIsLive, Zenon
  <2>5. Mapped' = [Mapped EXCEPT !.max = limit, !.err = "none"]
    BY <1>1, <2>2, <2>4, Zenon DEF Live, Fields
  <2>6. Mapped.err = "CyclesExceeded" /\ Mapped.cycles = m.cycles /\ Mapped.max = m.max
    BY <1>1, <1>5, <2>2, Zenon DEF Fields
  <2>7. limit \in Mapped.cycles .. U64Max /\ limit > Mapped.max
    BY <1>5, <2>1, <2>6, VmRunAssumption, GuestCodeAssumption
  <2>8. QED
    BY <1>1, <2>5, <2>6, <2>7 DEF Direct!RaiseLimit
<1>6. QED
  BY <1>3, <1>4, <1>5, Zenon DEF Start, Direct!Next

LEMMA PayAndExecuteOutcome ==
  ASSUME setup.price \in Nat, NEW x, Running(x), NEW i
  PROVE  Outcome(x, PayAndExecute(x, i))
<1> DEFINE paid == Paid(x, i)
<1>1. x.cycles \in Nat => x.cycles + setup.price \in Nat
  OBVIOUS
<1>2. /\ DOMAIN paid = Fields /\ paid.running = TRUE
      /\ paid.mem = x.mem /\ paid.acc = x.acc /\ paid.max = x.max
      /\ paid.err \in {"none", "CyclesOverflow", "CyclesExceeded"}
      /\ paid.cycles = x.cycles \/ paid.cycles = x.cycles + setup.price
  BY Zenon DEF Paid, InstructionCycles, AddCycles, Running, Fields
<1> HIDE DEF paid
<1>3. CASE paid.err # "none"
  <2>1. PayAndExecute(x, i) = paid
    BY <1>3 DEF PayAndExecute, paid
  <2>2. QED
    BY <1>1, <1>2, <1>3, <2>1 DEF Outcome
<1>4. CASE paid.err = "none"
  <2>1. PayAndExecute(x, i) = Execute(paid, i, setup.override)
    BY <1>4 DEF PayAndExecute, paid
  <2>2. Outcome(paid, Execute(paid, i, setup.override))
    BY <1>2, <1>4, ExecuteOutcome DEF Running
  <2>3. QED
    BY <1>1, <1>2, <2>1, <2>2 DEF Outcome
<1>5. QED
  BY <1>3, <1>4

(* What the direct machine settles to is what the interpreter shows.       *)
LEMMA SettleIsView ==
  ASSUME NEW x, Running(x), x.reset = FALSE, Mapped = x, NEW y, Outcome(x, y)
  PROVE  Direct!Settle(y) = View(y, FALSE)
<1>1. CASE y.err \in {"none", "CyclesExceeded"}
  <2>1. Direct!Settle(y) = [y EXCEPT !.reset = FALSE]
    BY <1>1, Zenon DEF Direct!Settle
  <2>2. (FALSE \/ y.running) = y.running
    BY DEF Outcome
  <2>3. View(y, FALSE) = [y EXCEPT !.reset = FALSE, !.running = y.running]
    BY <1>1, <2>2, Zenon DEF View
  <2>4. [y EXCEPT !.reset = FALSE, !.running = y.running] = [y EXCEPT !.reset = FALSE]
    BY Zenon DEF Outcome, Fields
  <2>5. QED
    BY <2>1, <2>3, <2>4, Zenon
<1>2. CASE y.err \in {"Error", "CyclesOverflow"}
  <2>1. y.mem = x.mem /\ y.acc = x.acc /\ y.max = x.max
    BY <1>2 DEF Outcome
  <2>2. Direct!Settle(y) = [x EXCEPT !.pc = 0, !.cycles = 0, !.err = "Error"]
    BY <1>2, Zenon DEF Direct!Settle, Direct!Broken
  <2>3. View(y, FALSE) = [y EXCEPT !.reset = FALSE, !.pc = 0, !.cycles = 0, !.running = TRUE, !.err = "Error"]
    BY <1>2, Zenon DEF View, Outcome, Fields
  <2>4. x.reset = FALSE /\ x.running = TRUE /\ DOMAIN x = Fields /\ DOMAIN y = Fields
    BY DEF Running, Outcome
  <2> DEFINE a == [x EXCEPT !.pc = 0, !.cycles = 0, !.err = "Error"]
             b == [y EXCEPT !.reset = FALSE, !.pc = 0, !.cycles = 0, !.running = TRUE, !.err = "Error"]
  <2>5. DOMAIN a = Fields /\ DOMAIN b = Fields /\ a = [f \in Fields |-> a[f]] /\ b = [f \in Fields |-> b[f]]
    BY <2>4, Zenon
  <2>6. /\ a.pc = 0 /\ a.cycles = 0 /\ a.err = "Error" /\ a.reset = FALSE /\ a.running = TRUE
        /\ a.mem = x.mem /\ a.acc = x.acc /\ a.max = x.max
    BY <2>4, Zenon DEF Fields
  <2>7. /\ b.pc = 0 /\ b.cycles = 0 /\ b.err = "Error" /\ b.reset = FALSE /\ b.running = TRUE
        /\ b.mem = y.mem /\ b.acc = y.acc /\ b.max = y.max
    BY <2>4, Zenon DEF Fields
  <2> HIDE DEF a, b
  <2>8. \A f \in Fields : a[f] = b[f]
    BY <2>1, <2>6, <2>7, Zenon DEF Fields
  <2>9. a = b
    BY <2>5, <2>8, Zenon
  <2>10. QED
    BY <2>2, <2>3, <2>9, Zenon DEF a, b
<1>3. QED
  BY <1>1, <1>2 DEF Outcome

(* The step of a running interpreter, from a cache that is current.        *)
LEMMA InterpreterStepIs ==
  ASSUME RefinementInv, Interprets, InterpreterStep
  PROVE  /\ setup' = setup /\ setup.price \in Nat /\ ~InvalidVersion
         /\ Running(AfterReset) /\ AfterReset.reset = FALSE
         /\ AfterReset.mem = m.mem /\ AfterReset.pc = m.pc /\ AfterReset.cycles = m.cycles
         /\ Mapped = AfterReset /\ Mapped' = View(m', FALSE)
         /\ m' = IF Decodable(m.mem, m.pc) THEN PayAndExecute(AfterReset, InstAt(m.mem, m.pc))
                 ELSE Failed(AfterReset)
<1>1. /\ setup' = setup /\ setup.price \in Nat /\ ~InvalidVersion
      /\ DOMAIN m = Fields /\ m.err = "none" /\ m.running = TRUE
  BY VmRunAssumption
  DEF RefinementInv, LimitInv, InterpreterInv, Typed, RunnableInv, InLoop, InterpreterStep, Proceeds
<1>2. /\ Running(AfterReset) /\ AfterReset.reset = FALSE
      /\ AfterReset.mem = m.mem /\ AfterReset.pc = m.pc /\ AfterReset.cycles = m.cycles
  BY <1>1, Zenon DEF Running, AfterReset, Fields
<1>3. View(m, FALSE) = AfterReset
  BY <1>1, Zenon DEF View, AfterReset, Fields
<1>4. phase # "new" /\ phase' # "new"
  BY DEF InterpreterStep, Proceeds
<1>5. Mapped = View(m, FALSE) /\ Mapped' = View(m', FALSE)
  BY <1>1, <1>4, MappedIsView
<1>6. CacheIsCurrent(FreshCache, m.mem)
  BY EmptyCacheIsCurrent DEF RefinementInv, InterpreterInv, FreshCache
<1> DEFINE found == Decode(FreshCache, m.mem, m.pc)
<1>7. (found.ok <=> Decodable(m.mem, m.pc)) /\ (found.ok => found.inst = InstAt(m.mem, m.pc))
  BY <1>6, DecodeIsRight DEF RefinementInv, InterpreterInv, Typed
<1>8. m' = IF found.ok THEN PayAndExecute(AfterReset, found.inst) ELSE Failed(AfterReset)
  BY DEF InterpreterStep
<1> HIDE DEF found
<1>9. m' = IF Decodable(m.mem, m.pc) THEN PayAndExecute(AfterReset, InstAt(m.mem, m.pc))
           ELSE Failed(AfterReset)
  BY <1>7, <1>8
<1>10. QED
  BY <1>1, <1>2, <1>3, <1>5, <1>9

LEMMA FailedOutcome == ASSUME NEW x, Running(x) PROVE Outcome(x, Failed(x))
  BY Zenon DEF Failed, Running, Outcome, Fields

LEMMA InterpreterStepOutcome ==
  ASSUME RefinementInv, Interprets, InterpreterStep
  PROVE  Outcome(AfterReset, m')
  BY InterpreterStepIs, PayAndExecuteOutcome, FailedOutcome

(* A machine that decodes what memory holds where it is, pays and executes *)
(* takes the direct machine's step.                                        *)
LEMMA StepRefines ==
  ASSUME setup' = setup, NEW x, Running(x), x.reset = FALSE, Mapped = x, ~Direct!Refused,
         NEW a \in Direct!Here, NEW y, Outcome(x, y), Mapped' = View(y, FALSE),
         y = IF Decodable(x.mem, a) THEN PayAndExecute(x, InstAt(x.mem, a)) ELSE Failed(x)
  PROVE  Direct!Next
<1>1. Direct!Ready
  BY DEF Direct!Ready, Running
<1>2. Mapped' = Direct!Settle(y)
  BY SettleIsView
<1>3. CASE ~Decodable(x.mem, a)
  <2>1. y.err = "Error"
    BY <1>3, Zenon DEF Failed, Running, Fields
  <2>2. Direct!Settle(y) = Direct!Broken
    BY <2>1, Zenon DEF Direct!Settle
  <2>3. ~Direct!Decodable(Mapped.mem, a)
    BY <1>3, SameDecodable
  <2>4. Direct!Step
    BY <1>1, <1>2, <2>2, <2>3, Zenon DEF Direct!Step
  <2>5. QED
    BY <2>4 DEF Direct!Next
<1>4. CASE Decodable(x.mem, a)
  <2> DEFINE paid == AddCycles(x, setup.price)
  <2>1. Direct!AddCycles(Mapped, setup.price) = paid
    BY SameAddCycles
  <2>2. Direct!InMemory(a) = InstAt(x.mem, a)
    BY SameDecodable, SameFuse DEF Direct!InMemory, InstAt
  <2>3. y = IF paid.err # "none" THEN paid ELSE Execute(paid, InstAt(x.mem, a), setup.override)
    BY <1>4 DEF PayAndExecute, Paid, InstructionCycles
  <2> HIDE DEF paid
  <2>4. y = IF paid.err # "none" THEN paid ELSE Direct!Execute(paid, Direct!InMemory(a), setup.override)
    BY <2>2, <2>3, SameExecute
  <2>5. Direct!Decodable(Mapped.mem, a)
    BY <1>4, SameDecodable
  <2>6. Direct!Step
    BY <1>1, <1>2, <2>1, <2>4, <2>5, Zenon DEF Direct!Step
  <2>7. QED
    BY <2>6 DEF Direct!Next
<1>5. QED
  BY <1>3, <1>4

LEMMA InterpreterStepRefines ==
  ASSUME RefinementInv, Interprets, InterpreterStep
  PROVE  Direct!Next
<1> DEFINE x == AfterReset
<1>1. /\ setup' = setup /\ Running(x) /\ x.reset = FALSE /\ x.mem = m.mem /\ x.pc = m.pc
      /\ Mapped = x /\ Mapped' = View(m', FALSE) /\ Outcome(x, m') /\ ~InvalidVersion
  BY InterpreterStepIs, InterpreterStepOutcome
<1>2. m' = IF Decodable(x.mem, x.pc) THEN PayAndExecute(x, InstAt(x.mem, x.pc)) ELSE Failed(x)
  BY InterpreterStepIs
<1> HIDE DEF x
<1>3. ~Direct!Refused
  BY <1>1 DEF Direct!Refused, InvalidVersion
<1>4. x.pc \in Direct!Here
  BY <1>1 DEF Direct!Here
<1>5. QED
  BY <1>1, <1>2, <1>3, <1>4, StepRefines

(* The machine and its phase are as they were to the direct machine.       *)
LEMMA SameView ==
  ASSUME Interprets, setup' = setup, View(m', phase' = "new") = View(m, phase = "new")
  PROVE  UNCHANGED Direct!vars
  BY MappedIsView DEF Direct!vars

LEMMA NextRefines ==
  ASSUME RefinementInv, Interprets, [Next]_vars
  PROVE  [Direct!Next]_(Direct!vars)
<1>1. CASE Start
  <2>1. Mapped = View(m, phase = "new") /\ Mapped' = View(m', phase' = "new")
    BY <1>1, MappedIsView DEF Start
  <2>2. QED
    BY <1>1, <2>1, StartRefines DEF RefinementInv
<1>2. CASE Interrupt
  BY <1>2, SameView DEF Interrupt
<1>3. CASE Pausing
  <2>1. /\ setup' = setup /\ m' = [m EXCEPT !.err = "Pause"] /\ phase = "pausing" /\ phase' = "idle"
        /\ DOMAIN m = Fields /\ m.err = "none"
    BY <1>3 DEF Pausing, RefinementInv, LimitInv, Settled
  <2>2. View(m', FALSE) = View(m, FALSE)
    BY <2>1, Zenon DEF View, Fields
  <2>3. QED
    BY <2>1, <2>2, SameView
<1>4. CASE Finish
  BY <1>4, SameView DEF Finish
<1>5. CASE SeeInterrupt
  BY <1>5, SameView DEF SeeInterrupt, Interprets, RefinementInv, InterpreterInv
<1>6. CASE InterpreterStep
  BY <1>6, InterpreterStepRefines
<1>7. CASE TraceHead \/ TraceThread \/ AsmHead \/ AsmThread \/ AsmTraceEnd
  BY <1>7 DEF TraceHead, TraceThread, AsmHead, AsmThread, AsmTraceEnd, Interprets
<1>8. CASE AsmHit \/ AsmMiss
  BY <1>8 DEF AsmHit, AsmMiss, RefinementInv, InterpreterInv
<1>9. CASE UNCHANGED vars
  BY <1>9, SameView DEF vars
<1>10. QED
  BY <1>1, <1>2, <1>3, <1>4, <1>5, <1>6, <1>7, <1>8, <1>9 DEF Next, MachineStep

LEMMA StartIsRunnable ==
  ASSUME RunnableInv, DOMAIN m = Fields, Start
  PROVE  RunnableInv'
<1>1. setup' = setup /\ setup \in Setups /\ m.running \in BOOLEAN /\ m.cycles \in Nat
  BY DEF Start, RunnableInv
<1>2. ASSUME NEW limit \in Limits, Run([m EXCEPT !.max = limit])
      PROVE  RunnableInv'
  <2>1. /\ DOMAIN [m EXCEPT !.max = limit] = Fields /\ [m EXCEPT !.max = limit].running = m.running
        /\ [m EXCEPT !.max = limit].cycles = m.cycles
    BY Zenon DEF Fields
  <2>2. QED
    BY <1>1, <1>2, <2>1, RunIsRunnable, Zenon
<1>3. CASE Run(m)
  BY <1>1, <1>3, RunIsRunnable
<1>4. QED
  BY <1>2, <1>3, Zenon DEF Start

LEMMA NextIsRunnable ==
  ASSUME RefinementInv, Interprets, [Next]_vars
  PROVE  RunnableInv'
<1> USE DEF RefinementInv, InLoop
<1>1. CASE Start
  BY <1>1, StartIsRunnable DEF InterpreterInv, Typed
<1>2. CASE Interrupt
  BY <1>2 DEF Interrupt, RunnableInv, InvalidVersion
<1>3. CASE Pausing
  <2>1. m'.running = m.running /\ m'.cycles = m.cycles /\ m'.err = "Pause"
    BY <1>3, Zenon DEF Pausing, InterpreterInv, Typed, Fields
  <2>2. QED
    BY <1>3, <2>1 DEF Pausing, RunnableInv, InvalidVersion
<1>4. CASE Finish
  BY <1>4 DEF Finish, RunnableInv, InvalidVersion
<1>5. CASE SeeInterrupt
  BY <1>5 DEF SeeInterrupt, RunnableInv, InvalidVersion, Interprets, InterpreterInv
<1>6. CASE InterpreterStep
  <2>1. Outcome(AfterReset, m') /\ AfterReset.cycles = m.cycles /\ ~InvalidVersion /\ setup' = setup
    BY <1>6, InterpreterStepOutcome, InterpreterStepIs
  <2>2. phase' \in {"head", "idle"}
    BY <1>6 DEF InterpreterStep
  <2>3. QED
    BY <2>1, <2>2 DEF Outcome, RunnableInv, InvalidVersion
<1>7. CASE TraceHead \/ TraceThread \/ AsmHead \/ AsmThread \/ AsmTraceEnd
  BY <1>7 DEF TraceHead, TraceThread, AsmHead, AsmThread, AsmTraceEnd, Interprets
<1>8. CASE AsmHit \/ AsmMiss
  BY <1>8 DEF AsmHit, AsmMiss, InterpreterInv
<1>9. CASE UNCHANGED vars
  BY <1>9 DEF vars, RunnableInv, InvalidVersion
<1>10. QED
  BY <1>1, <1>2, <1>3, <1>4, <1>5, <1>6, <1>7, <1>8, <1>9 DEF Next, MachineStep

LEMMA InitRefines ==
  ASSUME Init, Interprets
  PROVE  Direct!Init
<1>1. m = [mem |-> Images[setup.image], pc |-> 0, acc |-> 0, cycles |-> 0, max |-> FirstLimit,
           running |-> FALSE, reset |-> FALSE, err |-> "none"]
  BY DEF Init
<1>2. Mapped = View(m, TRUE)
  BY MappedIsView DEF Init
<1>3. View(m, TRUE).err = "none" /\ View(m, TRUE).running
  BY <1>1, Zenon DEF View
<1>4. QED
  BY <1>2, <1>3 DEF Direct!Init

(* For every program, the interpreter with its instruction cache, through  *)
(* any interrupts, resumptions, decoders, fusions and resets, computes     *)
(* what a machine does that decodes every instruction from memory.         *)
THEOREM InterpreterRefines == Spec /\ setup.engine = "interpreter" => ImplementsDirectMachine
<1> DEFINE Inv == Interprets /\ RefinementInv
<1>1. Init /\ Interprets => Inv /\ Direct!Init
  BY LimitInit, InterpreterInit, RunnableInit, InitRefines DEF RefinementInv
<1>2. Inv /\ [Next]_vars => Inv'
  BY LimitStep, InterpreterKeeps, NextIsRunnable, SetupStays DEF RefinementInv, Interprets
<1>3. Inv /\ [Next]_vars => [Direct!Next]_(Direct!vars)
  BY NextRefines
<1>4. Interprets <=> setup.engine = "interpreter"
  BY DEF Interprets
<1>5. QED
  BY <1>1, <1>2, <1>3, <1>4, PTL DEF Spec, ImplementsDirectMachine, Direct!Spec

(***************************************************************************)
(* Sets of naturals, in place of induction                                 *)
(***************************************************************************)
LEMMA LeastNat ==
  ASSUME NEW S \in SUBSET Nat, S # {}
  PROVE  \E n \in S : \A y \in S : n <= y
<1>1. PICK n \in S : \A y \in S : <<y, n>> \notin OpToRel(<, Nat)
  BY NatLessThanWellFounded, WFMin
<1>2. \A y \in S : ~(y < n)
  BY <1>1 DEF OpToRel
<1>3. QED
  BY <1>2

LEMMA AllNats ==
  ASSUME NEW S, 0 \in S, \A n \in Nat : n \in S => n + 1 \in S
  PROVE  Nat \subseteq S
<1> SUFFICES ASSUME Nat \ S # {} PROVE FALSE
  OBVIOUS
<1>1. PICK n \in Nat \ S : \A y \in Nat \ S : n <= y
  BY LeastNat
<1>2. n - 1 \in Nat /\ n - 1 \in S
  BY <1>1
<1>3. QED
  BY <1>1, <1>2

(***************************************************************************)
(* Where the instructions of a straight line lie                           *)
(***************************************************************************)
Ends(insts, N, f) == DOMAIN f = 0 .. N /\ f[0] = 0 /\ \A k \in 1 .. N : f[k] = f[k - 1] + insts[k].len

LEMMA EndsExist ==
  ASSUME NEW insts
  PROVE  \A N \in Nat : \E f : Ends(insts, N, f)
<1> DEFINE S == {N \in Nat : \E f : Ends(insts, N, f)}
<1>1. 0 \in S
  <2>1. Ends(insts, 0, [k \in 0 .. 0 |-> 0])
    BY DEF Ends
  <2>2. QED
    BY <2>1
<1>2. ASSUME NEW N \in Nat, N \in S PROVE N + 1 \in S
  <2>1. PICK f : Ends(insts, N, f)
    BY <1>2
  <2>2. Ends(insts, N + 1, [k \in 0 .. N + 1 |-> IF k = N + 1 THEN f[N] + insts[N + 1].len ELSE f[k]])
    BY <2>1 DEF Ends
  <2>3. QED
    BY <2>2
<1> HIDE DEF S
<1>3. Nat \subseteq S
  BY <1>1, <1>2, AllNats
<1>4. QED
  BY <1>3 DEF S

LEMMA OffsetIs ==
  ASSUME NEW insts, Len(insts) \in Nat
  PROVE  /\ Offset(insts, 0) = 0
         /\ \A k \in 1 .. Len(insts) : Offset(insts, k) = Offset(insts, k - 1) + insts[k].len
<1> DEFINE N == Len(insts)
           Eq(f) == f = [k \in 0 .. N |-> IF k = 0 THEN 0 ELSE f[k - 1] + insts[k].len]
           end == CHOOSE f : Eq(f)
<1>1. PICK f : Ends(insts, N, f)
  BY EndsExist
<1>2. Eq([k \in 0 .. N |-> f[k]])
  BY <1>1 DEF Ends
<1> HIDE DEF Eq, N
<1>3. Eq(end)
  BY <1>2
<1>4. \A n : Offset(insts, n) = end[n]
  BY DEF Offset, Eq, end, N
<1>5. end = [k \in 0 .. N |-> IF k = 0 THEN 0 ELSE end[k - 1] + insts[k].len]
  BY <1>3 DEF Eq
<1> HIDE DEF end
<1>6. N \in Nat
  BY DEF N
<1>7. end[0] = 0
  BY <1>5, <1>6
<1>8. ASSUME NEW k \in 1 .. N PROVE end[k] = end[k - 1] + insts[k].len
  <2>1. k \in 0 .. N /\ k # 0
    BY <1>6
  <2>2. QED
    BY <1>5, <2>1, Zenon
<1>9. QED
  BY <1>4, <1>7, <1>8 DEF N

LEMMA InstsTypes ==
  ASSUME NEW insts \in Seq(Instruction)
  PROVE  /\ Len(insts) \in Nat
         /\ \A k \in 1 .. Len(insts) : insts[k] \in Instruction /\ insts[k].len \in Nat \ {0}
<1>1. Len(insts) \in Nat /\ \A k \in 1 .. Len(insts) : insts[k] \in Instruction
  OBVIOUS
<1>2. QED
  BY <1>1, InstructionTypes

LEMMA OffsetTypes ==
  ASSUME NEW insts \in Seq(Instruction)
  PROVE  \A k \in 0 .. Len(insts) : Offset(insts, k) \in Nat /\ Offset(insts, k) >= k
<1> DEFINE S == {k \in Nat : k <= Len(insts) => Offset(insts, k) \in Nat /\ Offset(insts, k) >= k}
<1>1. Len(insts) \in Nat /\ \A k \in 1 .. Len(insts) : insts[k].len \in Nat \ {0}
  BY InstsTypes
<1>2. 0 \in S
  BY <1>1, OffsetIs
<1>3. ASSUME NEW k \in Nat, k \in S PROVE k + 1 \in S
  <2>1. CASE k + 1 <= Len(insts)
    <3>1. k + 1 \in 1 .. Len(insts) /\ (k + 1) - 1 = k
      BY <1>1, <2>1
    <3>2. Offset(insts, k + 1) = Offset(insts, k) + insts[k + 1].len
      BY <1>1, <3>1, OffsetIs
    <3>3. QED
      BY <1>1, <1>3, <3>1, <3>2
  <2>2. CASE ~(k + 1 <= Len(insts))
    BY <2>2
  <2>3. QED
    BY <2>1, <2>2
<1> HIDE DEF S
<1>4. Nat \subseteq S
  BY <1>2, <1>3, AllNats
<1>5. QED
  BY <1>1, <1>4 DEF S

(* One more instruction at a price.                                        *)
LEMMA NextMultiple == ASSUME NEW n \in Nat, NEW p \in Nat PROVE (n + 1) * p = n * p + p
OBVIOUS

(* What is as long lies as far.                                            *)
LEMMA SameOffsets ==
  ASSUME NEW s, NEW t, Len(s) \in Nat, Len(t) \in Nat, NEW n \in Nat, n <= Len(s), n <= Len(t),
         \A k \in 1 .. n : s[k].len = t[k].len
  PROVE  \A k \in 0 .. n : Offset(s, k) = Offset(t, k)
<1> DEFINE S == {k \in Nat : k <= n => Offset(s, k) = Offset(t, k)}
<1>1. 0 \in S
  BY OffsetIs
<1>2. ASSUME NEW k \in Nat, k \in S PROVE k + 1 \in S
  <2>1. CASE k + 1 <= n
    <3>1. k + 1 \in 1 .. Len(s) /\ k + 1 \in 1 .. Len(t) /\ k + 1 \in 1 .. n /\ (k + 1) - 1 = k
      BY <2>1
    <3>2. Offset(s, k + 1) = Offset(s, k) + s[k + 1].len
      BY <3>1, OffsetIs
    <3>3. Offset(t, k + 1) = Offset(t, k) + t[k + 1].len
      BY <3>1, OffsetIs
    <3>4. QED
      BY <1>2, <2>1, <3>1, <3>2, <3>3
  <2>2. CASE ~(k + 1 <= n)
    BY <2>2
  <2>3. QED
    BY <2>1, <2>2
<1> HIDE DEF S
<1>3. Nat \subseteq S
  BY <1>1, <1>2, AllNats
<1>4. QED
  BY <1>3 DEF S

LEMMA AppendOffsets ==
  ASSUME NEW insts \in Seq(Instruction), NEW i \in Instruction
  PROVE  /\ Append(insts, i) \in Seq(Instruction) /\ Len(Append(insts, i)) = Len(insts) + 1
         /\ \A k \in 1 .. Len(insts) : Append(insts, i)[k] = insts[k]
         /\ Append(insts, i)[Len(insts) + 1] = i
         /\ \A k \in 0 .. Len(insts) : Offset(Append(insts, i), k) = Offset(insts, k)
         /\ Length(Append(insts, i)) = Length(insts) + i.len
<1> DEFINE app == Append(insts, i)
<1>1. /\ app \in Seq(Instruction) /\ Len(insts) \in Nat /\ Len(app) = Len(insts) + 1
      /\ \A k \in 1 .. Len(insts) : app[k] = insts[k]
      /\ app[Len(insts) + 1] = i
  OBVIOUS
<1> HIDE DEF app
<1>2. \A k \in 0 .. Len(insts) : Offset(app, k) = Offset(insts, k)
  <2>1. Len(app) \in Nat /\ Len(insts) <= Len(app) /\ \A k \in 1 .. Len(insts) : app[k].len = insts[k].len
    BY <1>1
  <2>2. QED
    BY <1>1, <2>1, SameOffsets
<1>3. Offset(app, Len(app)) = Offset(app, Len(insts)) + i.len
  <2>1. Len(app) \in 1 .. Len(app) /\ Len(app) - 1 = Len(insts) /\ Len(app) \in Nat
    BY <1>1
  <2>2. QED
    BY <1>1, <2>1, OffsetIs
<1>4. Len(insts) \in 0 .. Len(insts)
  BY <1>1
<1>5. QED
  BY <1>1, <1>2, <1>3, <1>4 DEF app, Length

LEMMA TailOffsets ==
  ASSUME NEW insts \in Seq(Instruction), insts # <<>>
  PROVE  /\ Head(insts) \in Instruction /\ Head(insts) = insts[1] /\ Tail(insts) \in Seq(Instruction)
         /\ Len(insts) \in Nat \ {0} /\ Len(Tail(insts)) = Len(insts) - 1
         /\ \A k \in 1 .. Len(insts) - 1 : Tail(insts)[k] = insts[k + 1]
         /\ \A k \in 0 .. Len(insts) - 1 : Offset(insts, k + 1) = Head(insts).len + Offset(Tail(insts), k)
         /\ Length(insts) = Head(insts).len + Length(Tail(insts))
<1> DEFINE rest == Tail(insts)
<1>1. /\ Head(insts) \in Instruction /\ Head(insts) = insts[1] /\ rest \in Seq(Instruction)
      /\ Len(insts) \in Nat \ {0} /\ Len(rest) = Len(insts) - 1 /\ Len(rest) \in Nat
      /\ \A k \in 1 .. Len(insts) - 1 : rest[k] = insts[k + 1]
  OBVIOUS
<1> HIDE DEF rest
<1>2. insts[1].len \in Nat
  BY <1>1, InstructionTypes
<1> DEFINE S == {k \in Nat : k <= Len(insts) - 1 => Offset(insts, k + 1) = insts[1].len + Offset(rest, k)}
<1>3. 0 \in S
  <2>1. Offset(rest, 0) = 0 /\ Offset(insts, 0) = 0
    BY <1>1, OffsetIs
  <2>2. Offset(insts, 1) = Offset(insts, 1 - 1) + insts[1].len
    <3>1. 1 \in 1 .. Len(insts)
      BY <1>1
    <3>2. QED
      BY <1>1, <3>1, OffsetIs
  <2>3. QED
    BY <1>2, <2>1, <2>2
<1>4. ASSUME NEW k \in Nat, k \in S PROVE k + 1 \in S
  <2>1. CASE k + 1 <= Len(insts) - 1
    <3>1. /\ (k + 1) + 1 \in 1 .. Len(insts) /\ ((k + 1) + 1) - 1 = k + 1
          /\ k + 1 \in 1 .. Len(rest) /\ (k + 1) - 1 = k /\ k + 1 \in 1 .. Len(insts) - 1
      BY <1>1, <2>1
    <3>2. Offset(insts, (k + 1) + 1) = Offset(insts, k + 1) + insts[(k + 1) + 1].len
      BY <1>1, <3>1, OffsetIs
    <3>3. Offset(rest, k + 1) = Offset(rest, (k + 1) - 1) + rest[k + 1].len
      BY <1>1, <3>1, OffsetIs
    <3>4. rest[k + 1] = insts[(k + 1) + 1] /\ rest[k + 1].len \in Nat
      BY <1>1, <3>1, InstsTypes
    <3>5. Offset(rest, k) \in Nat
      <4>1. k \in 0 .. Len(rest)
        BY <1>1, <2>1
      <4>2. QED
        BY <1>1, <4>1, OffsetTypes
    <3>6. Offset(insts, k + 1) = insts[1].len + Offset(rest, k)
      BY <1>4, <2>1
    <3>7. QED
      BY <1>2, <3>2, <3>3, <3>4, <3>5, <3>6
  <2>2. CASE ~(k + 1 <= Len(insts) - 1)
    BY <2>2
  <2>3. QED
    BY <2>1, <2>2
<1> HIDE DEF S
<1>5. Nat \subseteq S
  BY <1>3, <1>4, AllNats
<1>6. \A k \in 0 .. Len(insts) - 1 : Offset(insts, k + 1) = insts[1].len + Offset(rest, k)
  BY <1>5 DEF S
<1>7. Offset(insts, Len(insts)) = insts[1].len + Offset(rest, Len(rest))
  <2>1. Len(rest) \in 0 .. Len(insts) - 1 /\ Len(rest) + 1 = Len(insts)
    BY <1>1
  <2>2. QED
    BY <1>6, <2>1
<1>8. QED
  BY <1>1, <1>6, <1>7 DEF rest, Length

(***************************************************************************)
(* Straight lines                                                          *)
(***************************************************************************)
NewLine(cache, pc) == [ok |-> TRUE, end |-> FALSE, at |-> pc, cycles |-> 0, insts |-> <<>>, cache |-> cache]
LineStep(mem, p)   == IF p.end \/ ~p.ok THEN p ELSE Extend(p, Decode(p.cache, mem, p.at))

Lines(mem, first, N, f) ==
  DOMAIN f = 0 .. N /\ f[0] = first /\ \A k \in 1 .. N : f[k] = LineStep(mem, f[k - 1])

LEMMA LinesExist ==
  ASSUME NEW mem, NEW first
  PROVE  \A N \in Nat : \E f : Lines(mem, first, N, f)
<1> DEFINE S == {N \in Nat : \E f : Lines(mem, first, N, f)}
<1>1. 0 \in S
  <2>1. Lines(mem, first, 0, [k \in 0 .. 0 |-> first])
    BY DEF Lines
  <2>2. QED
    BY <2>1
<1>2. ASSUME NEW N \in Nat, N \in S PROVE N + 1 \in S
  <2>1. PICK f : Lines(mem, first, N, f)
    BY <1>2
  <2> DEFINE g == [k \in 0 .. N + 1 |-> IF k = N + 1 THEN LineStep(mem, f[N]) ELSE f[k]]
  <2>2. /\ DOMAIN g = 0 .. N + 1 /\ g[0] = f[0] /\ g[N + 1] = LineStep(mem, f[N])
        /\ \A k \in 0 .. N : g[k] = f[k]
    OBVIOUS
  <2> HIDE DEF g
  <2>3. \A k \in 1 .. N + 1 : g[k] = LineStep(mem, g[k - 1])
    BY <2>1, <2>2 DEF Lines
  <2>4. Lines(mem, first, N + 1, g)
    BY <2>1, <2>2, <2>3 DEF Lines
  <2>5. QED
    BY <2>4
<1> HIDE DEF S
<1>3. Nat \subseteq S
  BY <1>1, <1>2, AllNats
<1>4. QED
  BY <1>3 DEF S

LEMMA TheLineStep ==
  ASSUME NEW mem, NEW x
  PROVE  The({IF p.end \/ ~p.ok THEN p
              ELSE The({Extend(p, f) : f \in {Decode(p.cache, mem, p.at)}}) : p \in {x}}) = LineStep(mem, x)
<1> DEFINE Of(p) == IF p.end \/ ~p.ok THEN p
                    ELSE The({Extend(p, f) : f \in {Decode(p.cache, mem, p.at)}})
<1>1. {Extend(x, f) : f \in {Decode(x.cache, mem, x.at)}} = {Extend(x, Decode(x.cache, mem, x.at))}
  BY Zenon
<1>2. The({Extend(x, f) : f \in {Decode(x.cache, mem, x.at)}}) = Extend(x, Decode(x.cache, mem, x.at))
  BY <1>1, TheOne
<1>3. Of(x) = LineStep(mem, x)
  BY <1>2 DEF LineStep
<1> HIDE DEF Of
<1>4. {Of(p) : p \in {x}} = {Of(x)}
  BY Zenon
<1>5. The({Of(p) : p \in {x}}) = LineStep(mem, x)
  BY <1>3, <1>4, TheOne
<1>6. QED
  BY <1>5 DEF Of

LEMMA DecodeLineIs ==
  ASSUME NEW mem, NEW cache, NEW pc, NEW count \in Nat
  PROVE  \E f : Lines(mem, NewLine(cache, pc), count, f) /\ DecodeLine(cache, mem, pc, count) = f[count]
<1> DEFINE Eq(f) ==
             f = [n \in 0 .. count |->
                    IF n = 0 THEN NewLine(cache, pc)
                    ELSE The({IF p.end \/ ~p.ok THEN p
                              ELSE The({Extend(p, d) : d \in {Decode(p.cache, mem, p.at)}}) : p \in {f[n - 1]}})]
           line == CHOOSE f : Eq(f)
<1>1. DecodeLine(cache, mem, pc, count) = line[count]
  BY DEF DecodeLine, NewLine
<1>2. \A f : Eq(f) <=> f = [n \in 0 .. count |-> IF n = 0 THEN NewLine(cache, pc) ELSE LineStep(mem, f[n - 1])]
  BY TheLineStep, Zenon
<1>3. PICK f : Lines(mem, NewLine(cache, pc), count, f)
  BY LinesExist
<1> DEFINE g == [n \in 0 .. count |-> f[n]]
<1>4. g = [n \in 0 .. count |-> IF n = 0 THEN NewLine(cache, pc) ELSE LineStep(mem, g[n - 1])]
  BY <1>3 DEF Lines
<1>5. Eq(g)
  BY <1>2, <1>4, Zenon
<1> HIDE DEF Eq, g
<1>6. Eq(line)
  BY <1>5
<1> HIDE DEF line
<1>7. line = [n \in 0 .. count |-> IF n = 0 THEN NewLine(cache, pc) ELSE LineStep(mem, line[n - 1])]
  BY <1>2, <1>6
<1>8. DOMAIN line = 0 .. count
  BY <1>7, Zenon
<1>9. line[0] = NewLine(cache, pc)
  BY <1>7
<1>10. ASSUME NEW n \in 1 .. count PROVE line[n] = LineStep(mem, line[n - 1])
  <2>1. n \in 0 .. count /\ n # 0
    OBVIOUS
  <2>2. QED
    BY <1>7, <2>1, Zenon
<1>11. Lines(mem, NewLine(cache, pc), count, line)
  BY <1>8, <1>9, <1>10 DEF Lines
<1>12. QED
  BY <1>1, <1>11

(* The instructions that a straight line has: those that memory decodes to *)
(* from pc on, of which only the last may end a block.                     *)
Straight(insts) == \A k \in 1 .. Len(insts) - 1 : ~IsBasicBlockEnd(insts[k])
InMem(mem, pc, insts) ==
  \A k \in 1 .. Len(insts) :
    Decodable(mem, pc + Offset(insts, k - 1)) /\ insts[k] = InstAt(mem, pc + Offset(insts, k - 1))

LineFields == {"ok", "end", "at", "cycles", "insts", "cache"}
Line(p, mem, pc) ==
  /\ DOMAIN p = LineFields /\ p.ok \in BOOLEAN /\ p.end \in BOOLEAN
  /\ CacheIsCurrent(p.cache, mem)
  /\ p.insts \in Seq(Instruction) /\ Straight(p.insts) /\ InMem(mem, pc, p.insts)
  /\ p.insts = <<>> => p.at = pc /\ ~p.end
  /\ p.insts # <<>> => /\ pc \in Nat /\ p.at = pc + Length(p.insts)
                       /\ p.end <=> IsBasicBlockEnd(p.insts[Len(p.insts)])
  /\ p.cycles = Len(p.insts) * setup.price
  /\ p.ok \/ (~p.end /\ ~Decodable(mem, p.at))

LEMMA CurrentIsInMem ==
  ASSUME NEW mem, NEW pc, NEW insts, Len(insts) \in Nat
  PROVE  Current(mem, pc, insts) <=> InMem(mem, pc, insts)
<1> DEFINE at == [k \in 1 .. Len(insts) |-> pc + Offset(insts, k - 1)]
           AtK(k) ==
             LET head == mem.code[at[k]]
                 b    == at[k] + head.len
                 fuse == setup.mop /\ Decodable(mem, at[k]) /\ Decodable(mem, b) /\ Fusible(head, mem.code[b])
             IN  Decodable(mem, at[k]) /\ insts[k] = IF fuse THEN Fuse(head, mem.code[b]) ELSE head
<1>1. Current(mem, pc, insts) <=> \A k \in 1 .. Len(insts) : AtK(k)
  BY DEF Current
<1>2. ASSUME NEW k \in 1 .. Len(insts)
      PROVE  AtK(k) <=> Decodable(mem, pc + Offset(insts, k - 1)) /\ insts[k] = InstAt(mem, pc + Offset(insts, k - 1))
  <2>1. at[k] = pc + Offset(insts, k - 1)
    OBVIOUS
  <2> HIDE DEF at
  <2>2. QED
    BY <2>1 DEF InstAt
<1> HIDE DEF AtK
<1>3. QED
  BY <1>1, <1>2 DEF InMem

LEMMA NewLineIsLine ==
  ASSUME NEW mem, NEW cache, CacheIsCurrent(cache, mem), NEW pc, setup.price \in Nat
  PROVE  Line(NewLine(cache, pc), mem, pc)
<1> DEFINE new == NewLine(cache, pc)
<1>1. /\ DOMAIN new = LineFields /\ new.ok = TRUE /\ new.end = FALSE /\ new.at = pc /\ new.cycles = 0
      /\ new.insts = <<>> /\ new.cache = cache
  BY Zenon DEF NewLine, LineFields
<1>2. /\ Len(<<>>) = 0 /\ <<>> \in Seq(Instruction) /\ 0 * setup.price = 0
  OBVIOUS
<1>3. Straight(<<>>) /\ InMem(mem, pc, <<>>)
  BY DEF Straight, InMem
<1> HIDE DEF new
<1>4. new.cycles = Len(new.insts) * setup.price /\ new.insts \in Seq(Instruction)
  BY <1>1, <1>2
<1>5. Straight(new.insts) /\ InMem(mem, pc, new.insts) /\ CacheIsCurrent(new.cache, mem)
  BY <1>1, <1>3
<1>6. new.ok \in BOOLEAN /\ new.end \in BOOLEAN /\ new.ok /\ ~new.end /\ DOMAIN new = LineFields
  BY <1>1
<1>7. new.insts = <<>> /\ new.at = pc
  BY <1>1
<1>8. Line(new, mem, pc)
  BY <1>4, <1>5, <1>6, <1>7, Zenon DEF Line
<1>9. QED
  BY <1>8 DEF new

(* One more instruction, if there is one.                                  *)
Longer(p, q, mem) ==
  /\ q.ok <=> Decodable(mem, p.at)
  /\ q.ok => Len(q.insts) = Len(p.insts) + 1
  /\ ~q.ok => q.insts = p.insts

LEMMA AppendToLine ==
  ASSUME NEW mem, NEW pc, NEW insts \in Seq(Instruction), NEW i \in Instruction,
         Straight(insts), InMem(mem, pc, insts),
         insts # <<>> => ~IsBasicBlockEnd(insts[Len(insts)]),
         Decodable(mem, pc + Length(insts)), i = InstAt(mem, pc + Length(insts))
  PROVE  Straight(Append(insts, i)) /\ InMem(mem, pc, Append(insts, i))
<1> DEFINE app == Append(insts, i)
           n   == Len(insts)
<1>1. /\ app \in Seq(Instruction) /\ Len(app) = n + 1 /\ n \in Nat
      /\ \A k \in 1 .. n : app[k] = insts[k]
      /\ app[n + 1] = i
      /\ \A k \in 0 .. n : Offset(app, k) = Offset(insts, k)
  BY AppendOffsets
<1>2. insts # <<>> <=> n # 0
  OBVIOUS
<1> HIDE DEF app, n
<1>3. ASSUME NEW k \in 1 .. Len(app) - 1 PROVE ~IsBasicBlockEnd(app[k])
  <2>1. k \in 1 .. n /\ app[k] = insts[k]
    BY <1>1
  <2>2. CASE k = n
    BY <1>2, <2>1, <2>2 DEF n
  <2>3. CASE k # n
    <3>1. k \in 1 .. n - 1
      BY <1>1, <2>1, <2>3
    <3>2. QED
      BY <2>1, <3>1 DEF Straight, n
  <2>4. QED
    BY <2>2, <2>3
<1>4. ASSUME NEW k \in 1 .. Len(app)
      PROVE  Decodable(mem, pc + Offset(app, k - 1)) /\ app[k] = InstAt(mem, pc + Offset(app, k - 1))
  <2>1. k - 1 \in 0 .. n /\ Offset(app, k - 1) = Offset(insts, k - 1)
    BY <1>1
  <2>2. CASE k = n + 1
    <3>1. k - 1 = n
      BY <1>1, <2>2
    <3>2. Offset(app, k - 1) = Length(insts)
      BY <2>1, <3>1 DEF Length, n
    <3>3. QED
      BY <1>1, <2>2, <3>2
  <2>3. CASE k # n + 1
    <3>1. k \in 1 .. n
      BY <1>1, <2>3
    <3>2. QED
      BY <1>1, <2>1, <3>1 DEF InMem, n
  <2>4. QED
    BY <2>2, <2>3
<1>5. QED
  BY <1>3, <1>4 DEF Straight, InMem, app

LEMMA ExtendedLine ==
  ASSUME NEW mem \in Memory, NEW pc, NEW p, Line(p, mem, pc), p.ok, ~p.end, setup.price \in Nat
  PROVE  LET q == Extend(p, Decode(p.cache, mem, p.at)) IN Line(q, mem, pc) /\ Longer(p, q, mem)
<1> DEFINE f == Decode(p.cache, mem, p.at)
           q == Extend(p, f)
           n == Len(p.insts)
<1>1. Found(f, mem) /\ (f.ok <=> Decodable(mem, p.at)) /\ (f.ok => f.inst = InstAt(mem, p.at))
  BY DecodeFinds, DecodeIsRight DEF Line
<1>2. n \in Nat /\ (p.insts = <<>> <=> n = 0)
  BY DEF Line
<1> HIDE DEF f
<1>3. CASE ~f.ok
  <2>1. q = [p EXCEPT !.ok = FALSE, !.cache = f.cache]
    BY <1>3 DEF Extend
  <2>2. /\ DOMAIN q = LineFields /\ q.ok = FALSE /\ q.end = p.end /\ q.at = p.at
        /\ q.cycles = p.cycles /\ q.insts = p.insts /\ q.cache = f.cache
    BY <2>1, Zenon DEF Line, LineFields
  <2> HIDE DEF q
  <2>3. Line(q, mem, pc)
    BY <1>1, <1>3, <2>2 DEF Line, Found
  <2>4. QED
    BY <1>1, <1>3, <2>2, <2>3 DEF Longer, q, f
<1>4. CASE f.ok
  <2> DEFINE app == Append(p.insts, f.inst)
  <2>1. q = [ok |-> TRUE, end |-> IsBasicBlockEnd(f.inst), at |-> p.at + f.inst.len,
             cycles |-> p.cycles + setup.price, insts |-> app, cache |-> f.cache]
    BY <1>4 DEF Extend, InstructionCycles
  <2>2. IsBasicBlockEnd(f.inst) \in BOOLEAN
    BY DEF IsBasicBlockEnd
  <2> DEFINE last == IsBasicBlockEnd(f.inst)
             at   == p.at + f.inst.len
             cost == p.cycles + setup.price
  <2> HIDE DEF last, at, cost, app
  <2>3. q = [ok |-> TRUE, end |-> last, at |-> at, cycles |-> cost, insts |-> app, cache |-> f.cache]
    BY <2>1 DEF last, at, cost
  <2>4. /\ DOMAIN q = LineFields /\ q.ok = TRUE /\ q.end = last
         /\ q.at = at /\ q.cycles = cost /\ q.insts = app /\ q.cache = f.cache
    BY <2>3 DEF LineFields
  <2>5. /\ DOMAIN q = LineFields /\ q.ok = TRUE /\ q.end = IsBasicBlockEnd(f.inst)
        /\ q.at = p.at + f.inst.len /\ q.cycles = p.cycles + setup.price /\ q.insts = app /\ q.cache = f.cache
    BY <2>4 DEF last, at, cost
  <2> USE DEF app
  <2>6. Decodable(mem, p.at) /\ p.at \in Nat /\ f.inst = InstAt(mem, p.at) /\ f.inst \in Instruction
        /\ f.inst.len \in Nat
    BY <1>1, <1>4, WhatIsDecodable, AddressTypes, InstructionTypes DEF Found
  <2>7. Length(<<>>) = 0
    BY OffsetIs DEF Length
  <2>8. pc \in Nat /\ p.at = pc + Length(p.insts) /\ Length(p.insts) \in Nat
    <3>1. CASE p.insts = <<>>
      BY <2>6, <2>7, <3>1 DEF Line
    <3>2. CASE p.insts # <<>>
      <4>1. n \in 0 .. n
        BY <1>2
      <4>2. QED
        BY <3>2, <4>1, OffsetTypes DEF Line, Length
    <3>3. QED
      BY <3>1, <3>2
  <2>9. /\ app \in Seq(Instruction) /\ Len(app) = n + 1 /\ app[n + 1] = f.inst
        /\ Length(app) = Length(p.insts) + f.inst.len
    BY <2>6, AppendOffsets DEF Line
  <2>10. Straight(app) /\ InMem(mem, pc, app)
    BY <2>6, <2>8, AppendToLine DEF Line
  <2>11. app # <<>>
    BY <1>2, <2>9
  <2>12. p.cycles + setup.price = Len(app) * setup.price
    <3>1. p.cycles = n * setup.price
      BY DEF Line
    <3>2. n \in Nat
      BY <1>2
    <3>3. QED
      BY <2>9, <3>1, <3>2, NextMultiple
  <2> HIDE DEF q, app, n
  <2>13. q.at = pc + Length(app)
    BY <2>5, <2>6, <2>8, <2>9
  <2>14. CacheIsCurrent(q.cache, mem)
    BY <1>1, <2>5 DEF Found
  <2>15. q.end <=> IsBasicBlockEnd(app[Len(app)])
    BY <2>5, <2>9
  <2>16. Line(q, mem, pc)
    BY <2>2, <2>5, <2>8, <2>9, <2>10, <2>11, <2>12, <2>13, <2>14, <2>15 DEF Line
  <2>17. QED
    BY <2>5, <2>6, <2>9, <2>16 DEF Longer, q, f, n
<1>5. QED
  BY <1>3, <1>4

(* What is decoded from pc on is a straight line, and not an empty one.    *)
LEMMA DecodedLine ==
  ASSUME NEW mem \in Memory, NEW cache, CacheIsCurrent(cache, mem), NEW pc, NEW count \in Nat \ {0},
         setup.price \in Nat
  PROVE  /\ Line(DecodeLine(cache, mem, pc, count), mem, pc)
         /\ DecodeLine(cache, mem, pc, count).ok => DecodeLine(cache, mem, pc, count).insts # <<>>
<1> DEFINE first == NewLine(cache, pc)
<1>1. PICK f : Lines(mem, first, count, f) /\ DecodeLine(cache, mem, pc, count) = f[count]
  BY DecodeLineIs
<1> DEFINE S == {n \in Nat : n <= count => Line(f[n], mem, pc) /\ (n > 0 /\ f[n].ok => f[n].insts # <<>>)}
<1>2. 0 \in S
  BY <1>1, NewLineIsLine DEF Lines
<1>3. ASSUME NEW n \in Nat, n \in S, n + 1 <= count
      PROVE  Line(f[n + 1], mem, pc) /\ (f[n + 1].ok => f[n + 1].insts # <<>>)
  <2> DEFINE p == f[n]
  <2>1. n + 1 \in 1 .. count /\ (n + 1) - 1 = n /\ n <= count
    BY <1>3
  <2>2. f[n + 1] = LineStep(mem, p)
    BY <1>1, <2>1 DEF Lines
  <2>3. Line(p, mem, pc) /\ (n > 0 /\ p.ok => p.insts # <<>>)
    BY <1>3, <2>1
  <2> HIDE DEF p
  <2>4. CASE p.end \/ ~p.ok
    BY <2>2, <2>3, <2>4 DEF LineStep, Line
  <2>5. CASE ~(p.end \/ ~p.ok)
    <3> DEFINE q == Extend(p, Decode(p.cache, mem, p.at))
    <3>1. f[n + 1] = q
      BY <2>2, <2>5 DEF LineStep
    <3>2. Line(q, mem, pc) /\ Longer(p, q, mem)
      BY <2>3, <2>5, ExtendedLine
    <3> HIDE DEF q
    <3>3. q.ok => Len(q.insts) = Len(p.insts) + 1 /\ Len(p.insts) \in Nat
      BY <2>3, <3>2 DEF Longer, Line
    <3>4. q.ok => q.insts # <<>>
      BY <3>3
    <3>5. QED
      BY <3>1, <3>2, <3>4
  <2>6. QED
    BY <2>4, <2>5
<1>4. ASSUME NEW n \in Nat, n \in S PROVE n + 1 \in S
  BY <1>3, <1>4
<1> HIDE DEF S
<1>5. Nat \subseteq S
  BY <1>2, <1>4, AllNats
<1>6. QED
  BY <1>1, <1>5 DEF S

(***************************************************************************)
(* What is loaded behind a straight line                                   *)
(***************************************************************************)

(* Nothing that can be decoded, and nothing that cannot, has changed.      *)
SameDecodes(old, new) ==
  \A a : (Decodable(old, a) <=> Decodable(new, a)) /\ (Decodable(old, a) => new.code[a] = old.code[a])

LEMMA SameIsSame == ASSUME NEW mem PROVE SameDecodes(mem, mem)
  BY DEF SameDecodes

(* A LUI that is decoded alone because what follows it cannot be decoded.  *)
Unpaired(mem, a) ==
  /\ setup.mop /\ Decodable(mem, a) /\ mem.code[a].op = "LUI"
  /\ ~Decodable(mem, a + mem.code[a].len)

(* Code that is loaded changes nothing that was decoded, but for that.     *)
LEMMA SameFetchedSameInst ==
  ASSUME NEW old \in Memory, NEW new \in Memory, SameFetched(old, new),
         NEW a, Decodable(old, a), ~Unpaired(old, a)
  PROVE  Decodable(new, a) /\ InstAt(new, a) = InstAt(old, a)
<1> DEFINE head == old.code[a]
           b    == a + head.len
<1>1. Decodable(new, a) /\ new.code[a] = head
  BY SameFetchedDecodes
<1>2. Decodable(old, b) => Decodable(new, b) /\ new.code[b] = old.code[b]
  BY SameFetchedDecodes
<1>3. setup.mop /\ head.op = "LUI" => Decodable(old, b)
  BY DEF Unpaired
<1> HIDE DEF b
<1>4. CASE setup.mop /\ head.op = "LUI"
  <2>1. Decodable(old, b) /\ Decodable(new, b) /\ new.code[b] = old.code[b]
    BY <1>2, <1>3, <1>4
  <2>2. QED
    BY <1>1, <2>1 DEF InstAt, b
<1>5. CASE ~(setup.mop /\ head.op = "LUI")
  <2>1. InstAt(new, a) = head /\ InstAt(old, a) = head
    BY <1>1, <1>5, Zenon DEF InstAt, Fusible
  <2>2. QED
    BY <1>1, <2>1
<1>6. QED
  BY <1>4, <1>5

(* Nor is it decoded alone afterwards.                                     *)
LEMMA SameFetchedPaired ==
  ASSUME NEW old \in Memory, NEW new \in Memory, SameFetched(old, new),
         NEW a, Decodable(old, a), ~Unpaired(old, a)
  PROVE  ~Unpaired(new, a)
<1>1. new.code[a] = old.code[a]
  BY SameFetchedDecodes
<1>2. setup.mop /\ old.code[a].op = "LUI" => Decodable(new, a + old.code[a].len)
  BY SameFetchedDecodes DEF Unpaired
<1>3. QED
  BY <1>1, <1>2 DEF Unpaired

LEMMA SameDecodesSame ==
  ASSUME NEW old, NEW new, SameDecodes(old, new), NEW a
  PROVE  /\ Decodable(old, a) => InstAt(new, a) = InstAt(old, a)
         /\ Unpaired(new, a) <=> Unpaired(old, a)
<1>1. \A b : (Decodable(old, b) <=> Decodable(new, b)) /\ (Decodable(old, b) => new.code[b] = old.code[b])
  BY DEF SameDecodes
<1>2. ASSUME Decodable(old, a) PROVE InstAt(new, a) = InstAt(old, a)
  <2> DEFINE head == old.code[a]
             b    == a + head.len
  <2>1. new.code[a] = head
    BY <1>1, <1>2
  <2>2. (Decodable(old, b) <=> Decodable(new, b)) /\ (Decodable(old, b) => new.code[b] = old.code[b])
    BY <1>1
  <2>3. QED
    BY <2>1, <2>2, Zenon DEF InstAt
<1>3. Unpaired(new, a) <=> Unpaired(old, a)
  <2>1. Decodable(old, a) <=> Decodable(new, a)
    BY <1>1
  <2>2. Decodable(old, a) => new.code[a] = old.code[a]
    BY <1>1
  <2>3. \A b : Decodable(old, b) <=> Decodable(new, b)
    BY <1>1
  <2>4. QED
    BY <2>1, <2>2, <2>3, Zenon DEF Unpaired
<1>4. QED
  BY <1>2, <1>3

(* Only a system call changes what can be decoded.                         *)
LEMMA ExecuteDecodes ==
  ASSUME NEW x, Typed(x), NEW i \in Instruction, i.op # "LOADCODE", NEW o
  PROVE  Execute(x, i, o).reset \/ SameDecodes(x.mem, Execute(x, i, o).mem)
<1> DEFINE next == [x EXCEPT !.pc = @ + i.len]
<1>1. DOMAIN next = Fields /\ next.mem = x.mem /\ x.mem \in Memory
  BY Zenon DEF Typed, Fields
<1> HIDE DEF next
<1>2. CASE Execute(x, i, o) = Store(next, i.arg)
  <2>1. CASE i.arg \in Addr /\ ~x.mem.exec[PageOf(i.arg)]
    <3> DEFINE new == Written(x.mem, i.arg)
    <3>1. Store(next, i.arg) = [next EXCEPT !.mem = new]
      BY <1>1, <2>1, Zenon DEF Store
    <3>2. Store(next, i.arg).mem = new
      BY <1>1, <3>1, Zenon DEF Fields
    <3>3. new.exec = x.mem.exec /\ \A a : a # i.arg => new.code[a] = x.mem.code[a]
      <4>1. DOMAIN x.mem.code = Addr
        BY <1>1, MemoryTypes
      <4>2. new.exec = x.mem.exec /\ new.code = [x.mem.code EXCEPT ![i.arg] = Inst("ADD", 1, 1)]
        BY Zenon DEF Written
      <4>3. \A a \in Addr : a # i.arg => new.code[a] = x.mem.code[a]
        BY <4>1, <4>2, Zenon
      <4>4. QED
        BY <4>1, <4>2, <4>3
    <3>4. new \in Memory
      BY <1>1, <2>1, WrittenKeeps
    <3> HIDE DEF new
    <3>5. ASSUME NEW a
          PROVE  /\ Decodable(x.mem, a) <=> Decodable(new, a)
                 /\ Decodable(x.mem, a) => new.code[a] = x.mem.code[a]
      <4>1. CASE a = i.arg
        <5>1. ~Decodable(x.mem, a)
          BY <1>1, <2>1, <4>1, WhatIsDecodable
        <5>2. ~Decodable(new, a)
          BY <2>1, <3>3, <3>4, <4>1, WhatIsDecodable
        <5>3. QED
          BY <5>1, <5>2
      <4>2. CASE a # i.arg
        BY <3>3, <4>2 DEF Decodable, Fetchable
      <4>3. QED
        BY <4>1, <4>2
    <3>6. SameDecodes(x.mem, new)
      BY <3>5 DEF SameDecodes
    <3>7. QED
      BY <1>2, <3>2, <3>6
  <2>2. CASE ~(i.arg \in Addr /\ ~x.mem.exec[PageOf(i.arg)])
    <3>1. Store(next, i.arg) = [next EXCEPT !.err = "Error"]
      BY <1>1, <2>2, Zenon DEF Store, Failed
    <3>2. Store(next, i.arg).mem = x.mem
      BY <1>1, <3>1, Zenon DEF Fields
    <3>3. QED
      BY <1>2, <3>2, SameIsSame
  <2>3. QED
    BY <2>1, <2>2
<1>3. CASE i.op \in Computing
  <2>1. Execute(x, i, o) = Compute(next, i)
    BY <1>3, Zenon DEF Execute, next, Computing, Jumps, Ecalls
  <2>2. Compute(next, i).mem = next.mem
    BY <1>1, <1>3, Zenon DEF Compute, Accumulate, Computing, Fields
  <2>3. QED
    BY <1>1, <2>1, <2>2, SameIsSame
<1>4. CASE i.op \in Jumps
  <2>1. Execute(x, i, o) = [x EXCEPT !.pc = Target(x, i)]
    BY <1>4, Zenon DEF Execute, Computing, Jumps, Ecalls
  <2>2. [x EXCEPT !.pc = Target(x, i)].mem = x.mem
    BY Zenon DEF Typed, Fields
  <2>3. QED
    BY <2>1, <2>2, SameIsSame
<1>5. CASE i.op \in Ecalls
  <2>1. Execute(x, i, o) = Call(next, i, o)
    BY <1>5, Zenon DEF Execute, next, Computing, Jumps, Ecalls
  <2>2. CASE i.op = "EXIT"
    <3>1. Call(next, i, o) = [next EXCEPT !.running = FALSE]
      BY <2>2, Zenon DEF Call
    <3>2. Call(next, i, o).mem = next.mem
      BY <1>1, <3>1, Zenon DEF Fields
    <3>3. QED
      BY <1>1, <2>1, <3>2, SameIsSame
  <2>3. CASE i.op = "EXEC"
    <3>1. Call(next, i, o) = Exec(next, i.arg, o)
      BY <2>3, Zenon DEF Call
    <3>2. Exec(next, i.arg, o).reset \/ Exec(next, i.arg, o).mem = next.mem
      BY <1>1, Zenon DEF Exec, Fields
    <3>3. QED
      BY <1>1, <2>1, <3>1, <3>2, SameIsSame
  <2>4. CASE i.op = "CHARGE"
    <3>1. Call(next, i, o) = AddCyclesInSyscall(next, SyscallCycles)
      BY <2>4, Zenon DEF Call
    <3>2. AddCyclesInSyscall(next, SyscallCycles).mem = next.mem
      BY <1>1, Zenon DEF AddCyclesInSyscall, Fields
    <3>3. QED
      BY <1>1, <2>1, <3>1, <3>2, SameIsSame
  <2>5. CASE i.op = "UNKNOWN"
    <3>1. Call(next, i, o) = [next EXCEPT !.err = "Error"]
      BY <2>5, Zenon DEF Call, Failed
    <3>2. Call(next, i, o).mem = next.mem
      BY <1>1, <3>1, Zenon DEF Fields
    <3>3. QED
      BY <1>1, <2>1, <3>2, SameIsSame
  <2>6. QED
    BY <1>5, <2>2, <2>3, <2>4, <2>5 DEF Ecalls
<1>6. CASE i.op \notin Computing \cup Jumps \cup Ecalls \cup {"STORE"}
  <2>1. Execute(x, i, o) = [next EXCEPT !.err = "Error"]
    BY <1>6, Zenon DEF Execute, next, Failed
  <2>2. [next EXCEPT !.err = "Error"].mem = x.mem
    BY <1>1, Zenon DEF Fields
  <2>3. QED
    BY <2>1, <2>2, SameIsSame
<1>7. CASE i.op = "STORE"
  <2>1. Execute(x, i, o) = Store(next, i.arg)
    BY <1>7, Zenon DEF Execute, next, Computing, Jumps, Ecalls
  <2>2. QED
    BY <1>2, <2>1
<1>8. QED
  BY <1>3, <1>4, <1>5, <1>6, <1>7

(***************************************************************************)
(* Straight lines that fail                                                *)
(***************************************************************************)
LEMMA LengthTypes == ASSUME NEW insts \in Seq(Instruction) PROVE Length(insts) \in Nat /\ Length(insts) >= Len(insts)
<1>1. Len(insts) \in 0 .. Len(insts)
  OBVIOUS
<1>2. QED
  BY <1>1, OffsetTypes DEF Length

LEMMA NoLength == Len(<<>>) = 0 /\ Length(<<>>) = 0 /\ <<>> \in Seq(Instruction)
  BY OffsetIs DEF Length

LEMMA ConcatOffsets ==
  ASSUME NEW s \in Seq(Instruction), NEW t \in Seq(Instruction)
  PROVE  /\ s \o t \in Seq(Instruction) /\ Len(s \o t) = Len(s) + Len(t)
         /\ \A k \in 1 .. Len(s) : (s \o t)[k] = s[k] /\ Offset(s \o t, k - 1) = Offset(s, k - 1)
         /\ \A k \in 1 .. Len(t) : /\ (s \o t)[Len(s) + k] = t[k]
                                   /\ Offset(s \o t, Len(s) + k - 1) = Length(s) + Offset(t, k - 1)
         /\ Length(s \o t) = Length(s) + Length(t)
<1> DEFINE u == s \o t
           n == Len(s)
<1>1. /\ u \in Seq(Instruction) /\ Len(u) = n + Len(t) /\ n \in Nat /\ Len(t) \in Nat
      /\ \A k \in 1 .. n : u[k] = s[k]
      /\ \A k \in 1 .. Len(t) : u[n + k] = t[k]
  OBVIOUS
<1> HIDE DEF u
<1>2. \A k \in 0 .. n : Offset(u, k) = Offset(s, k)
  <2>1. n <= Len(s) /\ Len(s) \in Nat
    BY <1>1
  <2> HIDE DEF n
  <2>2. Len(u) \in Nat /\ n <= Len(u)
    BY <1>1
  <2>3. \A k \in 1 .. n : u[k].len = s[k].len
    BY <1>1
  <2>4. QED
    BY <1>1, <2>1, <2>2, <2>3, SameOffsets
<1>3. Length(s) \in Nat /\ Offset(u, n) = Length(s)
  <2>1. n \in 0 .. n
    BY <1>1
  <2>2. QED
    BY <1>2, <2>1, LengthTypes DEF Length
<1> DEFINE S == {k \in Nat : k <= Len(t) => Offset(u, n + k) = Length(s) + Offset(t, k)}
<1>4. 0 \in S
  <2>1. Offset(t, 0) = 0 /\ n + 0 = n
    BY <1>1, OffsetIs
  <2>2. QED
    BY <1>3, <2>1
<1>5. ASSUME NEW k \in Nat, k \in S, k + 1 <= Len(t)
      PROVE  Offset(u, n + (k + 1)) = Length(s) + Offset(t, k + 1)
  <2>1. k + 1 \in 1 .. Len(t) /\ n + (k + 1) \in 1 .. Len(u) /\ (n + (k + 1)) - 1 = n + k /\ (k + 1) - 1 = k
    BY <1>1, <1>5
  <2>2. Offset(u, n + (k + 1)) = Offset(u, n + k) + u[n + (k + 1)].len
    <3> DEFINE j == n + (k + 1)
    <3>1. j \in 1 .. Len(u) /\ j - 1 = n + k /\ Len(u) \in Nat
      BY <1>1, <2>1
    <3> HIDE DEF j
    <3>2. Offset(u, j) = Offset(u, j - 1) + u[j].len
      BY <3>1, OffsetIs
    <3>3. QED
      BY <3>1, <3>2 DEF j
  <2>3. Offset(t, k + 1) = Offset(t, k) + t[k + 1].len
    BY <1>1, <2>1, OffsetIs
  <2>4. u[n + (k + 1)] = t[k + 1] /\ t[k + 1].len \in Nat
    BY <1>1, <2>1, InstsTypes
  <2>5. Offset(t, k) \in Nat
    <3>1. k \in 0 .. Len(t)
      BY <1>1, <1>5
    <3>2. QED
      BY <3>1, OffsetTypes
  <2>6. Offset(u, n + k) = Length(s) + Offset(t, k)
    BY <1>1, <1>5
  <2>7. QED
    BY <1>3, <2>2, <2>3, <2>4, <2>5, <2>6
<1>6. \A k \in Nat : k \in S => k + 1 \in S
  BY <1>5
<1> HIDE DEF S
<1>7. Nat \subseteq S
  BY <1>4, <1>6, AllNats
<1>8. \A k \in 0 .. Len(t) : Offset(u, n + k) = Length(s) + Offset(t, k)
  BY <1>1, <1>7 DEF S
<1>9. \A k \in 1 .. n : Offset(u, k - 1) = Offset(s, k - 1)
  <2>1. \A k \in 1 .. n : k - 1 \in 0 .. n
    BY <1>1
  <2>2. QED
    BY <1>2, <2>1
<1>10. \A k \in 1 .. Len(t) : Offset(u, n + k - 1) = Length(s) + Offset(t, k - 1)
  <2>1. \A k \in 1 .. Len(t) : k - 1 \in 0 .. Len(t) /\ n + k - 1 = n + (k - 1)
    BY <1>1
  <2>2. QED
    BY <1>8, <2>1
<1>11. Length(u) = Length(s) + Length(t)
  <2>1. Len(t) \in 0 .. Len(t) /\ Len(u) = n + Len(t)
    BY <1>1
  <2>2. QED
    BY <1>8, <2>1 DEF Length
<1>12. QED
  BY <1>1, <1>9, <1>10, <1>11 DEF u

LEMMA JoinInMem ==
  ASSUME NEW mem, NEW pc \in Int, NEW s \in Seq(Instruction), NEW t \in Seq(Instruction),
         InMem(mem, pc, s), InMem(mem, pc + Length(s), t)
  PROVE  InMem(mem, pc, s \o t)
<1> DEFINE u == s \o t
           n == Len(s)
<1>1. /\ Len(u) = n + Len(t) /\ n \in Nat /\ Len(t) \in Nat /\ Length(s) \in Nat
      /\ \A k \in 1 .. n : u[k] = s[k] /\ Offset(u, k - 1) = Offset(s, k - 1)
      /\ \A k \in 1 .. Len(t) : u[n + k] = t[k] /\ Offset(u, n + k - 1) = Length(s) + Offset(t, k - 1)
  BY ConcatOffsets, LengthTypes
<1> HIDE DEF u
<1>2. ASSUME NEW k \in 1 .. Len(u)
      PROVE  Decodable(mem, pc + Offset(u, k - 1)) /\ u[k] = InstAt(mem, pc + Offset(u, k - 1))
  <2>1. CASE k <= n
    <3>1. k \in 1 .. n
      BY <1>1, <2>1
    <3>2. QED
      BY <1>1, <3>1 DEF InMem
  <2>2. CASE ~(k <= n)
    <3> DEFINE j == k - n
    <3>1. j \in 1 .. Len(t) /\ k = n + j /\ j - 1 \in 0 .. Len(t)
      BY <1>1, <2>2
    <3> HIDE DEF j
    <3>2. u[k] = t[j] /\ Offset(u, k - 1) = Length(s) + Offset(t, j - 1) /\ Offset(t, j - 1) \in Nat
      BY <1>1, <3>1, OffsetTypes
    <3>3. pc + Offset(u, k - 1) = (pc + Length(s)) + Offset(t, j - 1)
      BY <1>1, <3>2
    <3>4. QED
      BY <3>1, <3>2, <3>3 DEF InMem
  <2>3. QED
    BY <2>1, <2>2
<1>3. QED
  BY <1>2 DEF InMem, u

LEMMA TailInMem ==
  ASSUME NEW mem \in Memory, NEW pc \in Int, NEW insts \in Seq(Instruction), insts # <<>>, InMem(mem, pc, insts)
  PROVE  /\ pc \in Nat /\ Decodable(mem, pc) /\ Head(insts) = InstAt(mem, pc)
         /\ InMem(mem, pc + Head(insts).len, Tail(insts))
<1> DEFINE rest == Tail(insts)
           len  == Head(insts).len
<1>1. /\ Head(insts) = insts[1] /\ rest \in Seq(Instruction) /\ Len(insts) \in Nat \ {0}
      /\ Len(rest) = Len(insts) - 1
      /\ \A k \in 1 .. Len(insts) - 1 : rest[k] = insts[k + 1]
      /\ \A k \in 0 .. Len(insts) - 1 : Offset(insts, k + 1) = len + Offset(rest, k)
      /\ len \in Nat
  BY TailOffsets, InstructionTypes
<1> HIDE DEF rest, len
<1>2. 1 \in 1 .. Len(insts) /\ Offset(insts, 1 - 1) = 0
  BY <1>1, OffsetIs
<1>3. Decodable(mem, pc) /\ insts[1] = InstAt(mem, pc)
  <2>1. pc + Offset(insts, 1 - 1) = pc
    BY <1>2
  <2>2. QED
    BY <1>2, <2>1 DEF InMem
<1>4. pc \in Nat
  BY <1>3, WhatIsDecodable, AddressTypes
<1>5. ASSUME NEW k \in 1 .. Len(rest)
      PROVE  /\ Decodable(mem, (pc + len) + Offset(rest, k - 1))
             /\ rest[k] = InstAt(mem, (pc + len) + Offset(rest, k - 1))
  <2>1. /\ k + 1 \in 1 .. Len(insts) /\ k - 1 \in 0 .. Len(insts) - 1 /\ k - 1 \in 0 .. Len(rest)
        /\ (k - 1) + 1 = (k + 1) - 1 /\ k \in 1 .. Len(insts) - 1
    BY <1>1
  <2>2. Offset(insts, (k + 1) - 1) = len + Offset(rest, k - 1) /\ Offset(rest, k - 1) \in Nat
    BY <1>1, <2>1, OffsetTypes
  <2>3. pc + Offset(insts, (k + 1) - 1) = (pc + len) + Offset(rest, k - 1)
    BY <1>1, <1>4, <2>2
  <2>4. rest[k] = insts[k + 1]
    BY <1>1, <2>1
  <2>5. QED
    BY <2>1, <2>3, <2>4 DEF InMem
<1>6. QED
  BY <1>1, <1>3, <1>4, <1>5 DEF InMem, rest, len

(* A straight line that runs into what cannot be decoded, and the machine  *)
(* with it: nothing on the line jumps or calls.                            *)
Open(insts) == \A k \in 1 .. Len(insts) : ~IsBasicBlockEnd(insts[k])
Doomed(mem, pc) ==
  \E insts \in Seq(Instruction) :
    InMem(mem, pc, insts) /\ Open(insts) /\ ~Decodable(mem, pc + Length(insts))

LEMMA StraightIsOpen ==
  ASSUME NEW insts \in Seq(Instruction), Straight(insts), insts # <<>> => ~IsBasicBlockEnd(insts[Len(insts)])
  PROVE  Open(insts)
<1>1. Len(insts) \in Nat /\ (insts = <<>> <=> Len(insts) = 0)
  OBVIOUS
<1>2. ASSUME NEW k \in 1 .. Len(insts) PROVE ~IsBasicBlockEnd(insts[k])
  <2>1. k \in 1 .. Len(insts) - 1 \/ k = Len(insts)
    BY <1>1
  <2>2. insts # <<>>
    BY <1>1
  <2>3. QED
    BY <2>1, <2>2 DEF Straight
<1>3. QED
  BY <1>2 DEF Open

LEMMA LineDoomed ==
  ASSUME NEW mem, NEW pc \in Int, NEW line, Line(line, mem, pc), ~line.ok
  PROVE  Doomed(mem, pc)
<1>1. /\ line.insts \in Seq(Instruction) /\ Straight(line.insts) /\ InMem(mem, pc, line.insts)
      /\ ~line.end /\ ~Decodable(mem, line.at)
      /\ line.insts = <<>> => line.at = pc
      /\ line.insts # <<>> => line.at = pc + Length(line.insts) /\ ~IsBasicBlockEnd(line.insts[Len(line.insts)])
  BY DEF Line
<1>2. line.at = pc + Length(line.insts)
  BY <1>1, NoLength
<1>3. Open(line.insts)
  BY <1>1, StraightIsOpen
<1>4. QED
  BY <1>1, <1>2, <1>3 DEF Doomed

(* What is doomed after an open line is doomed before it.                  *)
LEMMA JoinDoomed ==
  ASSUME NEW mem, NEW pc \in Int, NEW s \in Seq(Instruction), InMem(mem, pc, s), Open(s),
         Doomed(mem, pc + Length(s))
  PROVE  Doomed(mem, pc)
<1>1. PICK t \in Seq(Instruction) :
        InMem(mem, pc + Length(s), t) /\ Open(t) /\ ~Decodable(mem, (pc + Length(s)) + Length(t))
  BY DEF Doomed
<1> DEFINE u == s \o t
<1>2. /\ u \in Seq(Instruction) /\ Len(u) = Len(s) + Len(t) /\ Len(s) \in Nat /\ Len(t) \in Nat
      /\ \A k \in 1 .. Len(s) : u[k] = s[k]
      /\ \A k \in 1 .. Len(t) : u[Len(s) + k] = t[k]
      /\ Length(u) = Length(s) + Length(t) /\ Length(s) \in Nat /\ Length(t) \in Nat
  BY ConcatOffsets, LengthTypes
<1>3. InMem(mem, pc, u)
  BY <1>1, JoinInMem
<1> HIDE DEF u
<1>4. ASSUME NEW k \in 1 .. Len(u) PROVE ~IsBasicBlockEnd(u[k])
  <2>1. CASE k <= Len(s)
    <3>1. k \in 1 .. Len(s)
      BY <1>2, <2>1
    <3>2. QED
      BY <1>2, <3>1 DEF Open
  <2>2. CASE ~(k <= Len(s))
    <3>1. k - Len(s) \in 1 .. Len(t) /\ k = Len(s) + (k - Len(s))
      BY <1>2, <2>2
    <3>2. QED
      BY <1>1, <1>2, <3>1 DEF Open
  <2>3. QED
    BY <2>1, <2>2
<1>5. pc + Length(u) = (pc + Length(s)) + Length(t)
  BY <1>2
<1>6. Open(u)
  BY <1>4 DEF Open
<1>7. QED
  BY <1>1, <1>2, <1>3, <1>5, <1>6 DEF Doomed

(* A doomed machine executes no system call, and stays doomed.             *)
LEMMA TailDoomed ==
  ASSUME NEW mem \in Memory, NEW pc \in Int, Doomed(mem, pc), Decodable(mem, pc)
  PROVE  ~IsBasicBlockEnd(InstAt(mem, pc)) /\ Doomed(mem, pc + InstAt(mem, pc).len)
<1>1. PICK insts \in Seq(Instruction) :
        InMem(mem, pc, insts) /\ Open(insts) /\ ~Decodable(mem, pc + Length(insts))
  BY DEF Doomed
<1>2. insts # <<>>
  <2>1. pc + 0 = pc
    OBVIOUS
  <2>2. QED
    BY <1>1, <2>1, NoLength
<1> DEFINE rest == Tail(insts)
           i    == Head(insts)
<1>3. /\ i = insts[1] /\ i.len \in Nat /\ rest \in Seq(Instruction) /\ Len(insts) \in Nat \ {0}
      /\ Len(rest) = Len(insts) - 1
      /\ \A k \in 1 .. Len(insts) - 1 : rest[k] = insts[k + 1]
      /\ Length(insts) = i.len + Length(rest)
  BY <1>2, TailOffsets, InstructionTypes
<1>4. i = InstAt(mem, pc) /\ InMem(mem, pc + i.len, rest)
  BY <1>1, <1>2, TailInMem
<1>5. Length(rest) \in Nat
  BY <1>3, LengthTypes
<1> HIDE DEF rest, i
<1>6. ~IsBasicBlockEnd(i)
  <2>1. 1 \in 1 .. Len(insts)
    BY <1>3
  <2>2. QED
    BY <1>1, <1>3, <2>1 DEF Open
<1>7. Open(rest)
  <2>1. \A k \in 1 .. Len(rest) : k \in 1 .. Len(insts) - 1 /\ k + 1 \in 1 .. Len(insts)
    BY <1>3
  <2>2. QED
    BY <1>1, <1>3, <2>1 DEF Open
<1>8. pc + Length(insts) = (pc + i.len) + Length(rest)
  BY <1>3, <1>5
<1>9. Doomed(mem, pc + i.len)
  BY <1>1, <1>3, <1>4, <1>7, <1>8 DEF Doomed
<1>10. QED
  BY <1>4, <1>6, <1>9

Paired(mem, pc, insts) == \A k \in 1 .. Len(insts) : ~Unpaired(mem, pc + Offset(insts, k - 1))

(* An unpaired LUI on a straight line is its last instruction, and what is *)
(* behind it cannot be decoded.                                            *)
LEMMA UnpairedDoomed ==
  ASSUME NEW mem \in Memory, NEW pc \in Int, NEW insts \in Seq(Instruction), Straight(insts), InMem(mem, pc, insts),
         ~Paired(mem, pc, insts)
  PROVE  Doomed(mem, pc)
<1> DEFINE n == Len(insts)
<1>1. PICK k \in 1 .. n : Unpaired(mem, pc + Offset(insts, k - 1))
  BY DEF Paired
<1> DEFINE a == pc + Offset(insts, k - 1)
<1>2. /\ n \in Nat /\ k - 1 \in 0 .. n /\ Offset(insts, k - 1) \in Nat
      /\ Offset(insts, k) = Offset(insts, k - 1) + insts[k].len /\ insts[k].len \in Nat
  <2>1. n \in Nat /\ k - 1 \in 0 .. n
    OBVIOUS
  <2>2. QED
    BY <2>1, OffsetIs, OffsetTypes, InstsTypes
<1>3. Decodable(mem, a) /\ insts[k] = InstAt(mem, a)
  BY DEF InMem
<1>4. mem.code[a].op = "LUI" /\ ~Decodable(mem, a + mem.code[a].len)
  BY <1>1 DEF Unpaired
<1>5. insts[k] = mem.code[a]
  BY <1>3, <1>4 DEF InstAt
<1>6. ~Decodable(mem, pc + Offset(insts, k))
  <2>1. a + mem.code[a].len = pc + Offset(insts, k)
    BY <1>2, <1>5
  <2>2. QED
    BY <1>4, <2>1
<1>7. k = n
  <2>1. CASE k # n
    <3>1. k + 1 \in 1 .. n /\ (k + 1) - 1 = k
      BY <1>2, <2>1
    <3>2. Decodable(mem, pc + Offset(insts, (k + 1) - 1))
      BY <3>1 DEF InMem
    <3>3. QED
      BY <1>6, <3>1, <3>2
  <2>2. QED
    BY <2>1
<1>8. ~IsBasicBlockEnd(insts[n])
  BY <1>4, <1>5, <1>7 DEF IsBasicBlockEnd, BlockEnds, Ecalls, Jumps
<1>9. Open(insts)
  BY <1>8, StraightIsOpen
<1>10. QED
  BY <1>6, <1>7, <1>9 DEF Doomed, Length

LEMMA SameDecodesInMem ==
  ASSUME NEW old, NEW new, SameDecodes(old, new), NEW pc, NEW insts, InMem(old, pc, insts)
  PROVE  InMem(new, pc, insts)
<1>1. \A a : Decodable(old, a) => Decodable(new, a) /\ InstAt(new, a) = InstAt(old, a)
  BY SameDecodesSame DEF SameDecodes
<1>2. QED
  BY <1>1 DEF InMem

LEMMA SameDecodesDoomed ==
  ASSUME NEW old, NEW new, SameDecodes(old, new), NEW pc, Doomed(old, pc)
  PROVE  Doomed(new, pc)
<1>1. PICK insts \in Seq(Instruction) :
        InMem(old, pc, insts) /\ Open(insts) /\ ~Decodable(old, pc + Length(insts))
  BY DEF Doomed
<1>2. InMem(new, pc, insts)
  BY <1>1, SameDecodesInMem
<1>3. ~Decodable(new, pc + Length(insts))
  BY <1>1 DEF SameDecodes
<1>4. QED
  BY <1>1, <1>2, <1>3 DEF Doomed

LEMMA InstEnds ==
  ASSUME NEW mem \in Memory, NEW a, Decodable(mem, a)
  PROVE  /\ a \in Nat /\ InstAt(mem, a) \in Instruction /\ InstAt(mem, a).len \in Nat
         /\ a + InstAt(mem, a).len <= MemorySize
<1> DEFINE head == mem.code[a]
           b    == a + head.len
<1>1. /\ a \in Nat /\ a \in Addr /\ head \in Instruction /\ head.len \in Nat
  BY WhatIsDecodable, AddressTypes, InstructionTypes
<1>2. \A c \in Addr : c \in Nat /\ c + 1 <= MemorySize
  BY GuestCodeAssumption DEF Addr
<1>3. \A c : Decodable(mem, c) => c + mem.code[c].len - 1 \in Addr
  BY DEF Decodable, Fetchable
<1>4. a + head.len <= MemorySize /\ MemorySize \in Nat
  <2>1. a + head.len - 1 \in Addr /\ (a + head.len - 1) + 1 = a + head.len
    BY <1>1, <1>3
  <2>2. QED
    BY <1>2, <2>1, GuestCodeAssumption
<1>5. CASE setup.mop /\ Decodable(mem, b) /\ Fusible(head, mem.code[b])
  <2> DEFINE next == mem.code[b]
  <2>1. next \in Instruction /\ b \in Nat /\ next.len \in Nat /\ b + next.len - 1 \in Addr
    BY <1>3, <1>5, WhatIsDecodable, AddressTypes, InstructionTypes
  <2>2. InstAt(mem, a) = Fuse(head, next)
    BY <1>5 DEF InstAt
  <2>3. Fuse(head, next).len = head.len + next.len
    BY DEF Fuse, Inst
  <2>4. Fuse(head, next) \in Instruction
    BY <1>1, <2>1, FuseIsInstruction
  <2>5. b + next.len <= MemorySize
    <3>1. (b + next.len - 1) + 1 = b + next.len
      BY <2>1
    <3>2. QED
      BY <1>2, <2>1, <3>1
  <2> HIDE DEF next
  <2>6. a + (head.len + next.len) = b + next.len
    BY <1>1, <2>1
  <2>7. QED
    BY <1>1, <2>1, <2>2, <2>3, <2>4, <2>5, <2>6
<1>6. CASE ~(setup.mop /\ Decodable(mem, b) /\ Fusible(head, mem.code[b]))
  <2>1. InstAt(mem, a) = head
    BY <1>6 DEF InstAt
  <2>2. QED
    BY <1>1, <1>4, <2>1
<1>7. QED
  BY <1>5, <1>6

(***************************************************************************)
(* Addresses that are compared                                             *)
(***************************************************************************)
(* Where traces are looked up: before version 2 by the low 32 bits.        *)
Mask(pc) == IF setup.engine # "interpreter" /\ setup.version < 2 THEN pc % U32Range ELSE pc

LEMMA MaskTypes == ASSUME NEW pc \in Int PROVE Mask(pc) \in Int
<1>1. U32Range \in Nat \ {0}
  BY GuestCodeAssumption
<1>2. pc % U32Range \in Int
  BY <1>1
<1>3. QED
  BY <1>2 DEF Mask

LEMMA MaskOfAddr == ASSUME NEW pc \in Nat, pc <= MemorySize PROVE Mask(pc) = pc
<1>1. U32Range \in Nat \ {0} /\ pc < U32Range
  BY GuestCodeAssumption
<1>2. pc % U32Range = pc
  BY <1>1
<1>3. QED
  BY <1>2 DEF Mask

LEMMA RemainderMoves ==
  ASSUME NEW R \in Nat \ {0}, NEW n \in Int, NEW k \in Nat, (n % R) + k < R
  PROVE  (n + k) % R = (n % R) + k
<1> DEFINE q == n \div R
           r == n % R
<1>1. q \in Int /\ r \in Nat /\ n = R * q + r
  OBVIOUS
<1>2. r + k \in 0 .. R - 1 /\ n + k = R * q + (r + k)
  BY <1>1
<1> HIDE DEF q, r
<1>3. \A s \in 0 .. R - 1 : (R * q + s) % R = s
  BY <1>1
<1>4. (n + k) % R = r + k
  BY <1>2, <1>3
<1>5. QED
  BY <1>4 DEF r

LEMMA MaskMoves ==
  ASSUME NEW pc \in Int, NEW len \in Nat, Mask(pc) + len <= MemorySize
  PROVE  Mask(pc + len) = Mask(pc) + len
<1>1. U32Range \in Nat \ {0} /\ MemorySize < U32Range /\ MemorySize \in Nat
  BY GuestCodeAssumption
<1>2. CASE setup.engine # "interpreter" /\ setup.version < 2
  <2>1. Mask(pc) = pc % U32Range /\ Mask(pc + len) = (pc + len) % U32Range
    BY <1>2 DEF Mask
  <2>2. (pc % U32Range) + len < U32Range
    BY <1>1, <2>1, MaskTypes
  <2>3. QED
    BY <1>1, <2>1, <2>2, RemainderMoves
<1>3. CASE ~(setup.engine # "interpreter" /\ setup.version < 2)
  BY <1>3 DEF Mask
<1>4. QED
  BY <1>2, <1>3

(***************************************************************************)
(* Traces                                                                  *)
(***************************************************************************)
(* A trace is a straight line, paid for by the instruction; when it is     *)
(* current, it is what memory decodes to, and it may be one that no code   *)
(* loaded later can change.                                                *)
TraceFields == {"address", "length", "cycles", "insts", "tail"}
Good(t, mem, what) ==
  /\ DOMAIN t = TraceFields
  /\ t.insts \in Seq(Instruction) /\ Straight(t.insts) /\ t.cycles = Len(t.insts) * setup.price
  /\ t.insts # <<>> => /\ t.address \in Nat /\ t.length = Length(t.insts)
                       /\ "current" \in what => InMem(mem, t.address, t.insts)
                       /\ "paired" \in what => Paired(mem, t.address, t.insts)

(* A trace that jumps does so where no block ends, to a dynamic trace.     *)
Points(t, dyn) ==
  t.insts # <<>> /\ t.tail # NoPc =>
    t.tail \in DOMAIN dyn /\ t.tail = t.address + t.length /\ ~IsBasicBlockEnd(t.insts[Len(t.insts)])

GoodDynamic(dyn, mem, what) ==
  \A pc \in DOMAIN dyn :
    Good(dyn[pc], mem, what) /\ dyn[pc].address = pc /\ dyn[pc].tail = NoPc /\ dyn[pc].insts # <<>>
GoodMemo(mm, dyn, mem, what) ==
  \A pc \in DOMAIN mm :
    Good(mm[pc], mem, what) /\ Points(mm[pc], dyn) /\ mm[pc].address = pc /\ mm[pc].insts # <<>>
GoodFixed(tr, dyn, mem, what) ==
  /\ DOMAIN tr = 0 .. TraceSize - 1
  /\ \A slot \in DOMAIN tr : Good(tr[slot], mem, what) /\ Points(tr[slot], dyn)
GoodTraces(tr, mm, dyn, mem, what) ==
  GoodFixed(tr, dyn, mem, what) /\ GoodMemo(mm, dyn, mem, what) /\ GoodDynamic(dyn, mem, what)

(* What keeps traces good: nothing that is decoded has changed, or only    *)
(* what none of them has.                                                  *)
Both == {"current", "paired"}
Carries(old, new, what, still) ==
  /\ still \subseteq what
  /\ still # {} => SameDecodes(old, new) \/ (SameFetched(old, new) /\ Both \subseteq what)

LEMMA GoodStays ==
  ASSUME NEW old \in Memory, NEW new \in Memory, NEW what, NEW still, Carries(old, new, what, still),
         NEW t, Good(t, old, what)
  PROVE  Good(t, new, still)
<1>1. ASSUME t.insts # <<>>, "current" \in still PROVE InMem(new, t.address, t.insts)
  <2>1. InMem(old, t.address, t.insts)
    BY <1>1 DEF Good, Carries
  <2>2. CASE SameDecodes(old, new)
    BY <2>1, <2>2, SameDecodesInMem
  <2>3. CASE SameFetched(old, new) /\ Both \subseteq what
    <3>1. Paired(old, t.address, t.insts)
      BY <1>1, <2>3 DEF Good, Both
    <3>2. QED
      BY <2>1, <2>3, <3>1, SameFetchedSameInst DEF InMem, Paired
  <2>4. QED
    BY <1>1, <2>2, <2>3 DEF Carries
<1>2. ASSUME t.insts # <<>>, "paired" \in still PROVE Paired(new, t.address, t.insts)
  <2>1. Paired(old, t.address, t.insts)
    BY <1>2 DEF Good, Carries
  <2>2. CASE SameDecodes(old, new)
    BY <2>1, <2>2, SameDecodesSame DEF Paired
  <2>3. CASE SameFetched(old, new) /\ Both \subseteq what
    <3>1. InMem(old, t.address, t.insts)
      BY <1>2, <2>3 DEF Good, Both
    <3>2. QED
      BY <2>1, <2>3, <3>1, SameFetchedPaired DEF InMem, Paired
  <2>4. QED
    BY <1>2, <2>2, <2>3 DEF Carries
<1>3. QED
  BY <1>1, <1>2 DEF Good

LEMMA GoodTracesStay ==
  ASSUME NEW old \in Memory, NEW new \in Memory, NEW what, NEW still, Carries(old, new, what, still),
         NEW tr, NEW mm, NEW dyn, GoodTraces(tr, mm, dyn, old, what)
  PROVE  GoodTraces(tr, mm, dyn, new, still)
<1>1. \A t : Good(t, old, what) => Good(t, new, still)
  BY GoodStays
<1>2. QED
  BY <1>1 DEF GoodTraces, GoodFixed, GoodMemo, GoodDynamic

LEMMA DefaultIsGood ==
  ASSUME NEW mem, NEW what, NEW dyn, setup.price \in Nat
  PROVE  Good(DefaultTrace, mem, what) /\ Points(DefaultTrace, dyn)
<1>1. DOMAIN DefaultTrace = TraceFields /\ DefaultTrace.insts = <<>> /\ DefaultTrace.cycles = 0
  BY DEF DefaultTrace, TraceFields
<1>2. <<>> \in Seq(Instruction) /\ Len(<<>>) * setup.price = 0 /\ Straight(<<>>)
  BY DEF Straight
<1>3. QED
  BY <1>1, <1>2 DEF Good, Points

LEMMA NoneAreGood ==
  ASSUME NEW mem, NEW what, setup.price \in Nat
  PROVE  GoodTraces(EmptyTraces, NoTraces, NoTraces, mem, what)
<1>1. DOMAIN EmptyTraces = 0 .. TraceSize - 1 /\ \A slot \in DOMAIN EmptyTraces : EmptyTraces[slot] = DefaultTrace
  BY Zenon DEF EmptyTraces
<1>2. DOMAIN NoTraces = {}
  BY DEF NoTraces
<1>3. QED
  BY <1>1, <1>2, DefaultIsGood DEF GoodTraces, GoodFixed, GoodMemo, GoodDynamic

(* A trace that is made of a straight line, one that goes on.              *)
LEMMA TraceOfIs ==
  ASSUME NEW mem \in Memory, NEW pc, NEW line, Line(line, mem, pc),
         NEW what, "paired" \in what => ~Doomed(mem, pc)
  PROVE  /\ Good(TraceOf(pc, line), mem, what) /\ TraceOf(pc, line).insts = line.insts
         /\ TraceOf(pc, line).address = pc /\ TraceOf(pc, line).tail = NoPc
         /\ TraceOf(pc, line).length = line.at - pc
<1> DEFINE t == TraceOf(pc, line)
<1>1. /\ DOMAIN t = TraceFields /\ t.address = pc /\ t.length = line.at - pc /\ t.cycles = line.cycles
      /\ t.insts = line.insts /\ t.tail = NoPc
  BY DEF TraceOf, TraceFields
<1>2. line.insts # <<>> => pc \in Nat /\ line.at - pc = Length(line.insts)
  <2>1. Len(line.insts) \in 0 .. Len(line.insts)
    BY DEF Line
  <2>2. Length(line.insts) \in Nat
    BY <2>1, OffsetTypes DEF Length, Line
  <2>3. QED
    BY <2>2 DEF Line
<1> HIDE DEF t
<1>3. "paired" \in what /\ line.insts # <<>> => Paired(mem, pc, line.insts)
  BY <1>2, UnpairedDoomed DEF Line
<1>4. Good(t, mem, what)
  BY <1>1, <1>2, <1>3 DEF Line, Good
<1>5. QED
  BY <1>1, <1>4 DEF t

(* The line from pc on, or from where a dynamic trace was to follow it,    *)
(* runs into what cannot be decoded.                                       *)
Fails(mem, pc) ==
  \/ \E line : Line(line, mem, pc) /\ ~line.ok
  \/ \E line, next : /\ Line(line, mem, pc) /\ line.ok /\ ~line.end
                     /\ Line(next, mem, line.at) /\ ~next.ok

WithCached(f, memory, pc, trace) ==
  DOMAIN f = DOMAIN memory \cup {pc} /\ f[pc] = trace /\ \A a \in DOMAIN memory : a # pc => f[a] = memory[a]

LEMMA CachedIs ==
  ASSUME NEW memory, NEW pc, NEW trace
  PROVE  WithCached(Cached(memory, pc, trace), memory, pc, trace)
  BY Zenon DEF Cached, WithCached

LEMMA PointsStays ==
  ASSUME NEW t, NEW dyn, Points(t, dyn), NEW more, DOMAIN dyn \subseteq DOMAIN more
  PROVE  Points(t, more)
  BY DEF Points

(* The dynamic trace that a fixed one is to jump to.                       *)
Follows(rest, mem, pc, what) ==
  /\ rest.ok \in BOOLEAN /\ CacheIsCurrent(rest.cache, mem)
  /\ GoodDynamic(rest.dynamic, mem, what) /\ DOMAIN dynamic \subseteq DOMAIN rest.dynamic
  /\ rest.ok => pc \in DOMAIN rest.dynamic
  /\ ~rest.ok => \E line : Line(line, mem, pc) /\ ~line.ok

LEMMA DynamicFollows ==
  ASSUME NEW cache, m.mem \in Memory, CacheIsCurrent(cache, m.mem), setup.price \in Nat,
         NEW what, GoodDynamic(dynamic, m.mem, what), NEW pc, "paired" \in what => ~Doomed(m.mem, pc)
  PROVE  Follows(FindOrBuildDynamicTrace(cache, pc), m.mem, pc, what)
<1> DEFINE rest == FindOrBuildDynamicTrace(cache, pc)
<1>1. CASE pc \in DOMAIN dynamic
  <2>1. rest = [ok |-> TRUE, cache |-> cache, dynamic |-> dynamic]
    BY <1>1 DEF FindOrBuildDynamicTrace
  <2>2. rest.ok = TRUE /\ rest.cache = cache /\ rest.dynamic = dynamic
    BY <2>1
  <2> HIDE DEF rest
  <2>3. Follows(rest, m.mem, pc, what)
    BY <1>1, <2>2 DEF Follows
  <2>4. QED
    BY <2>3 DEF rest
<1>2. CASE pc \notin DOMAIN dynamic
  <2> DEFINE line == DecodeLine(cache, m.mem, pc, MemorySize)
             t    == TraceOf(pc, line)
  <2>1. MemorySize \in Nat \ {0}
    BY GuestCodeAssumption
  <2>2. Line(line, m.mem, pc) /\ (line.ok => line.insts # <<>>)
    BY <2>1, DecodedLine
  <2>3. rest = The({Built(pc, l) : l \in {line}})
    BY <1>2 DEF FindOrBuildDynamicTrace
  <2> HIDE DEF line
  <2>4. {Built(pc, l) : l \in {line}} = {Built(pc, line)}
    BY Zenon
  <2>5. rest = Built(pc, line)
    BY <2>3, <2>4, TheOne
  <2>6. /\ rest.ok = line.ok /\ rest.cache = line.cache
        /\ rest.dynamic = IF line.ok THEN Cached(dynamic, pc, t) ELSE dynamic
    BY <2>5 DEF Built
  <2>7. Good(t, m.mem, what) /\ t.insts = line.insts /\ t.address = pc /\ t.tail = NoPc
    BY <2>2, TraceOfIs
  <2> HIDE DEF rest, t
  <2>8. CASE line.ok
    <3> DEFINE dyn == Cached(dynamic, pc, t)
    <3>1. WithCached(dyn, dynamic, pc, t)
      BY CachedIs
    <3>2. rest.ok = line.ok /\ rest.cache = line.cache /\ rest.dynamic = dyn
      BY <2>6, <2>8
    <3> HIDE DEF dyn
    <3>3. GoodDynamic(dyn, m.mem, what)
      <4>1. ASSUME NEW a \in DOMAIN dyn, a # pc
            PROVE  a \in DOMAIN dynamic /\ dyn[a] = dynamic[a]
        BY <3>1, <4>1 DEF WithCached
      <4>2. dyn[pc] = t
        BY <3>1 DEF WithCached
      <4>3. QED
        BY <2>2, <2>7, <2>8, <4>1, <4>2 DEF GoodDynamic
    <3>4. Follows(rest, m.mem, pc, what)
      BY <2>2, <2>8, <3>1, <3>2, <3>3 DEF Follows, Line, WithCached
    <3>5. QED
      BY <3>4 DEF rest
  <2>9. CASE ~line.ok
    <3>1. Follows(rest, m.mem, pc, what)
      BY <2>2, <2>6, <2>9 DEF Follows, Line
    <3>2. QED
      BY <3>1 DEF rest
  <2>10. QED
    BY <2>8, <2>9
<1>3. QED
  BY <1>1, <1>2

(* What the decoder of the assembly machine makes of a pc.                 *)
MadeFields == {"ok", "trace", "cache", "memo", "dynamic"}
Prepared(made, mem, pc, what) ==
  /\ DOMAIN made = MadeFields
  /\ made.ok \in BOOLEAN /\ CacheIsCurrent(made.cache, mem)
  /\ GoodDynamic(made.dynamic, mem, what) /\ DOMAIN dynamic \subseteq DOMAIN made.dynamic
  /\ GoodMemo(made.memo, made.dynamic, mem, what)
  /\ made.ok => /\ Good(made.trace, mem, what) /\ Points(made.trace, made.dynamic)
                /\ made.trace.address = pc /\ made.trace.insts # <<>>
  /\ ~made.ok => Fails(mem, pc)

LEMMA MemoizeIsPrepared ==
  ASSUME NEW made, NEW mem, NEW pc, NEW what, Prepared(made, mem, pc, what), made.memo = memo
  PROVE  Prepared(Memoize(pc, made), mem, pc, what)
<1> DEFINE mm  == Cached(memo, pc, made.trace)
           new == [made EXCEPT !.memo = mm]
<1>1. CASE made.ok
  <2>1. Memoize(pc, made) = new
    BY <1>1 DEF Memoize
  <2>2. WithCached(mm, memo, pc, made.trace)
    BY CachedIs
  <2> HIDE DEF mm
  <2>3. GoodMemo(mm, made.dynamic, mem, what)
    <3>1. ASSUME NEW a \in DOMAIN mm, a # pc
          PROVE  a \in DOMAIN memo /\ mm[a] = memo[a]
      BY <2>2, <3>1 DEF WithCached
    <3>2. mm[pc] = made.trace
      BY <2>2 DEF WithCached
    <3>3. QED
      BY <1>1, <3>1, <3>2 DEF Prepared, GoodMemo
  <2>4. /\ DOMAIN new = MadeFields /\ new.ok = made.ok /\ new.trace = made.trace /\ new.cache = made.cache
        /\ new.memo = mm /\ new.dynamic = made.dynamic
    BY Zenon DEF Prepared, MadeFields
  <2> HIDE DEF new
  <2>5. Prepared(new, mem, pc, what)
    BY <2>3, <2>4 DEF Prepared
  <2>6. QED
    BY <2>1, <2>5 DEF new
<1>2. CASE ~made.ok
  BY <1>2 DEF Memoize
<1>3. QED
  BY <1>1, <1>2

LEMMA SimpleIsPrepared ==
  ASSUME NEW line, NEW pc, m.mem \in Memory, Line(line, m.mem, pc), line.ok => line.insts # <<>>,
         NEW what, "paired" \in what => ~Doomed(m.mem, pc),
         GoodDynamic(dynamic, m.mem, what), GoodMemo(memo, dynamic, m.mem, what)
  PROVE  Prepared(Simple(pc, line), m.mem, pc, what) /\ Simple(pc, line).memo = memo
<1> DEFINE made == Simple(pc, line)
           t    == TraceOf(pc, line)
<1>1. Good(t, m.mem, what) /\ t.insts = line.insts /\ t.address = pc /\ t.tail = NoPc
  BY TraceOfIs
<1> HIDE DEF t
<1>2. /\ DOMAIN made = MadeFields /\ made.ok = line.ok /\ made.trace = t /\ made.cache = line.cache
      /\ made.memo = memo /\ made.dynamic = dynamic
  BY DEF Simple, MadeFields, t
<1> HIDE DEF made
<1>3. Points(t, dynamic)
  BY <1>1 DEF Points
<1>4. Prepared(made, m.mem, pc, what)
  BY <1>1, <1>2, <1>3 DEF Prepared, Line, Fails
<1>5. QED
  BY <1>2, <1>4 DEF made

(* A fixed trace with the dynamic one that follows it.                     *)
LEMMA JumpIsPrepared ==
  ASSUME NEW line, NEW pc, m.mem \in Memory, Line(line, m.mem, pc), line.ok, ~line.end, line.insts # <<>>,
         NEW what, "paired" \in what => ~Doomed(m.mem, pc), GoodMemo(memo, dynamic, m.mem, what),
         NEW rest, Follows(rest, m.mem, line.at, what)
  PROVE  /\ Prepared(JumpTo(line.at, Simple(pc, line), rest), m.mem, pc, what)
         /\ JumpTo(line.at, Simple(pc, line), rest).memo = memo
<1> DEFINE made == JumpTo(line.at, Simple(pc, line), rest)
           t    == TraceOf(pc, line)
           jump == [t EXCEPT !.tail = line.at]
<1>1. Good(t, m.mem, what) /\ t.insts = line.insts /\ t.address = pc /\ t.length = line.at - pc
  BY TraceOfIs
<1> HIDE DEF t
<1>2. Simple(pc, line) = [ok |-> line.ok, trace |-> t, cache |-> line.cache, memo |-> memo, dynamic |-> dynamic]
  BY DEF Simple, t
<1>3. /\ DOMAIN made = MadeFields /\ made.ok = rest.ok /\ made.trace = jump /\ made.cache = rest.cache
      /\ made.memo = memo /\ made.dynamic = rest.dynamic
  <2>1. /\ DOMAIN Simple(pc, line) = MadeFields
        /\ Simple(pc, line).trace = t /\ Simple(pc, line).memo = memo
    BY <1>2 DEF MadeFields
  <2> DEFINE from == Simple(pc, line)
             at   == line.at
  <2> HIDE DEF from, at
  <2>2. made = [from EXCEPT !.ok = rest.ok, !.trace = [from.trace EXCEPT !.tail = at],
                            !.cache = rest.cache, !.dynamic = rest.dynamic]
    BY DEF JumpTo, from, at
  <2>3. DOMAIN from = MadeFields /\ from.trace = t /\ from.memo = memo
    BY <2>1 DEF from
  <2>4. QED
    BY <2>2, <2>3 DEF MadeFields, at
<1>4. /\ DOMAIN jump = TraceFields /\ jump.address = pc /\ jump.length = t.length /\ jump.cycles = t.cycles
      /\ jump.insts = line.insts /\ jump.tail = line.at
  BY <1>1, Zenon DEF Good, TraceFields
<1> HIDE DEF made, jump
<1>5. pc \in Nat /\ line.at = pc + Length(line.insts) /\ Length(line.insts) \in Nat
  <2>1. Len(line.insts) \in 0 .. Len(line.insts)
    BY DEF Line
  <2>2. QED
    BY <2>1, OffsetTypes DEF Line, Length
<1>6. Good(jump, m.mem, what)
  BY <1>1, <1>4 DEF Good
<1>7. rest.ok => Points(jump, rest.dynamic)
  <2>1. jump.tail = jump.address + jump.length
    BY <1>1, <1>4, <1>5
  <2>2. ~IsBasicBlockEnd(line.insts[Len(line.insts)])
    BY DEF Line
  <2>3. QED
    BY <1>4, <2>1, <2>2 DEF Points, Follows
<1>8. GoodMemo(memo, rest.dynamic, m.mem, what)
  BY PointsStays DEF GoodMemo, Follows
<1>9. ~rest.ok => Fails(m.mem, pc)
  BY DEF Follows, Fails
<1>10. Prepared(made, m.mem, pc, what)
  BY <1>3, <1>4, <1>6, <1>7, <1>8, <1>9 DEF Prepared, Follows
<1>11. QED
  BY <1>3, <1>10 DEF made

(* Only what is made for a pc that is doomed may end in an unpaired LUI.   *)
LEMMA PrepareTracesIs ==
  ASSUME setup \in Setups, m.mem \in Memory, CacheIsCurrent(icache, m.mem), NEW what,
         GoodDynamic(dynamic, m.mem, what), GoodMemo(memo, dynamic, m.mem, what),
         NEW pc, "paired" \in what => ~Doomed(m.mem, pc)
  PROVE  Prepared(PrepareTraces(pc), m.mem, pc, what)
<1> DEFINE made == PrepareTraces(pc)
<1>1. setup.price \in Nat /\ setup.decoder \in {"simple", "memoized", "dynamic"} /\ TraceItemLength \in Nat \ {0}
  BY VmRunAssumption
<1>2. CASE setup.decoder # "simple" /\ pc \in DOMAIN memo
  <2>1. made = [ok |-> TRUE, trace |-> memo[pc], cache |-> icache, memo |-> memo, dynamic |-> dynamic]
    BY <1>2 DEF PrepareTraces
  <2>2. /\ DOMAIN made = MadeFields /\ made.ok = TRUE /\ made.trace = memo[pc] /\ made.cache = icache
        /\ made.memo = memo /\ made.dynamic = dynamic
    BY <2>1 DEF MadeFields
  <2> HIDE DEF made
  <2>3. Prepared(made, m.mem, pc, what)
    BY <1>2, <2>2 DEF Prepared, GoodMemo
  <2>4. QED
    BY <2>3 DEF made
<1>3. CASE ~(setup.decoder # "simple" /\ pc \in DOMAIN memo)
  <2> DEFINE line == DecodeLine(icache, m.mem, pc, TraceItemLength)
             rest == FindOrBuildDynamicTrace(line.cache, line.at)
  <2>1. Line(line, m.mem, pc) /\ (line.ok => line.insts # <<>>)
    BY <1>1, DecodedLine
  <2>2. made = The({Prepare(pc, l) : l \in {line}})
    BY <1>3 DEF PrepareTraces
  <2> HIDE DEF line, rest
  <2>3. {Prepare(pc, l) : l \in {line}} = {Prepare(pc, line)}
    BY Zenon
  <2>4. made = Prepare(pc, line)
    BY <2>2, <2>3, TheOne
  <2> HIDE DEF made
  <2>5. Prepared(Simple(pc, line), m.mem, pc, what) /\ Simple(pc, line).memo = memo
    BY <2>1, SimpleIsPrepared
  <2>6. CASE setup.decoder = "simple"
    <3>1. made = Simple(pc, line)
      BY <2>4, <2>6, Zenon DEF Prepare
    <3>2. QED
      BY <2>5, <3>1 DEF made
  <2>7. CASE setup.decoder = "memoized" \/ (setup.decoder = "dynamic" /\ (~line.ok \/ line.end))
    <3>1. made = Memoize(pc, Simple(pc, line))
      BY <2>4, <2>7, Zenon DEF Prepare
    <3>2. QED
      BY <2>5, <3>1, MemoizeIsPrepared DEF made
  <2>8. CASE setup.decoder = "dynamic" /\ line.ok /\ ~line.end
    <3>1. made = Memoize(pc, JumpTo(line.at, Simple(pc, line), rest))
      BY <2>4, <2>8, Zenon DEF Prepare, rest
    <3>2A. "paired" \in what => ~Doomed(m.mem, line.at)
      <4>1. /\ line.insts \in Seq(Instruction) /\ Straight(line.insts) /\ InMem(m.mem, pc, line.insts)
            /\ pc \in Nat /\ line.at = pc + Length(line.insts) /\ ~IsBasicBlockEnd(line.insts[Len(line.insts)])
        BY <2>1, <2>8 DEF Line
      <4>2. Open(line.insts)
        BY <4>1, StraightIsOpen
      <4>3. QED
        BY <4>1, <4>2, JoinDoomed
    <3>2. Follows(rest, m.mem, line.at, what)
      BY <1>1, <2>1, <3>2A, DynamicFollows DEF rest, Line
    <3>3. /\ Prepared(JumpTo(line.at, Simple(pc, line), rest), m.mem, pc, what)
          /\ JumpTo(line.at, Simple(pc, line), rest).memo = memo
      BY <2>1, <2>8, <3>2, JumpIsPrepared
    <3>4. QED
      BY <3>1, <3>3, MemoizeIsPrepared DEF made
  <2>9. QED
    BY <1>1, <2>6, <2>7, <2>8
<1>4. QED
  BY <1>2, <1>3

(***************************************************************************)
(* The invariant of the run loops                                          *)
(***************************************************************************)

(* The pc of the instruction that is next; an assembly thread has that of  *)
(* the end of its trace.                                                   *)
SeenPc == IF setup.engine = "asm" THEN m.pc - Length(left) ELSE m.pc

(* A machine that can only fail, or has: no code can be loaded any more.   *)
Dead == phase = "idle" /\ m.err \in {"Error", "InvalidVersion", "CyclesOverflow"}
Lost == Doomed(m.mem, Mask(SeenPc)) \/ Dead

(* What traces are: current unless the machine was reset, and such that no *)
(* code loaded later changes them as long as the machine may load any.     *)
What(reset, lost) == IF reset THEN {} ELSE IF lost THEN {"current"} ELSE Both
Steady == What(m.reset, Lost)

MachineInv ==
  /\ setup \in Setups /\ Typed(m)
  /\ DOMAIN icache = 0 .. CacheSize - 1 /\ (~m.reset => CacheIsCurrent(icache, m.mem))

TracesInv ==
  /\ GoodTraces(traces, memo, dynamic, m.mem, Steady)
  /\ setup.engine # "asm" => memo = NoTraces /\ dynamic = NoTraces
  /\ Interprets => traces = EmptyTraces

(* Traces run on the machines that have them, one after another, and never *)
(* those of a program that was replaced.                                   *)
ControlInv ==
  /\ left \in Seq(Instruction) /\ Straight(left) /\ (left # <<>> => phase = "thread")
  /\ phase \in {"new", "idle", "head", "pausing", "enter", "prepare", "thread"}
  /\ phase \in {"enter", "prepare"} => setup.engine = "asm"
  /\ phase = "thread" => setup.engine \in {"trace", "asm"}
  /\ phase \in {"enter", "prepare", "thread"} => ~m.reset
  /\ phase = "thread" /\ setup.engine = "trace" => left # <<>>
  /\ phase = "thread" /\ setup.engine = "asm" /\ tail # NoPc => tail \in DOMAIN dynamic

(* What is left of a trace is in memory where the machine is, and what     *)
(* follows it there is what it jumps to.                                   *)
ThreadInv ==
  phase = "thread" =>
    /\ InMem(m.mem, Mask(SeenPc), left)
    /\ setup.engine = "asm" /\ tail # NoPc =>
         /\ tail = Mask(SeenPc) + Length(left)
         /\ left # <<>> => ~IsBasicBlockEnd(left[Len(left)])

TraceInv == MachineInv /\ TracesInv /\ ControlInv /\ ThreadInv

LEMMA SetupTypes ==
  ASSUME setup \in Setups
  PROVE  /\ setup.engine \in {"interpreter", "trace", "asm"} /\ setup.price \in Nat /\ setup.mop \in BOOLEAN
         /\ setup.image \in DOMAIN Images
  BY VmRunAssumption

LEMMA NoInsts == <<>> \in Seq(Instruction) /\ Straight(<<>>)
  BY DEF Straight

LEMMA TraceInit == Init => TraceInv
<1> SUFFICES ASSUME Init PROVE TraceInv
  OBVIOUS
<1>1. m = [mem |-> Images[setup.image], pc |-> 0, acc |-> 0, cycles |-> 0, max |-> FirstLimit,
           running |-> FALSE, reset |-> FALSE, err |-> "none"]
  BY DEF Init
<1>2. DOMAIN m = Fields /\ m.mem = Images[setup.image] /\ m.reset = FALSE
  BY <1>1, Zenon DEF Fields
<1>3. setup \in Setups
  BY DEF Init
<1>4. CacheIsCurrent(icache, m.mem)
  BY EmptyCacheIsCurrent DEF Init
<1>5. MachineInv
  BY <1>2, <1>3, <1>4, SetupTypes, GuestCodeAssumption DEF MachineInv, Typed, CacheIsCurrent
<1>6. TracesInv
  BY <1>3, SetupTypes, NoneAreGood DEF Init, TracesInv
<1>7. ControlInv
  BY NoInsts DEF Init, ControlInv
<1>8. ThreadInv
  BY DEF Init, ThreadInv
<1>9. QED
  BY <1>5, <1>6, <1>7, <1>8 DEF TraceInv

LEMMA PrimedTraces ==
  ASSUME setup' = setup, GoodTraces(traces', memo', dynamic', m'.mem, Steady'),
         setup.engine # "asm" => memo' = NoTraces /\ dynamic' = NoTraces,
         Interprets => traces' = EmptyTraces
  PROVE  TracesInv'
<1>0. GoodFixed(traces', dynamic', m'.mem, Steady') /\ GoodMemo(memo', dynamic', m'.mem, Steady')
      /\ GoodDynamic(dynamic', m'.mem, Steady')
  BY DEF GoodTraces
<1>1. GoodFixed(traces, dynamic, m.mem, Steady)'
  BY <1>0, SMTT(40) DEF GoodFixed, Good, InMem, InstAt, Paired, Unpaired
<1>2. GoodMemo(memo, dynamic, m.mem, Steady)'
  BY <1>0, SMTT(40) DEF GoodMemo, Good, InMem, InstAt, Paired, Unpaired
<1>3. GoodDynamic(dynamic, m.mem, Steady)'
  BY <1>0, SMTT(40) DEF GoodDynamic, Good, InMem, InstAt, Paired, Unpaired
<1>4. QED
  BY <1>1, <1>2, <1>3 DEF TracesInv, GoodTraces, Interprets

(* What may be lost is never found again, but by a reset.                  *)
LostStays ==
  ~m'.reset => /\ ~m.reset /\ (Lost => Lost')
               /\ SameDecodes(m.mem, m'.mem) \/ (SameFetched(m.mem, m'.mem) /\ ~Lost)

LEMMA SteadyCarries ==
  ASSUME LostStays
  PROVE  Carries(m.mem, m'.mem, Steady, Steady')
<1>1. Steady' = What(m'.reset, Lost')
  BY DEF Steady, What
<1>2. QED
  BY <1>1 DEF LostStays, Steady, What, Both, Carries

(* A step that changes no traces.                                          *)
LEMMA TracesStay ==
  ASSUME MachineInv, TracesInv, setup' = setup, UNCHANGED <<traces, memo, dynamic>>, m'.mem \in Memory, LostStays
  PROVE  TracesInv'
<1>1. GoodTraces(traces, memo, dynamic, m'.mem, Steady')
  BY SteadyCarries, GoodTracesStay DEF MachineInv, Typed, TracesInv
<1>2. QED
  BY <1>1, PrimedTraces DEF TracesInv

(* A step of a machine that was not reset.                                 *)
LEMMA KeptTraces ==
  ASSUME MachineInv, TracesInv, setup' = setup, ~m.reset, Keeps(m, m'), UNCHANGED decoderVars, LostStays
  PROVE  MachineInv' /\ TracesInv'
<1>1. Typed(m) /\ Typed(m') /\ (~m'.reset => SameFetched(m.mem, m'.mem))
  BY DEF MachineInv, Keeps
<1>2. ~m'.reset => CacheIsCurrent(icache, m'.mem)
  BY <1>1, SameFetchedKeepsCache DEF MachineInv, Typed
<1>3. MachineInv'
  BY <1>1, <1>2 DEF MachineInv, decoderVars, CacheIsCurrent, Typed
<1>4. TracesInv'
  BY <1>1, TracesStay DEF decoderVars, Typed
<1>5. QED
  BY <1>3, <1>4

(* Where the machine is does not change.                                   *)
LEMMA PlaceStays ==
  ASSUME setup' = setup, m'.mem = m.mem, SeenPc' = SeenPc
  PROVE  Mask(SeenPc)' = Mask(SeenPc) /\ (Doomed(m.mem, Mask(SeenPc)) <=> Doomed(m.mem, Mask(SeenPc))')
<1>1. Mask(SeenPc)' = Mask(SeenPc)
  BY DEF Mask
<1>2. Doomed(m.mem, Mask(SeenPc)) <=> Doomed(m.mem, Mask(SeenPc))'
  BY <1>1 DEF Doomed, InMem, InstAt
<1>3. QED
  BY <1>1, <1>2

LEMMA SamePlace ==
  ASSUME setup' = setup, m'.mem = m.mem, m'.pc = m.pc, left' = left
  PROVE  Mask(SeenPc)' = Mask(SeenPc) /\ (Doomed(m.mem, Mask(SeenPc)) <=> Doomed(m.mem, Mask(SeenPc))')
<1>1. SeenPc' = SeenPc
  BY DEF SeenPc
<1>2. QED
  BY <1>1, PlaceStays

(* Steps that leave the machine's memory, its place, its reset signal and  *)
(* the decoder alone.                                                      *)
LEMMA SamePlaceTraces ==
  ASSUME MachineInv, TracesInv, setup' = setup, DOMAIN m' = Fields, m'.mem = m.mem, SeenPc' = SeenPc,
         m'.reset = m.reset, UNCHANGED decoderVars, Dead => Dead'
  PROVE  MachineInv' /\ TracesInv'
<1>1. MachineInv'
  BY DEF MachineInv, decoderVars, CacheIsCurrent, Typed
<1>2. LostStays
  BY SameIsSame, PlaceStays DEF Lost, LostStays
<1>3. QED
  BY <1>1, <1>2, TracesStay DEF decoderVars, MachineInv, Typed

LEMMA SameMachineTraces ==
  ASSUME MachineInv, TracesInv, setup' = setup, DOMAIN m' = Fields, m'.mem = m.mem, m'.pc = m.pc,
         m'.reset = m.reset, left' = left, UNCHANGED decoderVars, Dead => Dead'
  PROVE  MachineInv' /\ TracesInv'
<1>1. SeenPc' = SeenPc
  BY DEF SeenPc
<1>2. QED
  BY <1>1, SamePlaceTraces

LEMMA SameThread ==
  ASSUME ThreadInv, setup' = setup, m'.mem = m.mem, m'.pc = m.pc, UNCHANGED <<left, tail>>,
         phase' = "thread" => phase = "thread"
  PROVE  ThreadInv'
<1>1. Mask(SeenPc)' = Mask(SeenPc)
  BY SamePlace
<1>2. QED
  BY <1>1 DEF ThreadInv, InMem, InstAt

LEMMA StraightTail ==
  ASSUME NEW insts \in Seq(Instruction), insts # <<>>, Straight(insts)
  PROVE  /\ Head(insts) \in Instruction /\ Tail(insts) \in Seq(Instruction) /\ Straight(Tail(insts))
         /\ Tail(insts) # <<>> => ~IsBasicBlockEnd(Head(insts))
<1> DEFINE rest == Tail(insts)
<1>1. /\ Head(insts) \in Instruction /\ Head(insts) = insts[1] /\ rest \in Seq(Instruction)
      /\ Len(insts) \in Nat \ {0} /\ Len(rest) = Len(insts) - 1
      /\ \A k \in 1 .. Len(insts) - 1 : rest[k] = insts[k + 1]
  BY TailOffsets
<1>2. rest # <<>> => Len(rest) # 0
  BY <1>1
<1> HIDE DEF rest
<1>3. ASSUME NEW k \in 1 .. Len(rest) - 1 PROVE ~IsBasicBlockEnd(rest[k])
  <2>1. k \in 1 .. Len(insts) - 1 /\ k + 1 \in 1 .. Len(insts) - 1
    BY <1>1
  <2>2. QED
    BY <1>1, <2>1 DEF Straight
<1>4. ASSUME rest # <<>> PROVE ~IsBasicBlockEnd(insts[1])
  <2>1. 1 \in 1 .. Len(insts) - 1
    BY <1>1, <1>2, <1>4
  <2>2. QED
    BY <2>1 DEF Straight
<1>5. QED
  BY <1>1, <1>3, <1>4 DEF Straight, rest

(* Only a system call stops or resets the machine, and it ends a block.    *)
LEMMA ExecuteStays ==
  ASSUME NEW x, DOMAIN x = Fields, NEW i, i.op \notin Ecalls, NEW o
  PROVE  Execute(x, i, o).reset = x.reset /\ Execute(x, i, o).running = x.running
<1> DEFINE next == [x EXCEPT !.pc = @ + i.len]
<1>1. DOMAIN next = Fields /\ next.reset = x.reset /\ next.running = x.running
  BY Zenon DEF Fields
<1> HIDE DEF next
<1>2. \/ i.op \in Computing /\ Execute(x, i, o) = Compute(next, i)
      \/ Execute(x, i, o) = Store(next, i.arg)
      \/ Execute(x, i, o) = Failed(next)
      \/ Execute(x, i, o) = [x EXCEPT !.pc = Target(x, i)]
  BY Zenon DEF Execute, next, Computing, Ecalls, Jumps
<1>3. i.op \in Computing => Compute(next, i).reset = next.reset /\ Compute(next, i).running = next.running
  BY <1>1, Zenon DEF Compute, Accumulate, Computing, Fields
<1>4. Store(next, i.arg).reset = next.reset /\ Store(next, i.arg).running = next.running
  BY <1>1, Zenon DEF Store, Failed, Fields
<1>5. Failed(next).reset = next.reset /\ Failed(next).running = next.running
  BY <1>1, Zenon DEF Failed, Fields
<1>6. [x EXCEPT !.pc = Target(x, i)].reset = x.reset /\ [x EXCEPT !.pc = Target(x, i)].running = x.running
  BY Zenon DEF Fields
<1>7. QED
  BY <1>1, <1>2, <1>3, <1>4, <1>5, <1>6, Zenon

LEMMA PayAndExecuteStays ==
  ASSUME NEW x, DOMAIN x = Fields, NEW i, i.op \notin Ecalls
  PROVE  PayAndExecute(x, i).reset = x.reset /\ PayAndExecute(x, i).running = x.running
<1>1. DOMAIN Paid(x, i) = Fields /\ Paid(x, i).reset = x.reset /\ Paid(x, i).running = x.running
  BY Zenon DEF Paid, AddCycles, Fields
<1>2. QED
  BY <1>1, ExecuteStays DEF PayAndExecute

LEMMA CallEndsBlock ==
  ASSUME NEW i, ~IsBasicBlockEnd(i)
  PROVE  i.op \notin Ecalls /\ i.op \notin Jumps
  BY DEF IsBasicBlockEnd, BlockEnds

(***************************************************************************)
(* The steps                                                               *)
(***************************************************************************)
LEMMA TakeDecoderKeeps ==
  ASSUME TraceInv, setup' = setup, DOMAIN m' = Fields, m'.mem = m.mem, m'.pc = m.pc, m'.reset = m.reset,
         left' = left, ~Dead, NEW new \in BOOLEAN, TakeDecoder(new)
  PROVE  MachineInv' /\ TracesInv'
<1>1. CASE ~new
  <2>1. UNCHANGED decoderVars
    BY <1>1, Zenon DEF TakeDecoder
  <2>2. QED
    BY <2>1, SameMachineTraces DEF TraceInv
<1>2. ASSUME icache' = EmptyCache PROVE MachineInv'
  BY <1>2, EmptyCacheIsCurrent DEF TraceInv, MachineInv, Typed, CacheIsCurrent
<1>3. CASE new /\ setup.engine = "asm"
  <2>1. icache' = EmptyCache /\ traces' = EmptyTraces /\ memo' = NoTraces /\ dynamic' = NoTraces
    BY <1>3, Zenon DEF TakeDecoder
  <2>2. TracesInv'
    BY <2>1, NoneAreGood, SetupTypes, PrimedTraces DEF TraceInv, MachineInv
  <2>3. QED
    BY <1>2, <2>1, <2>2
<1>4. CASE new /\ setup.engine # "asm"
  <2>1. icache' = EmptyCache /\ UNCHANGED <<traces, memo, dynamic>>
    BY <1>4, Zenon DEF TakeDecoder
  <2>2. LostStays
    BY SameIsSame, SamePlace DEF Lost, LostStays
  <2>3. QED
    BY <1>2, <2>1, <2>2, TracesStay DEF TraceInv, MachineInv, Typed
<1>5. QED
  BY <1>1, <1>3, <1>4

LEMMA RunKeepsTraces ==
  ASSUME TraceInv, phase \in {"new", "idle"}, ~Dead, UNCHANGED <<setup, left, tail>>,
         NEW x, DOMAIN x = Fields, x.mem = m.mem, x.pc = m.pc, x.reset = m.reset, Run(x)
  PROVE  TraceInv'
<1>1. DOMAIN m' = Fields /\ m'.mem = m.mem /\ m'.pc = m.pc /\ m'.reset = m.reset
  BY Zenon DEF Run, Fields
<1>2. phase' \in {"idle", "head"}
  BY DEF Run
<1>3. UNCHANGED decoderVars \/ \E new \in BOOLEAN : TakeDecoder(new)
  BY DEF Run
<1>4. MachineInv' /\ TracesInv'
  BY <1>1, <1>3, SameMachineTraces, TakeDecoderKeeps DEF TraceInv
<1>5. left = <<>>
  BY DEF TraceInv, ControlInv
<1>6. ControlInv'
  BY <1>2, <1>5, NoInsts DEF ControlInv, Straight
<1>7. ThreadInv'
  BY <1>2 DEF ThreadInv
<1>8. QED
  BY <1>4, <1>6, <1>7 DEF TraceInv

LEMMA StartKeepsTraces ==
  ASSUME TraceInv, Start
  PROVE  TraceInv'
<1>1. /\ UNCHANGED <<setup, left, tail>> /\ phase \in {"new", "idle"} /\ DOMAIN m = Fields
      /\ ~Dead
  BY DEF Start, TraceInv, MachineInv, Typed, Dead
<1>2. CASE Run(m)
  BY <1>1, <1>2, RunKeepsTraces
<1>3. ASSUME NEW limit \in Limits, Run([m EXCEPT !.max = limit])
      PROVE  TraceInv'
  <2>1. /\ DOMAIN [m EXCEPT !.max = limit] = Fields
        /\ [m EXCEPT !.max = limit].mem = m.mem /\ [m EXCEPT !.max = limit].pc = m.pc
        /\ [m EXCEPT !.max = limit].reset = m.reset
    BY <1>1, Zenon DEF Fields
  <2>2. QED
    BY <1>1, <1>3, <2>1, RunKeepsTraces, Zenon
<1>4. QED
  BY <1>2, <1>3, Zenon DEF Start

(* Steps that only look: at the pause byte, or that the machine has ended. *)
LEMMA LookKeepsTraces ==
  ASSUME TraceInv, Interrupt \/ Pausing \/ Finish \/ SeeInterrupt
  PROVE  TraceInv'
<1>1. /\ UNCHANGED <<setup, left, tail>> /\ UNCHANGED decoderVars
      /\ DOMAIN m' = Fields /\ m'.mem = m.mem /\ m'.pc = m.pc /\ m'.reset = m.reset
  <2>1. DOMAIN m = Fields
    BY DEF TraceInv, MachineInv, Typed
  <2>2. m' = m \/ m' = [m EXCEPT !.err = "Pause"]
    BY DEF Interrupt, Pausing, Finish, SeeInterrupt
  <2>3. DOMAIN m' = Fields /\ m'.mem = m.mem /\ m'.pc = m.pc /\ m'.reset = m.reset
    BY <2>1, <2>2, Zenon DEF Fields
  <2>4. QED
    BY <2>3 DEF Interrupt, Pausing, Finish, SeeInterrupt, decoderVars
<1>2. Dead => Dead'
  BY DEF Interrupt, Pausing, Finish, SeeInterrupt, Dead
<1>3. MachineInv' /\ TracesInv'
  BY <1>1, <1>2, SameMachineTraces DEF TraceInv
<1>4. phase' = phase \/ (phase # "thread" /\ phase' \in {"idle", "pausing"})
  BY DEF Interrupt, Pausing, Finish, SeeInterrupt
<1>5. ControlInv'
  BY <1>1, <1>4 DEF TraceInv, ControlInv, Straight, decoderVars, IsBasicBlockEnd
<1>6. ThreadInv'
  BY <1>1, <1>4, SameThread DEF TraceInv
<1>7. QED
  BY <1>3, <1>5, <1>6 DEF TraceInv

LEMMA InterpreterStepKeepsTraces ==
  ASSUME TraceInv, InterpreterStep
  PROVE  TraceInv'
<1>1. /\ Interprets /\ UNCHANGED <<setup, traces, memo, dynamic, left, tail>>
      /\ phase = "head" /\ phase' \in {"head", "idle"}
  BY DEF InterpreterStep, Proceeds, Interprets
<1>2. InterpreterInv
  BY <1>1 DEF TraceInv, MachineInv, TracesInv, InterpreterInv, Interprets
<1>3. InterpreterInv'
  BY <1>1, <1>2, InterpreterStepKeeps
<1>4. MachineInv'
  BY <1>1, <1>3 DEF TraceInv, MachineInv, InterpreterInv
<1>5. /\ traces' = EmptyTraces /\ memo' = NoTraces /\ dynamic' = NoTraces
  BY <1>3 DEF InterpreterInv
<1>6. TracesInv'
  BY <1>1, <1>5, NoneAreGood, SetupTypes, PrimedTraces DEF TraceInv, MachineInv
<1>7. left = <<>>
  BY <1>1 DEF TraceInv, ControlInv
<1>8. ControlInv'
  BY <1>1, <1>7, NoInsts DEF ControlInv, Straight
<1>9. ThreadInv'
  BY <1>1 DEF ThreadInv
<1>10. QED
  BY <1>4, <1>6, <1>8, <1>9 DEF TraceInv

(* What the loops look at has been emptied if the machine was reset.       *)
KeptOf(t) == IF m.reset THEN ResetTraces(t) ELSE t

LEMMA FreshIsGood ==
  ASSUME TraceInv
  PROVE  /\ CacheIsCurrent(FreshCache, m.mem)
         /\ Typed(AfterReset) /\ AfterReset.mem = m.mem /\ ~AfterReset.reset /\ AfterReset.pc = m.pc
         /\ GoodFixed(KeptOf(traces), dynamic, m.mem, What(FALSE, Lost))
<1>1. Typed(AfterReset) /\ AfterReset.mem = m.mem /\ AfterReset.reset = FALSE /\ AfterReset.pc = m.pc
  BY Zenon DEF TraceInv, MachineInv, AfterReset, Typed, Fields
<1>2. CacheIsCurrent(FreshCache, m.mem)
  BY EmptyCacheIsCurrent DEF TraceInv, MachineInv, FreshCache
<1>3. CASE m.reset
  <2>1. GoodTraces(EmptyTraces, NoTraces, NoTraces, m.mem, What(FALSE, Lost))
    BY NoneAreGood, SetupTypes DEF TraceInv, MachineInv
  <2>2. KeptOf(traces) = EmptyTraces
    BY <1>3 DEF KeptOf, ResetTraces
  <2>3. GoodFixed(KeptOf(traces), dynamic, m.mem, What(FALSE, Lost))
    <3>1. GoodFixed(EmptyTraces, NoTraces, m.mem, What(FALSE, Lost))
      BY <2>1 DEF GoodTraces
    <3>2. DOMAIN NoTraces \subseteq DOMAIN dynamic
      BY DEF NoTraces
    <3>3. QED
      BY <2>2, <3>1, <3>2, PointsStays DEF GoodFixed
  <2>4. QED
    BY <1>1, <1>2, <2>3
<1>4. CASE ~m.reset
  <2>1. KeptOf(traces) = traces
    BY <1>4 DEF KeptOf
  <2>2. What(FALSE, Lost) = Steady
    BY <1>4 DEF Steady, What
  <2>3. QED
    BY <1>1, <1>2, <2>1, <2>2 DEF TraceInv, TracesInv, GoodTraces
<1>5. QED
  BY <1>3, <1>4

LEMMA SlotTypes == ASSUME NEW pc \in Int PROVE CalculateSlot(pc) \in 0 .. TraceSize - 1
<1>1. TraceSize \in Nat \ {0}
  BY VmRunAssumption
<1>2. pc \div 2 \in Int
  OBVIOUS
<1>3. \A n \in Int : n % TraceSize \in 0 .. TraceSize - 1
  BY <1>1
<1>4. QED
  BY <1>2, <1>3 DEF CalculateSlot

(* One slot is given another trace.                                        *)
LEMMA SetSlotIsGood ==
  ASSUME NEW tr, NEW dyn, NEW mem, NEW what, GoodFixed(tr, dyn, mem, what),
         NEW slot, NEW t, Good(t, mem, what), Points(t, dyn)
  PROVE  GoodFixed([tr EXCEPT ![slot] = t], dyn, mem, what)
<1> DEFINE new == [tr EXCEPT ![slot] = t]
<1>1. DOMAIN new = DOMAIN tr /\ \A s \in DOMAIN tr : new[s] = t \/ new[s] = tr[s]
  BY Zenon
<1> HIDE DEF new
<1>2. GoodFixed(new, dyn, mem, what)
  BY <1>1 DEF GoodFixed
<1>3. QED
  BY <1>2 DEF new

LEMMA FewerAreGood ==
  ASSUME NEW mem, NEW what, NEW still, still \subseteq what, NEW tr, NEW mm, NEW dyn
  PROVE  /\ GoodFixed(tr, dyn, mem, what) => GoodFixed(tr, dyn, mem, still)
         /\ GoodMemo(mm, dyn, mem, what) => GoodMemo(mm, dyn, mem, still)
         /\ GoodDynamic(dyn, mem, what) => GoodDynamic(dyn, mem, still)
<1>1. \A t : Good(t, mem, what) => Good(t, mem, still)
  BY DEF Good
<1>2. QED
  BY <1>1 DEF GoodFixed, GoodMemo, GoodDynamic

(* Where a line lies, all bits of an address are low ones.                 *)
LEMMA LineAddress ==
  ASSUME NEW mem \in Memory, NEW pc \in Int, NEW insts \in Seq(Instruction), insts # <<>>, InMem(mem, pc, insts)
  PROVE  pc \in Nat /\ Mask(pc) = pc
<1>1. Decodable(mem, pc) /\ pc \in Nat
  BY TailInMem
<1>2. pc <= MemorySize
  BY <1>1, WhatIsDecodable, GuestCodeAssumption DEF Addr
<1>3. QED
  BY <1>1, <1>2, MaskOfAddr

LEMMA TraceHeadKeepsTraces ==
  ASSUME TraceInv, m.pc \in Int, TraceHead
  PROVE  TraceInv'
<1> DEFINE kept == KeptOf(traces)
           slot == CalculateSlot(m.pc)
           steady == Steady'
<1>1. /\ UNCHANGED <<setup, memo, dynamic, pause, tail>> /\ setup.engine = "trace"
      /\ memo = NoTraces /\ dynamic = NoTraces /\ phase = "head"
  BY DEF TraceHead, TraceInv, TracesInv, Proceeds
<1>2. /\ CacheIsCurrent(FreshCache, m.mem) /\ Typed(AfterReset) /\ AfterReset.mem = m.mem /\ ~AfterReset.reset
      /\ AfterReset.pc = m.pc
      /\ GoodFixed(kept, dynamic, m.mem, What(FALSE, Lost))
  BY FreshIsGood
<1>3. slot \in DOMAIN kept
  BY <1>2, SlotTypes DEF GoodFixed
<1>4. \/ /\ traces' = kept /\ icache' = FreshCache
         /\ left' = kept[slot].insts /\ phase' = "thread" /\ m' = AfterReset /\ TraceHit(kept[slot], m.pc)
      \/ \E line \in {DecodeLine(FreshCache, m.mem, m.pc, TraceItemLength)} :
           /\ icache' = line.cache
           /\ \/ /\ line.ok /\ traces' = [kept EXCEPT ![slot] = TraceOf(m.pc, line)]
                 /\ left' = line.insts /\ phase' = "thread" /\ m' = AfterReset
              \/ /\ ~line.ok /\ traces' = [kept EXCEPT ![slot] = DefaultTrace]
                 /\ left' = <<>> /\ phase' = "idle" /\ m' = Failed(AfterReset)
  BY DEF TraceHead, KeptOf
<1>5. /\ DOMAIN m' = Fields /\ m'.mem = m.mem /\ m'.reset = FALSE /\ m'.pc = m.pc
  <2>1. DOMAIN AfterReset = Fields /\ AfterReset.reset = FALSE
    BY Zenon DEF TraceInv, MachineInv, Typed, AfterReset, Fields
  <2>2. m' = AfterReset \/ m' = [AfterReset EXCEPT !.err = "Error"]
    BY <1>4 DEF Failed
  <2>3. QED
    BY <1>2, <2>1, <2>2, Zenon DEF Fields
<1> HIDE DEF kept, slot
<1>6. /\ SeenPc = m.pc /\ Mask(SeenPc)' = Mask(m.pc)
      /\ Doomed(m.mem, Mask(m.pc)) <=> Doomed(m.mem, Mask(SeenPc))'
  <2>1. SeenPc = m.pc /\ SeenPc' = SeenPc
    BY <1>1, <1>5 DEF SeenPc
  <2>2. QED
    BY <1>1, <1>5, <2>1, PlaceStays
<1>7. steady = What(FALSE, Lost') /\ (Lost => Lost')
  BY <1>1, <1>5, <1>6 DEF Steady, What, Lost, Dead
<1> HIDE DEF steady
<1>8. steady \subseteq What(FALSE, Lost) /\ ("paired" \in steady => ~Doomed(m.mem, Mask(m.pc)))
  BY <1>6, <1>7 DEF What, Both, Lost
<1>9. GoodFixed(kept, dynamic, m.mem, steady)
  BY <1>2, <1>8, FewerAreGood
<1>10. ASSUME CacheIsCurrent(icache', m.mem), GoodFixed(traces', dynamic, m.mem, steady),
              left' \in Seq(Instruction), Straight(left'),
              \/ phase' = "thread" /\ left' # <<>> /\ InMem(m.mem, Mask(m.pc), left')
              \/ phase' = "idle" /\ left' = <<>>
       PROVE  TraceInv'
  <2>1. MachineInv'
    BY <1>1, <1>2, <1>5, <1>10 DEF TraceInv, MachineInv, Typed, CacheIsCurrent
  <2>2. GoodTraces(traces', memo', dynamic', m'.mem, steady)
    <3>1. GoodTraces(EmptyTraces, NoTraces, NoTraces, m.mem, steady)
      BY NoneAreGood, SetupTypes DEF TraceInv, MachineInv
    <3>2. QED
      BY <1>1, <1>5, <1>10, <3>1 DEF GoodTraces
  <2>3. TracesInv'
    BY <1>1, <2>2, PrimedTraces DEF Interprets, steady
  <2>4. ControlInv'
    BY <1>1, <1>5, <1>10 DEF ControlInv, Straight
  <2>5. ThreadInv'
    BY <1>1, <1>5, <1>6, <1>10 DEF ThreadInv, InMem, InstAt
  <2>6. QED
    BY <2>1, <2>3, <2>4, <2>5 DEF TraceInv
<1>11. CASE /\ traces' = kept /\ icache' = FreshCache
            /\ left' = kept[slot].insts /\ phase' = "thread" /\ m' = AfterReset /\ TraceHit(kept[slot], m.pc)
  <2>1. /\ kept[slot].insts \in Seq(Instruction) /\ Straight(kept[slot].insts) /\ kept[slot].insts # <<>>
        /\ InMem(m.mem, kept[slot].address, kept[slot].insts)
        /\ kept[slot].address = Mask(m.pc)
    <3>1. Good(kept[slot], m.mem, What(FALSE, Lost)) /\ "current" \in What(FALSE, Lost)
      BY <1>2, <1>3 DEF GoodFixed, What, Both
    <3>2. kept[slot].insts # <<>> /\ kept[slot].address = Mask(m.pc)
      BY <1>1, <1>11 DEF TraceHit, Mask
    <3>3. QED
      BY <3>1, <3>2 DEF Good
  <2>2. QED
    BY <1>2, <1>9, <1>10, <1>11, <2>1
<1>12. ASSUME NEW line \in {DecodeLine(FreshCache, m.mem, m.pc, TraceItemLength)},
              /\ icache' = line.cache
              /\ \/ /\ line.ok /\ traces' = [kept EXCEPT ![slot] = TraceOf(m.pc, line)]
                    /\ left' = line.insts /\ phase' = "thread" /\ m' = AfterReset
                 \/ /\ ~line.ok /\ traces' = [kept EXCEPT ![slot] = DefaultTrace]
                    /\ left' = <<>> /\ phase' = "idle" /\ m' = Failed(AfterReset)
      PROVE  TraceInv'
  <2>1. setup.price \in Nat /\ m.mem \in Memory /\ TraceItemLength \in Nat \ {0}
    BY SetupTypes, VmRunAssumption DEF TraceInv, MachineInv, Typed
  <2>2. Line(line, m.mem, m.pc) /\ (line.ok => line.insts # <<>>)
    BY <1>2, <2>1, DecodedLine
  <2>3. CASE line.ok
    <3>1. /\ line.insts \in Seq(Instruction) /\ Straight(line.insts) /\ left' = line.insts /\ line.insts # <<>>
          /\ InMem(m.mem, m.pc, line.insts) /\ CacheIsCurrent(line.cache, m.mem)
      BY <1>12, <2>2, <2>3 DEF Line
    <3>2. Mask(m.pc) = m.pc
      BY <2>1, <3>1, LineAddress
    <3>3. Good(TraceOf(m.pc, line), m.mem, steady) /\ Points(TraceOf(m.pc, line), dynamic)
      BY <1>8, <2>1, <2>2, <3>2, TraceOfIs DEF Points
    <3>4. GoodFixed([kept EXCEPT ![slot] = TraceOf(m.pc, line)], dynamic, m.mem, steady)
      BY <1>9, <3>3, SetSlotIsGood
    <3>5. QED
      BY <1>10, <1>12, <2>3, <3>1, <3>2, <3>4
  <2>4. CASE ~line.ok
    <3>1. Good(DefaultTrace, m.mem, steady) /\ Points(DefaultTrace, dynamic)
      BY <2>1, DefaultIsGood
    <3>2. GoodFixed([kept EXCEPT ![slot] = DefaultTrace], dynamic, m.mem, steady)
      BY <1>9, <3>1, SetSlotIsGood
    <3>3. QED
      BY <1>10, <1>12, <2>2, <2>4, <3>2, NoInsts DEF Line
  <2>5. QED
    BY <2>3, <2>4
<1>13. QED
  BY <1>4, <1>11, <1>12

(* The thread that is next is the instruction in memory where the machine  *)
(* is, and one of a machine that is lost calls nothing.                    *)
NextThread(i, a) ==
  /\ a \in Nat /\ Decodable(m.mem, a) /\ i = InstAt(m.mem, a) /\ i \in Instruction /\ i.len \in Nat
  /\ InMem(m.mem, a + i.len, Tail(left)) /\ Mask(SeenPc + i.len) = a + i.len
  /\ Lost => ~IsBasicBlockEnd(i) /\ Doomed(m.mem, a + i.len)

LEMMA ThreadIs ==
  ASSUME TraceInv, m.pc \in Int, phase = "thread", left # <<>>
  PROVE  SeenPc \in Int /\ NextThread(Head(left), Mask(SeenPc))
<1> DEFINE a == Mask(SeenPc)
           i == Head(left)
<1>1. m.mem \in Memory /\ left \in Seq(Instruction) /\ InMem(m.mem, a, left)
  BY DEF TraceInv, MachineInv, Typed, ControlInv, ThreadInv
<1>2. SeenPc \in Int
  <2>1. Length(left) \in Nat
    BY <1>1, LengthTypes
  <2>2. QED
    BY <2>1 DEF SeenPc
<1>3. a \in Int
  BY <1>2, MaskTypes
<1> HIDE DEF a, i
<1>4. a \in Nat /\ Decodable(m.mem, a) /\ i = InstAt(m.mem, a) /\ InMem(m.mem, a + i.len, Tail(left))
  BY <1>1, <1>3, TailInMem DEF i
<1>5. i \in Instruction /\ i.len \in Nat /\ a + i.len <= MemorySize
  BY <1>1, <1>4, InstEnds
<1>6. Mask(SeenPc + i.len) = a + i.len
  BY <1>2, <1>5, MaskMoves DEF a
<1>7. Lost => Doomed(m.mem, a)
  BY DEF Lost, Dead, a
<1>8. Lost => ~IsBasicBlockEnd(i) /\ Doomed(m.mem, a + i.len)
  BY <1>1, <1>3, <1>4, <1>7, TailDoomed
<1>9. QED
  BY <1>2, <1>4, <1>5, <1>6, <1>8 DEF NextThread, a, i

(* Nothing but a jump or a call leaves the straight line.                  *)
LEMMA PlainExecute ==
  ASSUME NEW x, DOMAIN x = Fields, NEW i, i.op \notin Ecalls, i.op \notin Jumps, NEW o
  PROVE  Execute(x, i, o).pc = x.pc + i.len /\ Execute(x, i, o).err \in {x.err, "Error"}
<1> DEFINE next == [x EXCEPT !.pc = @ + i.len]
<1>1. DOMAIN next = Fields /\ next.pc = x.pc + i.len /\ next.err = x.err
  BY Zenon DEF Fields
<1> HIDE DEF next
<1>2. \/ i.op \in Computing /\ Execute(x, i, o) = Compute(next, i)
      \/ Execute(x, i, o) = Store(next, i.arg)
      \/ Execute(x, i, o) = Failed(next)
  BY Zenon DEF Execute, next, Computing, Ecalls, Jumps
<1>3. i.op \in Computing => Compute(next, i).pc = next.pc /\ Compute(next, i).err = next.err
  BY <1>1, Zenon DEF Compute, Accumulate, Computing, Fields
<1>4. Store(next, i.arg).pc = next.pc /\ Store(next, i.arg).err \in {next.err, "Error"}
  BY <1>1, Zenon DEF Store, Failed, Fields
<1>5. Failed(next).pc = next.pc /\ Failed(next).err = "Error"
  BY <1>1, Zenon DEF Failed, Fields
<1>6. QED
  BY <1>1, <1>2, <1>3, <1>4, <1>5

(* Unless the limit is passed, before it is executed.                      *)
LEMMA PlainPay ==
  ASSUME NEW x, Typed(x), x.err = "none", NEW i \in Instruction, i.op \notin Ecalls, i.op \notin Jumps
  PROVE  LET y == PayAndExecute(x, i)
         IN  \/ y.err = "none" /\ y.pc = x.pc + i.len
             \/ y.err = "CyclesExceeded" /\ y.pc = x.pc /\ y.mem = x.mem
             \/ y.err \in {"Error", "CyclesOverflow"}
<1> DEFINE paid == Paid(x, i)
<1>1. /\ DOMAIN paid = Fields /\ paid.pc = x.pc /\ paid.mem = x.mem
      /\ paid.err \in {"none", "CyclesOverflow", "CyclesExceeded"}
  BY Zenon DEF Paid, AddCycles, Typed, Fields
<1> HIDE DEF paid
<1>2. PayAndExecute(x, i) = IF paid.err # "none" THEN paid ELSE Execute(paid, i, setup.override)
  BY DEF PayAndExecute, paid
<1>3. Execute(paid, i, setup.override).pc = paid.pc + i.len /\ Execute(paid, i, setup.override).err \in {paid.err, "Error"}
  BY <1>1, PlainExecute
<1>4. QED
  BY <1>1, <1>2, <1>3

LEMMA PayAndExecuteDecodes ==
  ASSUME NEW x, Typed(x), NEW i \in Instruction, i.op # "LOADCODE"
  PROVE  PayAndExecute(x, i).reset \/ SameDecodes(x.mem, PayAndExecute(x, i).mem)
<1>1. Typed(Paid(x, i)) /\ Paid(x, i).mem = x.mem
  BY Zenon DEF Paid, AddCycles, Typed, Fields
<1>2. QED
  BY <1>1, ExecuteDecodes, SameIsSame DEF PayAndExecute

(* The machine is doomed where it is now.                                  *)
LEMMA DoomedMoves ==
  ASSUME setup' = setup, SameDecodes(m.mem, m'.mem), NEW pc, Doomed(m.mem, pc), Mask(SeenPc)' = pc
  PROVE  Lost'
<1>1. Doomed(m'.mem, pc)
  BY SameDecodesDoomed
<1>2. Doomed(m.mem, Mask(SeenPc))'
  BY <1>1 DEF Doomed, InMem, InstAt
<1>3. QED
  BY <1>2 DEF Lost

LEMMA TraceThreadKeepsTraces ==
  ASSUME TraceInv, m.pc \in Int, m.err = "none", TraceThread
  PROVE  TraceInv'
<1> DEFINE i == Head(left)
           a == Mask(SeenPc)
<1>1. /\ UNCHANGED <<setup, tail>> /\ UNCHANGED decoderVars
      /\ setup.engine = "trace" /\ phase = "thread" /\ ~m.reset /\ left # <<>> /\ Typed(m)
      /\ left \in Seq(Instruction) /\ Straight(left)
  BY DEF TraceThread, TraceInv, ControlInv, MachineInv, decoderVars
<1>2. i \in Instruction /\ Tail(left) \in Seq(Instruction) /\ Straight(Tail(left))
      /\ (Tail(left) # <<>> => ~IsBasicBlockEnd(i))
  BY <1>1, StraightTail
<1>3. /\ m' = PayAndExecute(m, i) /\ left' = IF m'.err = "none" THEN Tail(left) ELSE <<>>
      /\ phase' = IF m'.err # "none" THEN "idle" ELSE IF left' # <<>> THEN "thread" ELSE "head"
  BY DEF TraceThread
<1>4. NextThread(i, a)
  BY <1>1, ThreadIs
<1>5. SeenPc = m.pc /\ SeenPc' = m'.pc
  BY <1>1 DEF SeenPc
<1>6. \A pc : m'.pc = pc => Mask(SeenPc)' = Mask(pc)
  BY <1>1, <1>5 DEF Mask
<1>7. a = Mask(m.pc)
  BY <1>5
<1> HIDE DEF i, a
<1>8. Keeps(m, m')
  BY <1>1, <1>2, <1>3, PayAndExecuteKeeps
<1>9. ~IsBasicBlockEnd(i) =>
        \/ m'.err = "none" /\ m'.pc = m.pc + i.len
        \/ m'.err = "CyclesExceeded" /\ m'.pc = m.pc
        \/ m'.err \in {"Error", "CyclesOverflow"}
  BY <1>1, <1>2, <1>3, CallEndsBlock, PlainPay
<1>10. m'.reset \/ SameDecodes(m.mem, m'.mem) \/ IsBasicBlockEnd(i)
  BY <1>1, <1>2, <1>3, PayAndExecuteDecodes DEF IsBasicBlockEnd, BlockEnds, Ecalls
<1>11. LostStays
  <2>1. CASE ~m'.reset /\ ~Lost
    <3>1. SameFetched(m.mem, m'.mem)
      BY <1>8, <2>1 DEF Keeps
    <3>2. QED
      BY <1>1, <2>1, <3>1 DEF LostStays
  <2>2. CASE ~m'.reset /\ Lost
    <3>1. ~IsBasicBlockEnd(i) /\ Doomed(m.mem, a + i.len) /\ Mask(m.pc + i.len) = a + i.len /\ Doomed(m.mem, a)
      BY <1>1, <1>4, <1>5, <2>2 DEF NextThread, Lost, Dead, a
    <3>2. SameDecodes(m.mem, m'.mem)
      BY <1>10, <2>2, <3>1
    <3>3. ASSUME m'.err = "none", m'.pc = m.pc + i.len PROVE Lost'
      BY <1>1, <1>6, <3>1, <3>2, <3>3, DoomedMoves
    <3>4. ASSUME m'.err = "CyclesExceeded", m'.pc = m.pc PROVE Lost'
      BY <1>1, <1>6, <1>7, <3>1, <3>2, <3>4, DoomedMoves
    <3>5. ASSUME m'.err \in {"Error", "CyclesOverflow"} PROVE Lost'
      BY <1>3, <3>5 DEF Lost, Dead
    <3>6. QED
      BY <1>1, <1>9, <3>1, <3>2, <3>3, <3>4, <3>5 DEF LostStays
  <2>3. QED
    BY <2>1, <2>2 DEF LostStays
<1>12. MachineInv' /\ TracesInv'
  BY <1>1, <1>8, <1>11, KeptTraces DEF TraceInv
<1>13. Tail(left) # <<>> => ~m'.reset
  BY <1>1, <1>2, <1>3, CallEndsBlock, PayAndExecuteStays DEF Typed
<1>14. phase' \in {"idle", "thread", "head"} /\ (phase' = "thread" => left' # <<>> /\ left' = Tail(left) /\ m'.err = "none")
  BY <1>3
<1>15. ControlInv'
  <2>1. left' \in Seq(Instruction) /\ Straight(left')
    BY <1>2, <1>3, NoInsts
  <2>2. left' # <<>> => phase' = "thread" /\ ~m'.reset
    BY <1>3, <1>13
  <2>3. QED
    BY <1>1, <1>14, <2>1, <2>2 DEF ControlInv, Straight
<1>16. ThreadInv'
  <2>1. CASE phase' = "thread"
    <3>1. ~IsBasicBlockEnd(i) /\ left' = Tail(left) /\ ~m'.reset /\ m'.err = "none"
      BY <1>2, <1>13, <1>14, <2>1
    <3>2. m'.pc = m.pc + i.len /\ SameDecodes(m.mem, m'.mem)
      BY <1>9, <1>10, <3>1
    <3>3. InMem(m.mem, a + i.len, left') /\ Mask(SeenPc)' = a + i.len
      BY <1>4, <1>5, <1>6, <3>1, <3>2 DEF NextThread
    <3>4. InMem(m'.mem, a + i.len, left')
      BY <3>2, <3>3, SameDecodesInMem
    <3>5. QED
      BY <1>1, <3>3, <3>4 DEF ThreadInv, InMem, InstAt
  <2>2. QED
    BY <2>1 DEF ThreadInv
<1>17. QED
  BY <1>12, <1>15, <1>16 DEF TraceInv

LEMMA AsmHeadKeepsTraces ==
  ASSUME TraceInv, AsmHead
  PROVE  TraceInv'
<1>1. /\ UNCHANGED <<setup, left, tail>> /\ setup.engine = "asm" /\ phase = "head" /\ phase' = "enter"
      /\ m' = AfterReset /\ icache' = FreshCache
      /\ IF m.reset THEN traces' = EmptyTraces /\ memo' = NoTraces /\ dynamic' = NoTraces
         ELSE UNCHANGED <<traces, memo, dynamic>>
  BY DEF AsmHead, Proceeds, ResetTraces
<1>2. /\ CacheIsCurrent(FreshCache, m.mem) /\ Typed(AfterReset) /\ AfterReset.mem = m.mem /\ ~AfterReset.reset
      /\ AfterReset.pc = m.pc
  BY FreshIsGood
<1>3. MachineInv'
  BY <1>1, <1>2 DEF TraceInv, MachineInv, Typed, CacheIsCurrent
<1>4. TracesInv'
  <2>1. CASE m.reset
    BY <1>1, <2>1, NoneAreGood, SetupTypes, PrimedTraces DEF TraceInv, MachineInv, Interprets
  <2>2. CASE ~m.reset
    <3>1. LostStays
      BY <1>1, <1>2, <2>2, SameIsSame, SamePlace DEF Lost, LostStays, Dead
    <3>2. QED
      BY <1>1, <1>2, <2>2, <3>1, TracesStay DEF TraceInv, Typed
  <2>3. QED
    BY <2>1, <2>2
<1>5. left = <<>>
  BY <1>1 DEF TraceInv, ControlInv
<1>6. ControlInv'
  BY <1>1, <1>2, <1>5, NoInsts DEF ControlInv, Straight
<1>7. ThreadInv'
  BY <1>1 DEF ThreadInv
<1>8. QED
  BY <1>3, <1>4, <1>6, <1>7 DEF TraceInv

(* A trace is entered where the machine is, if it can be paid for.         *)
LEMMA LoadTraceKeepsTraces ==
  ASSUME TraceInv, m.pc \in Int, setup.engine = "asm", phase \in {"enter", "prepare", "thread"}, left = <<>>,
         NEW t, Good(t, m.mem, Steady), Points(t, dynamic), t.insts # <<>>, t.address = Mask(m.pc), LoadTrace(t),
         setup' = setup, UNCHANGED decoderVars
  PROVE  TraceInv'
<1> DEFINE paid == AddCycles(m, t.cycles)
<1>1. DOMAIN m = Fields /\ ~m.reset
  BY DEF TraceInv, MachineInv, Typed, ControlInv
<1>2. DOMAIN paid = Fields /\ paid.mem = m.mem /\ paid.reset = m.reset /\ paid.pc = m.pc
  BY <1>1, Zenon DEF AddCycles, Fields
<1>3. \/ m' = paid /\ phase' = "idle" /\ left' = <<>>
      \/ m' = [paid EXCEPT !.pc = @ + t.length] /\ phase' = "thread" /\ left' = t.insts /\ tail' = t.tail
  BY DEF LoadTrace
<1> HIDE DEF paid
<1>4. /\ DOMAIN m' = Fields /\ m'.mem = m.mem /\ m'.reset = m.reset
      /\ m'.pc = m.pc \/ m'.pc = m.pc + t.length
      /\ phase' = "idle" => m'.pc = m.pc
      /\ phase' = "thread" => m'.pc = m.pc + t.length
  BY <1>2, <1>3, Zenon DEF Fields
<1>5. /\ t.insts \in Seq(Instruction) /\ Straight(t.insts) /\ t.length = Length(t.insts) /\ Length(t.insts) \in Nat
      /\ InMem(m.mem, Mask(m.pc), t.insts)
  <2>1. "current" \in Steady
    BY <1>1 DEF Steady, What, Both
  <2>2. QED
    BY <2>1, LengthTypes DEF Good
<1>6. SeenPc = m.pc /\ SeenPc' = SeenPc
  <2>1. SeenPc = m.pc
    BY NoLength DEF SeenPc
  <2>2. SeenPc' = m'.pc - Length(left')
    BY DEF SeenPc
  <2>3. CASE phase' = "idle"
    <3>1. left' = <<>> /\ m'.pc = m.pc
      BY <1>3, <1>4, <2>3
    <3>2. QED
      BY <2>1, <2>2, <3>1, NoLength
  <2>4. CASE phase' = "thread"
    <3>1. left' = t.insts /\ m'.pc = m.pc + Length(t.insts)
      BY <1>3, <1>4, <1>5, <2>4
    <3>2. QED
      BY <1>5, <2>1, <2>2, <3>1
  <2>5. QED
    BY <1>3, <2>3, <2>4
<1>7. MachineInv' /\ TracesInv'
  BY <1>4, <1>6, SamePlaceTraces DEF TraceInv, Dead
<1>8. left' \in Seq(Instruction) /\ Straight(left') /\ phase' \in {"idle", "thread"}
      /\ (left' # <<>> => phase' = "thread")
      /\ (phase' = "thread" /\ tail' # NoPc => tail' \in DOMAIN dynamic)
  BY <1>3, NoInsts DEF Good, Points
<1>9. ControlInv'
  BY <1>1, <1>4, <1>8 DEF ControlInv, Straight, decoderVars
<1>10. ThreadInv'
  <2>1. CASE phase' = "thread"
    <3>1. Mask(SeenPc)' = Mask(m.pc)
      BY <1>4, <1>6, PlaceStays
    <3>2. InMem(m'.mem, Mask(m.pc), left')
      BY <1>3, <1>4, <1>5, <2>1
    <3>3. tail' # NoPc => tail' = Mask(m.pc) + Length(left') /\ ~IsBasicBlockEnd(left'[Len(left')])
      BY <1>3, <1>5, <2>1 DEF Points
    <3>4. QED
      BY <3>1, <3>2, <3>3 DEF ThreadInv, InMem, InstAt, Length, Offset
  <2>2. QED
    BY <2>1 DEF ThreadInv
<1>11. QED
  BY <1>7, <1>9, <1>10 DEF TraceInv

LEMMA AsmHitKeepsTraces ==
  ASSUME TraceInv, m.pc \in Int, AsmHit
  PROVE  TraceInv'
<1> DEFINE t == traces[CalculateSlot(m.pc)]
<1>1. /\ setup' = setup /\ UNCHANGED decoderVars /\ phase \in {"enter", "prepare"}
      /\ TraceHit(t, m.pc) /\ LoadTrace(t)
  BY DEF AsmHit, decoderVars
<1>2. Good(t, m.mem, Steady) /\ Points(t, dynamic)
  BY SlotTypes DEF TraceInv, TracesInv, GoodTraces, GoodFixed
<1>3. setup.engine = "asm" /\ left = <<>>
  BY <1>1 DEF TraceInv, ControlInv
<1> HIDE DEF t
<1>4. t.insts # <<>> /\ t.address = Mask(m.pc)
  BY <1>1, <1>3 DEF TraceHit, Mask
<1>5. QED
  BY <1>1, <1>2, <1>3, <1>4, LoadTraceKeepsTraces

(* What is prepared on a miss takes the place of what was under the slot.  *)
LEMMA AsmMissKeepsTraces ==
  ASSUME TraceInv, m.pc \in Int, AsmMiss
  PROVE  TraceInv'
<1> DEFINE made == PrepareTraces(m.pc)
           slot == CalculateSlot(m.pc)
           steady == Steady'
<1>1. /\ phase \in {"enter", "prepare"} /\ UNCHANGED <<setup, left, tail>>
      /\ icache' = made.cache /\ memo' = made.memo /\ dynamic' = made.dynamic
      /\ \/ /\ made.ok /\ traces' = [traces EXCEPT ![slot] = made.trace]
            /\ phase' = "head" /\ m' = m
         \/ ~made.ok /\ m' = Failed(m) /\ phase' = "idle" /\ traces' = traces
  BY DEF AsmMiss
<1>2. /\ setup.engine = "asm" /\ ~m.reset /\ left = <<>> /\ m.mem \in Memory
  BY <1>1 DEF TraceInv, ControlInv, MachineInv, Typed
<1>3. DOMAIN m' = Fields /\ m'.mem = m.mem /\ m'.reset = m.reset /\ m'.pc = m.pc
  <2>1. DOMAIN m = Fields
    BY DEF TraceInv, MachineInv, Typed
  <2>2. m' = m \/ m' = [m EXCEPT !.err = "Error"]
    BY <1>1, Zenon DEF Failed
  <2>3. QED
    BY <2>1, <2>2, Zenon DEF Fields
<1>4. SeenPc = m.pc
  BY <1>2, NoLength DEF SeenPc
<1>5. /\ GoodFixed(traces, dynamic, m.mem, Steady) /\ GoodMemo(memo, dynamic, m.mem, Steady)
      /\ GoodDynamic(dynamic, m.mem, Steady)
  BY DEF TraceInv, TracesInv, GoodTraces
<1>6. \A what : what \subseteq Steady /\ ("paired" \in what => ~Doomed(m.mem, m.pc)) =>
                 Prepared(made, m.mem, m.pc, what)
  <2>1. ASSUME NEW what, what \subseteq Steady, "paired" \in what => ~Doomed(m.mem, m.pc)
        PROVE  Prepared(made, m.mem, m.pc, what)
    <3>1. GoodMemo(memo, dynamic, m.mem, what) /\ GoodDynamic(dynamic, m.mem, what)
      BY <1>5, <2>1, FewerAreGood
    <3>2. QED
      BY <1>2, <2>1, <3>1, PrepareTracesIs DEF TraceInv, MachineInv
  <2>2. QED
    BY <2>1
<1> HIDE DEF made, slot
<1>7. Mask(SeenPc)' = Mask(m.pc) /\ (Doomed(m.mem, Mask(m.pc)) <=> Doomed(m.mem, Mask(SeenPc))')
  BY <1>1, <1>3, <1>4, SamePlace
<1>8. steady = What(FALSE, Lost') /\ (Lost => Lost')
  BY <1>1, <1>2, <1>3, <1>4, <1>7 DEF Steady, What, Lost, Dead
<1> HIDE DEF steady
<1>9. steady \subseteq Steady /\ "current" \in Steady
  BY <1>2, <1>8 DEF Steady, What, Both
<1>10. "paired" \in steady => ~Doomed(m.mem, m.pc)
  <2>1. CASE Lost'
    BY <1>8, <2>1 DEF What
  <2>2. CASE ~Lost'
    <3>1. ~Doomed(m.mem, Mask(m.pc))
      BY <1>7, <2>2 DEF Lost
    <3>2. made.ok
      BY <1>1, <1>2, <2>2 DEF Lost, Dead, Failed, TraceInv, MachineInv, Typed, Fields
    <3>3. Prepared(made, m.mem, m.pc, {"current"})
      BY <1>6, <1>9
    <3>4. /\ made.trace.insts \in Seq(Instruction) /\ made.trace.insts # <<>>
          /\ InMem(m.mem, m.pc, made.trace.insts)
      BY <3>2, <3>3 DEF Prepared, Good
    <3>5. QED
      BY <1>2, <3>1, <3>4, LineAddress
  <2>3. QED
    BY <2>1, <2>2
<1>11. Prepared(made, m.mem, m.pc, steady)
  BY <1>6, <1>9, <1>10
<1>12. MachineInv'
  BY <1>1, <1>3, <1>11 DEF TraceInv, MachineInv, Prepared, Typed, CacheIsCurrent
<1>13. GoodFixed(traces, made.dynamic, m.mem, steady)
  <2>1. GoodFixed(traces, dynamic, m.mem, steady)
    BY <1>5, <1>9, FewerAreGood
  <2>2. QED
    BY <1>11, <2>1, PointsStays DEF GoodFixed, Prepared
<1>14. GoodFixed(traces', made.dynamic, m.mem, steady)
  <2>1. CASE made.ok /\ traces' = [traces EXCEPT ![slot] = made.trace]
    <3>1. Good(made.trace, m.mem, steady) /\ Points(made.trace, made.dynamic)
      BY <1>11, <2>1 DEF Prepared
    <3>2. QED
      BY <1>13, <2>1, <3>1, SetSlotIsGood
  <2>2. QED
    BY <1>1, <1>13, <2>1
<1>15. GoodTraces(traces', memo', dynamic', m'.mem, steady)
  BY <1>1, <1>3, <1>11, <1>14 DEF GoodTraces, Prepared
<1>16. TracesInv'
  BY <1>1, <1>2, <1>15, PrimedTraces DEF Interprets, steady
<1>17. ControlInv'
  BY <1>1, <1>2, NoInsts DEF ControlInv, Straight
<1>18. ThreadInv'
  BY <1>1 DEF ThreadInv
<1>19. QED
  BY <1>12, <1>16, <1>17, <1>18 DEF TraceInv

(* The machine that a thread executes, before and after.                   *)
Seen == [m EXCEPT !.pc = @ - Length(left)]
Done == Execute(Seen, Head(left), setup.override)

LEMMA AsmThreadIs ==
  ASSUME TraceInv, AsmThread
  PROVE  /\ setup' = setup /\ UNCHANGED decoderVars /\ UNCHANGED <<pause, tail>>
         /\ setup.engine = "asm" /\ phase = "thread" /\ ~m.reset /\ left # <<>>
         /\ Head(left) \in Instruction /\ Tail(left) \in Seq(Instruction) /\ Straight(Tail(left))
         /\ Tail(left) # <<>> => ~IsBasicBlockEnd(Head(left))
         /\ Typed(Seen) /\ Seen.mem = m.mem /\ ~Seen.reset /\ Seen.running = m.running
         /\ Keeps(Seen, Done)
         /\ m' = [Done EXCEPT !.pc = @ + Length(Tail(left))]
         /\ left' = IF Done.err = "none" THEN Tail(left) ELSE <<>>
         /\ phase' = CASE Done.err # "none" -> "idle"
                       [] Done.err = "none" /\ Head(left).op \in Ecalls -> "head"
                       [] Done.err = "none" /\ TakenJump(Head(left)) -> "prepare"
                       [] OTHER -> "thread"
<1>1. /\ setup' = setup /\ UNCHANGED decoderVars /\ UNCHANGED <<pause, tail>>
      /\ setup.engine = "asm" /\ phase = "thread" /\ left # <<>>
  BY DEF AsmThread, decoderVars
<1>2. ~m.reset /\ Typed(m) /\ left \in Seq(Instruction) /\ Straight(left)
  BY <1>1 DEF TraceInv, MachineInv, ControlInv
<1>3. /\ Head(left) \in Instruction /\ Tail(left) \in Seq(Instruction) /\ Straight(Tail(left))
      /\ Tail(left) # <<>> => ~IsBasicBlockEnd(Head(left))
  BY <1>1, <1>2, StraightTail
<1>4. Typed(Seen) /\ Seen.mem = m.mem /\ Seen.reset = m.reset /\ Seen.running = m.running
  <2>1. DOMAIN Seen = Fields /\ Seen.mem = m.mem /\ Seen.reset = m.reset /\ Seen.running = m.running
    BY <1>2, Zenon DEF Typed, Seen, Fields
  <2>2. QED
    BY <1>2, <2>1 DEF Typed
<1>5. Keeps(Seen, Done)
  BY <1>3, <1>4, ExecuteKeeps DEF Done
<1>6. /\ m' = [Done EXCEPT !.pc = @ + Length(Tail(left))]
      /\ left' = IF Done.err = "none" THEN Tail(left) ELSE <<>>
      /\ phase' = CASE Done.err # "none" -> "idle"
                    [] Done.err = "none" /\ Head(left).op \in Ecalls -> "head"
                    [] Done.err = "none" /\ TakenJump(Head(left)) -> "prepare"
                    [] OTHER -> "thread"
  BY Zenon DEF AsmThread, Seen, Done
<1>7. QED
  BY <1>1, <1>2, <1>3, <1>4, <1>5, <1>6

LEMMA AsmThreadKeepsTraces ==
  ASSUME TraceInv, m.pc \in Int, m.err = "none", AsmThread
  PROVE  TraceInv'
<1> DEFINE i == Head(left)
           a == Mask(SeenPc)
<1>1. /\ setup' = setup /\ UNCHANGED decoderVars /\ tail' = tail
      /\ setup.engine = "asm" /\ phase = "thread" /\ ~m.reset /\ left # <<>> /\ i \in Instruction
      /\ Tail(left) \in Seq(Instruction) /\ Straight(Tail(left))
      /\ Tail(left) # <<>> => ~IsBasicBlockEnd(i)
      /\ Typed(Seen) /\ DOMAIN Seen = Fields /\ Seen.mem = m.mem /\ ~Seen.reset /\ Keeps(Seen, Done)
      /\ m' = [Done EXCEPT !.pc = @ + Length(Tail(left))]
      /\ left' = IF Done.err = "none" THEN Tail(left) ELSE <<>>
  BY AsmThreadIs DEF Typed
<1>2. phase' = CASE Done.err # "none" -> "idle"
                 [] Done.err = "none" /\ i.op \in Ecalls -> "head"
                 [] Done.err = "none" /\ TakenJump(i) -> "prepare"
                 [] OTHER -> "thread"
  BY AsmThreadIs
<1>3. NextThread(i, a) /\ SeenPc \in Int
  BY <1>1, ThreadIs
<1> HIDE DEF i, a
<1>4. Length(Tail(left)) \in Nat /\ Length(left) = i.len + Length(Tail(left)) /\ left \in Seq(Instruction)
      /\ (Tail(left) # <<>> => Tail(left)[Len(Tail(left))] = left[Len(left)])
      /\ (Tail(left) = <<>> => left[Len(left)] = i)
  <2> DEFINE rest == Tail(left)
  <2>1. left \in Seq(Instruction)
    BY DEF TraceInv, ControlInv
  <2>2. /\ Len(left) \in Nat \ {0} /\ Len(rest) = Len(left) - 1 /\ i = left[1] /\ rest \in Seq(Instruction)
        /\ \A k \in 1 .. Len(left) - 1 : rest[k] = left[k + 1]
        /\ Length(left) = i.len + Length(rest)
    BY <1>1, <2>1, TailOffsets DEF i
  <2>3. rest # <<>> => Len(rest) # 0
    BY <2>2
  <2>4. Length(rest) \in Nat
    BY <2>2, LengthTypes
  <2> HIDE DEF rest
  <2>a. rest = <<>> => Len(rest) = 0
    BY NoLength
  <2>5. ASSUME rest # <<>> PROVE rest[Len(rest)] = left[Len(left)]
    <3>1. Len(rest) \in 1 .. Len(left) - 1 /\ Len(rest) + 1 = Len(left)
      BY <2>2, <2>3, <2>5
    <3>2. QED
      BY <2>2, <3>1
  <2>6. ASSUME rest = <<>> PROVE left[Len(left)] = i
    <3>1. Len(left) = 1
      BY <2>2, <2>a, <2>6
    <3>2. QED
      BY <2>2, <3>1
  <2>7. QED
    BY <2>1, <2>2, <2>4, <2>5, <2>6 DEF rest
<1>5. DOMAIN m' = Fields /\ m'.mem = Done.mem /\ m'.reset = Done.reset /\ m'.err = Done.err
      /\ m'.pc = Done.pc + Length(Tail(left))
  BY <1>1, Zenon DEF Keeps, Typed, Fields
<1>6. Keeps(m, m')
  BY <1>1, <1>5 DEF Keeps, Typed
<1>7. ~IsBasicBlockEnd(i) => Done.pc = SeenPc + i.len /\ Done.err \in {Seen.err, "Error"}
  <2>1. Seen.pc = SeenPc
    BY <1>1, Zenon DEF Seen, SeenPc, TraceInv, MachineInv, Typed, Fields
  <2>2. QED
    BY <1>1, <2>1, CallEndsBlock, PlainExecute DEF Done, i
<1>8. Done.err = "none" /\ Done.pc \in Int => SeenPc' = Done.pc
  <2>1. SeenPc' = m'.pc - Length(left')
    BY <1>1 DEF SeenPc
  <2>2. QED
    BY <1>1, <1>4, <1>5, <2>1
<1>9. \A pc : SeenPc' = pc => Mask(SeenPc)' = Mask(pc)
  BY <1>1 DEF Mask
<1>10. m'.reset \/ SameDecodes(m.mem, m'.mem) \/ IsBasicBlockEnd(i)
  BY <1>1, <1>5, ExecuteDecodes DEF IsBasicBlockEnd, BlockEnds, Ecalls, Done, i
<1>11. /\ phase' \in {"idle", "head", "prepare", "thread"}
       /\ phase' \in {"prepare", "thread"} => Done.err = "none" /\ i.op \notin Ecalls
       /\ phase' = "thread" => ~TakenJump(i)
       /\ Done.err # "none" => phase' = "idle"
       /\ phase' = "head" => i.op \in Ecalls
       /\ Done.err = "none" /\ i.op \notin Ecalls /\ ~TakenJump(i) => phase' = "thread"
  <2> DEFINE fails == Done.err # "none"
             calls == i.op \in Ecalls
             jumps == TakenJump(i)
  <2>1. phase' = CASE fails -> "idle" [] ~fails /\ calls -> "head" [] ~fails /\ jumps -> "prepare" [] OTHER -> "thread"
    BY <1>2
  <2>a. ~(calls /\ jumps)
    BY DEF Ecalls, TakenJump
  <2> HIDE DEF fails, calls, jumps
  <2>2. \/ fails /\ phase' = "idle"
        \/ ~fails /\ calls /\ ~jumps /\ phase' = "head"
        \/ ~fails /\ ~calls /\ jumps /\ phase' = "prepare"
        \/ ~fails /\ ~calls /\ ~jumps /\ phase' = "thread"
    BY <2>a, <2>1
  <2>3. QED
    BY <2>2 DEF fails, calls, jumps
<1>12. LostStays
  <2>1. CASE ~m'.reset /\ ~Lost
    <3>1. SameFetched(m.mem, m'.mem)
      BY <1>6, <2>1 DEF Keeps
    <3>2. QED
      BY <1>1, <2>1, <3>1 DEF LostStays
  <2>2. CASE ~m'.reset /\ Lost
    <3>1. ~IsBasicBlockEnd(i) /\ Doomed(m.mem, a + i.len) /\ Mask(SeenPc + i.len) = a + i.len /\ i.len \in Nat
      BY <1>3, <2>2 DEF NextThread
    <3>2. SameDecodes(m.mem, m'.mem)
      BY <1>10, <2>2, <3>1
    <3>3. Done.pc = SeenPc + i.len /\ Done.pc \in Int /\ Done.err \in {"none", "Error"}
      <4>1. Seen.err = m.err
        BY <1>1, Zenon DEF Seen, TraceInv, MachineInv, Typed, Fields
      <4>2. QED
        BY <1>3, <1>7, <3>1, <4>1
    <3>4. ASSUME Done.err = "none" PROVE Lost'
      BY <1>1, <1>8, <1>9, <3>1, <3>2, <3>3, <3>4, DoomedMoves
    <3>5. ASSUME Done.err = "Error" PROVE Lost'
      BY <1>5, <1>11, <3>5 DEF Lost, Dead
    <3>6. QED
      BY <1>1, <3>2, <3>3, <3>4, <3>5 DEF LostStays
  <2>3. QED
    BY <2>1, <2>2 DEF LostStays
<1>13. MachineInv' /\ TracesInv'
  BY <1>1, <1>6, <1>12, KeptTraces DEF TraceInv
<1>14. i.op \notin Ecalls => ~m'.reset
  BY <1>1, <1>5, ExecuteStays DEF Done, i
<1>15. left' # <<>> => phase' = "thread"
  <2>1. TakenJump(i) => i.op \in Jumps
    BY DEF TakenJump, Jumps
  <2>2. ~IsBasicBlockEnd(i) => i.op \notin Ecalls /\ i.op \notin Jumps
    BY CallEndsBlock
  <2>3. left' # <<>> => Done.err = "none" /\ Tail(left) # <<>>
    BY <1>1
  <2>4. QED
    BY <1>1, <1>11, <2>1, <2>2, <2>3
<1>16. ControlInv'
  <2>1. left' \in Seq(Instruction) /\ Straight(left')
    BY <1>1, NoInsts
  <2>2. tail # NoPc => tail \in DOMAIN dynamic
    BY <1>1 DEF TraceInv, ControlInv
  <2>3. QED
    BY <1>1, <1>11, <1>14, <1>15, <2>1, <2>2 DEF ControlInv, Straight, decoderVars
<1>17. ThreadInv'
  <2> SUFFICES ASSUME phase' = "thread" PROVE ThreadInv'
    BY DEF ThreadInv
  <2>1. left' = Tail(left) /\ Done.err = "none" /\ i.op \notin Ecalls /\ ~m'.reset
    BY <1>1, <1>11, <1>14
  <2>2. tail # NoPc => tail = a + Length(left) /\ ~IsBasicBlockEnd(left[Len(left)])
    BY <1>1 DEF TraceInv, ThreadInv, a
  <2>3. CASE IsBasicBlockEnd(i)
    <3>1. left' = <<>> /\ tail = NoPc
      BY <1>1, <1>4, <2>1, <2>2, <2>3
    <3>2. QED
      BY <1>1, <3>1, NoLength DEF ThreadInv, InMem
  <2>4. CASE ~IsBasicBlockEnd(i)
    <3>1. SeenPc' = SeenPc + i.len
      BY <1>3, <1>7, <1>8, <2>1, <2>4 DEF NextThread
    <3>2. Mask(SeenPc)' = a + i.len /\ InMem(m.mem, a + i.len, left') /\ a \in Nat /\ i.len \in Nat
      BY <1>3, <1>9, <2>1, <3>1 DEF NextThread
    <3>3. InMem(m'.mem, a + i.len, left')
      BY <1>10, <2>1, <2>4, <3>2, SameDecodesInMem
    <3>4. tail' # NoPc => /\ tail' = (a + i.len) + Length(left')
                          /\ left' # <<>> => ~IsBasicBlockEnd(left'[Len(left')])
      BY <1>1, <1>4, <2>1, <2>2, <3>2
    <3>5. InMem(m.mem, Mask(SeenPc), left)'
      <4>1. Mask(SeenPc)' = a + i.len
        BY <3>2
      <4>2. InMem(m'.mem, Mask(SeenPc)', left')
        BY <3>3, <4>1, Zenon
      <4>3. QED
        BY <1>1, <4>2 DEF InMem, InstAt
    <3>6. (tail # NoPc => tail = Mask(SeenPc) + Length(left) /\ (left # <<>> => ~IsBasicBlockEnd(left[Len(left)])))'
      <4>1. Mask(SeenPc)' = a + i.len
        BY <3>2
      <4>2. (Mask(SeenPc) + Length(left))' = (a + i.len) + Length(left')
        BY <4>1, Zenon DEF Length, Offset
      <4>3. QED
        BY <3>4, <4>2
    <3>7. QED
      BY <3>5, <3>6 DEF ThreadInv
  <2>5. QED
    BY <2>3, <2>4
<1>18. QED
  BY <1>13, <1>16, <1>17 DEF TraceInv

LEMMA AsmTraceEndKeepsTraces ==
  ASSUME TraceInv, m.pc \in Int, AsmTraceEnd
  PROVE  TraceInv'
<1>1. /\ setup' = setup /\ UNCHANGED decoderVars /\ phase = "thread" /\ setup.engine = "asm" /\ left = <<>>
  BY DEF AsmTraceEnd, decoderVars
<1>2. CASE tail = NoPc
  <2>1. phase' = "enter" /\ UNCHANGED <<m, left, tail>>
    BY <1>2 DEF AsmTraceEnd
  <2>2. MachineInv' /\ TracesInv'
    BY <1>1, <2>1, SameMachineTraces DEF TraceInv, MachineInv, Typed, Dead
  <2>3. ControlInv'
    BY <1>1, <2>1, NoInsts DEF TraceInv, ControlInv, Straight
  <2>4. ThreadInv'
    BY <2>1 DEF ThreadInv
  <2>5. QED
    BY <2>2, <2>3, <2>4 DEF TraceInv
<1>3. CASE tail # NoPc
  <2>1. LoadTrace(dynamic[tail])
    BY <1>3 DEF AsmTraceEnd
  <2>2. tail \in DOMAIN dynamic
    BY <1>1, <1>3 DEF TraceInv, ControlInv
  <2>3. /\ Good(dynamic[tail], m.mem, Steady) /\ dynamic[tail].tail = NoPc /\ dynamic[tail].insts # <<>>
        /\ dynamic[tail].address = tail
    BY <2>2 DEF TraceInv, TracesInv, GoodTraces, GoodDynamic
  <2>4. Points(dynamic[tail], dynamic)
    BY <2>3 DEF Points
  <2>5. tail = Mask(m.pc)
    <3>1. tail = Mask(SeenPc) + Length(left) /\ Length(left) = 0 /\ SeenPc = m.pc
      BY <1>1, <1>3, NoLength DEF TraceInv, ThreadInv, SeenPc
    <3>2. QED
      BY <3>1, MaskTypes
  <2>6. QED
    BY <1>1, <2>1, <2>3, <2>4, <2>5, LoadTraceKeepsTraces
<1>4. QED
  BY <1>2, <1>3

(***************************************************************************)
(* Types                                                                   *)
(***************************************************************************)
Errors     == {"none", "Pause", "Error", "InvalidVersion", "CyclesOverflow", "CyclesExceeded"}
Numbers(x) ==
  DOMAIN x = Fields /\ x.pc \in Int /\ x.cycles \in 0 .. U64Max /\ x.err \in Errors /\ x.running \in BOOLEAN

(* What a step may make of a machine: its limit is the host's.             *)
Counts(x, y) == Numbers(y) /\ y.max = x.max

LEMMA SetCounts ==
  ASSUME NEW x, Numbers(x), NEW f \in {"mem", "acc", "reset"}, NEW v
  PROVE  Counts(x, [x EXCEPT ![f] = v])
<1> DEFINE y == [x EXCEPT ![f] = v]
<1>1. DOMAIN y = Fields /\ y.pc = x.pc /\ y.cycles = x.cycles /\ y.err = x.err /\ y.running = x.running /\ y.max = x.max
  BY Zenon DEF Numbers, Fields
<1> HIDE DEF y
<1>2. Counts(x, y)
  BY <1>1 DEF Numbers, Counts
<1>3. QED
  BY <1>2 DEF y

LEMMA ErrCounts ==
  ASSUME NEW x, Numbers(x), NEW e \in Errors
  PROVE  Counts(x, [x EXCEPT !.err = e])
<1> DEFINE y == [x EXCEPT !.err = e]
<1>1. DOMAIN y = Fields /\ y.pc = x.pc /\ y.cycles = x.cycles /\ y.err = e /\ y.running = x.running /\ y.max = x.max
  BY Zenon DEF Numbers, Fields
<1> HIDE DEF y
<1>2. Counts(x, y)
  BY <1>1 DEF Numbers, Counts
<1>3. QED
  BY <1>2 DEF y

LEMMA PcCounts ==
  ASSUME NEW x, Numbers(x), NEW pc \in Int
  PROVE  Counts(x, [x EXCEPT !.pc = pc])
<1> DEFINE y == [x EXCEPT !.pc = pc]
<1>1. DOMAIN y = Fields /\ y.pc = pc /\ y.cycles = x.cycles /\ y.err = x.err /\ y.running = x.running /\ y.max = x.max
  BY Zenon DEF Numbers, Fields
<1> HIDE DEF y
<1>2. Counts(x, y)
  BY <1>1 DEF Numbers, Counts
<1>3. QED
  BY <1>2 DEF y

(* Cycles are never added past 64 bits.                                    *)
LEMMA ChargeCounts ==
  ASSUME NEW x, Numbers(x), NEW c \in Nat
  PROVE  Counts(x, AddCycles(x, c)) /\ Counts(x, AddCyclesInSyscall(x, c))
<1>1. x.cycles \in Nat /\ U64Max \in Nat
  BY GuestCodeAssumption DEF Numbers
<1>2. "CyclesOverflow" \in Errors /\ "CyclesExceeded" \in Errors
  BY DEF Errors
<1>3. Counts(x, [x EXCEPT !.err = "CyclesOverflow"]) /\ Counts(x, [x EXCEPT !.err = "CyclesExceeded"])
  BY <1>2, ErrCounts
<1>4. ASSUME ~(x.cycles + c > U64Max), NEW e \in Errors
      PROVE  Counts(x, [x EXCEPT !.cycles = x.cycles + c, !.err = e])
  <2> DEFINE y == [x EXCEPT !.cycles = x.cycles + c, !.err = e]
  <2>1. /\ DOMAIN y = Fields /\ y.pc = x.pc /\ y.cycles = x.cycles + c /\ y.err = e
        /\ y.running = x.running /\ y.max = x.max
    BY Zenon DEF Numbers, Fields
  <2> HIDE DEF y
  <2>2. y.cycles \in 0 .. U64Max
    BY <1>1, <1>4, <2>1
  <2>3. Counts(x, y)
    BY <2>1, <2>2 DEF Numbers, Counts
  <2>4. QED
    BY <2>3 DEF y
<1>5. ASSUME ~(x.cycles + c > U64Max)
      PROVE  Counts(x, [x EXCEPT !.cycles = x.cycles + c])
  <2> DEFINE y == [x EXCEPT !.cycles = x.cycles + c]
  <2>1. /\ DOMAIN y = Fields /\ y.pc = x.pc /\ y.cycles = x.cycles + c /\ y.err = x.err
        /\ y.running = x.running /\ y.max = x.max
    BY Zenon DEF Numbers, Fields
  <2> HIDE DEF y
  <2>2. y.cycles \in 0 .. U64Max
    BY <1>1, <1>5, <2>1
  <2>3. Counts(x, y)
    BY <2>1, <2>2 DEF Numbers, Counts
  <2>4. QED
    BY <2>3 DEF y
<1>6. Counts(x, AddCycles(x, c))
  <2>1. \/ AddCycles(x, c) = [x EXCEPT !.err = "CyclesOverflow"]
        \/ AddCycles(x, c) = [x EXCEPT !.err = "CyclesExceeded"]
        \/ ~(x.cycles + c > U64Max) /\ AddCycles(x, c) = [x EXCEPT !.cycles = x.cycles + c]
    BY Zenon DEF AddCycles
  <2>2. QED
    BY <1>3, <1>5, <2>1, Zenon
<1>7. Counts(x, AddCyclesInSyscall(x, c))
  <2>1. \/ AddCyclesInSyscall(x, c) = [x EXCEPT !.err = "CyclesOverflow"]
        \/ /\ ~(x.cycles + c > U64Max)
           /\ \E e \in Errors : AddCyclesInSyscall(x, c) = [x EXCEPT !.cycles = x.cycles + c, !.err = e]
    <3>1. x.err \in Errors
      BY DEF Numbers
    <3>2. QED
      BY <1>2, <3>1, Zenon DEF AddCyclesInSyscall
  <2>2. QED
    BY <1>3, <1>4, <2>1, Zenon
<1>8. QED
  BY <1>6, <1>7

LEMMA FailedCounts == ASSUME NEW x, Numbers(x) PROVE Counts(x, Failed(x))
  BY ErrCounts, Zenon DEF Failed, Errors

LEMMA CallCounts ==
  ASSUME NEW x, Numbers(x), NEW i, i.op \in Ecalls, NEW o
  PROVE  Counts(x, Call(x, i, o))
<1>1. \/ Call(x, i, o) = [x EXCEPT !.running = FALSE]
      \/ Call(x, i, o) = Exec(x, i.arg, o)
      \/ Call(x, i, o) = LoadCode(x, i.arg)
      \/ Call(x, i, o) = AddCyclesInSyscall(x, SyscallCycles)
      \/ Call(x, i, o) = Failed(x)
  BY Zenon DEF Call, Ecalls
<1>2. Counts(x, [x EXCEPT !.running = FALSE])
  <2> DEFINE y == [x EXCEPT !.running = FALSE]
  <2>1. DOMAIN y = Fields /\ y.pc = x.pc /\ y.cycles = x.cycles /\ y.err = x.err /\ y.running = FALSE /\ y.max = x.max
    BY Zenon DEF Numbers, Fields
  <2> HIDE DEF y
  <2>2. Counts(x, y)
    BY <2>1 DEF Numbers, Counts
  <2>3. QED
    BY <2>2 DEF y
<1>3. Counts(x, Exec(x, i.arg, o))
  <2>1. CASE o
    <3>1. Exec(x, i.arg, o) = [x EXCEPT !.acc = 0]
      BY <2>1 DEF Exec
    <3>2. QED
      BY <3>1, SetCounts
  <2>2. CASE ~o
    <3> DEFINE y == [x EXCEPT !.mem = Images[i.arg], !.pc = 0, !.acc = 0, !.reset = TRUE]
    <3>1. DOMAIN y = Fields /\ y.pc = 0 /\ y.cycles = x.cycles /\ y.err = x.err /\ y.running = x.running /\ y.max = x.max
      BY Zenon DEF Numbers, Fields
    <3> HIDE DEF y
    <3>2. Counts(x, y)
      BY <3>1 DEF Numbers, Counts
    <3>3. QED
      BY <2>2, <3>2 DEF Exec, y
  <2>3. QED
    BY <2>1, <2>2
<1>4. Counts(x, LoadCode(x, i.arg))
  BY SetCounts, FailedCounts DEF LoadCode
<1>5. QED
  BY <1>1, <1>2, <1>3, <1>4, ChargeCounts, FailedCounts, GuestCodeAssumption

LEMMA TargetIsInt ==
  ASSUME NEW x, x.pc \in Int, NEW i \in Instruction, i.op \in Jumps
  PROVE  Target(x, i) \in Int
<1>1. i.len \in Nat /\ i.arg \in Int
  BY InstructionTypes
<1>2. i.op = "JAL" \/ i.op = "JALR" \/ i.op = "BNE"
  BY DEF Jumps
<1>3. Target(x, i) \in {x.pc + i.arg, i.arg, x.pc + i.len}
  BY <1>2, Zenon DEF Target
<1>4. QED
  BY <1>1, <1>3

LEMMA ExecuteCounts ==
  ASSUME NEW x, Numbers(x), NEW i \in Instruction, NEW o
  PROVE  Counts(x, Execute(x, i, o))
<1> DEFINE next == [x EXCEPT !.pc = x.pc + i.len]
<1>1. x.pc \in Int /\ x.pc + i.len \in Int
  BY InstructionTypes DEF Numbers
<1>2. Numbers(next) /\ next.max = x.max
  BY <1>1, PcCounts DEF Counts
<1> HIDE DEF next
<1>3. \/ i.op \in Computing /\ Execute(x, i, o) = Compute(next, i)
      \/ i.op \in Jumps /\ Execute(x, i, o) = [x EXCEPT !.pc = Target(x, i)]
      \/ i.op \in Ecalls /\ Execute(x, i, o) = Call(next, i, o)
      \/ Execute(x, i, o) = Store(next, i.arg)
      \/ Execute(x, i, o) = Failed(next)
  BY Zenon DEF Execute, next, Computing, Ecalls, Jumps
<1>4. i.op \in Computing => Counts(next, Compute(next, i))
  <2>1. i.op \in Computing => Compute(next, i) = next \/ \E v : Compute(next, i) = [next EXCEPT !.acc = v]
    BY Zenon DEF Compute, Accumulate, Computing
  <2>2. \A v : Counts(next, [next EXCEPT !.acc = v])
    BY <1>2, SetCounts
  <2>3. QED
    BY <1>2, <2>1, <2>2 DEF Counts
<1>5. i.op \in Jumps => Counts(x, [x EXCEPT !.pc = Target(x, i)])
  BY <1>1, TargetIsInt, PcCounts
<1>6. Counts(next, Store(next, i.arg))
  BY <1>2, SetCounts, FailedCounts DEF Store
<1>7. i.op \in Ecalls => Counts(next, Call(next, i, o))
  BY <1>2, CallCounts
<1>8. Counts(next, Failed(next))
  BY <1>2, FailedCounts
<1>9. QED
  BY <1>2, <1>3, <1>4, <1>5, <1>6, <1>7, <1>8, Zenon DEF Counts

LEMMA PayAndExecuteCounts ==
  ASSUME setup \in Setups, NEW x, Numbers(x), NEW i \in Instruction
  PROVE  Counts(x, PayAndExecute(x, i))
<1>1. Counts(x, Paid(x, i))
  BY SetupTypes, ChargeCounts DEF Paid, InstructionCycles
<1>2. QED
  BY <1>1, ExecuteCounts DEF PayAndExecute, Counts

(* A machine that is past the head of its loop runs.                       *)
NumbersInv ==
  /\ Numbers(m) /\ m.max \in {FirstLimit} \cup Limits /\ pause \in {0, 1}
  /\ InLoop => m.running \/ phase = "head"

LEMMA NumbersInit == Init => NumbersInv
<1> SUFFICES ASSUME Init PROVE NumbersInv
  OBVIOUS
<1>1. m = [mem |-> Images[setup.image], pc |-> 0, acc |-> 0, cycles |-> 0, max |-> FirstLimit,
           running |-> FALSE, reset |-> FALSE, err |-> "none"]
  BY DEF Init
<1>2. DOMAIN m = Fields /\ m.pc = 0 /\ m.cycles = 0 /\ m.max = FirstLimit /\ m.running = FALSE /\ m.err = "none"
  BY <1>1, Zenon DEF Fields
<1>3. 0 \in 0 .. U64Max
  BY GuestCodeAssumption
<1>4. QED
  BY <1>2, <1>3 DEF Init, NumbersInv, Numbers, Errors, InLoop

LEMMA CountedStep ==
  ASSUME NumbersInv, Counts(m, m'), pause' \in {0, 1}, phase' \notin {"new", "idle", "head"} => m'.running
  PROVE  NumbersInv'
  BY DEF NumbersInv, Counts, Numbers, InLoop

LEMMA RunCounts ==
  ASSUME NEW x, Numbers(x), x.max \in {FirstLimit} \cup Limits, Run(x), pause' = pause, NumbersInv
  PROVE  NumbersInv'
<1>1. \/ m' = [x EXCEPT !.err = "InvalidVersion"] /\ phase' = "idle"
      \/ m' = [x EXCEPT !.running = TRUE, !.err = "none"] /\ phase' = "head"
  BY DEF Run
<1>2. /\ DOMAIN m' = Fields /\ m'.pc = x.pc /\ m'.cycles = x.cycles /\ m'.max = x.max
      /\ \/ m'.err = "InvalidVersion" /\ m'.running = x.running
         \/ m'.err = "none" /\ m'.running = TRUE
  BY <1>1, Zenon DEF Numbers, Fields
<1>3. QED
  BY <1>1, <1>2 DEF NumbersInv, Numbers, Errors, InLoop

LEMMA StartCounts ==
  ASSUME NumbersInv, Start
  PROVE  NumbersInv'
<1>1. Numbers(m) /\ m.max \in {FirstLimit} \cup Limits /\ pause' = pause
  BY DEF Start, NumbersInv
<1>2. CASE Run(m)
  BY <1>1, <1>2, RunCounts
<1>3. ASSUME NEW limit \in Limits, Run([m EXCEPT !.max = limit])
      PROVE  NumbersInv'
  <2> DEFINE x == [m EXCEPT !.max = limit]
  <2>1. /\ DOMAIN x = Fields /\ x.pc = m.pc /\ x.cycles = m.cycles /\ x.err = m.err /\ x.running = m.running
        /\ x.max = limit
    BY <1>1, Zenon DEF Numbers, Fields
  <2>2. Run(x)
    BY <1>3
  <2> HIDE DEF x
  <2>3. Numbers(x)
    BY <1>1, <2>1 DEF Numbers
  <2>4. QED
    BY <1>1, <2>1, <2>2, <2>3, RunCounts
<1>4. QED
  BY <1>2, <1>3, Zenon DEF Start

LEMMA AfterResetCounts == NumbersInv => Counts(m, AfterReset) /\ AfterReset.running = m.running
<1> SUFFICES ASSUME NumbersInv PROVE Counts(m, AfterReset) /\ AfterReset.running = m.running
  OBVIOUS
<1>1. Counts(m, AfterReset)
  BY SetCounts DEF NumbersInv, AfterReset
<1>2. AfterReset.running = m.running
  BY Zenon DEF AfterReset, NumbersInv, Numbers, Fields
<1>3. QED
  BY <1>1, <1>2

(* A trace is entered by a machine that runs, and goes on running.         *)
LEMMA LoadTraceCounts ==
  ASSUME NumbersInv, m.running, pause' = pause, setup \in Setups,
         NEW t, NEW current, Good(t, m.mem, current), t.insts # <<>>, LoadTrace(t)
  PROVE  NumbersInv'
<1> DEFINE paid == AddCycles(m, t.cycles)
<1>1. t.cycles \in Nat /\ t.length \in Nat
  <2>1. Len(t.insts) \in Nat /\ Len(t.insts) \in 0 .. Len(t.insts) /\ setup.price \in Nat
    BY SetupTypes DEF Good
  <2>2. \A a, b \in Nat : a * b \in Nat
    OBVIOUS
  <2>3. Length(t.insts) \in Nat
    BY <2>1, OffsetTypes DEF Length, Good
  <2>4. QED
    BY <2>1, <2>2, <2>3 DEF Good
<1>2. Counts(m, paid)
  BY <1>1, ChargeCounts DEF NumbersInv
<1>3. paid.running = m.running
  BY Zenon DEF AddCycles, NumbersInv, Numbers, Fields
<1>4. (m' = paid /\ phase' = "idle") \/ (m' = [paid EXCEPT !.pc = paid.pc + t.length] /\ phase' = "thread")
  BY DEF LoadTrace
<1> HIDE DEF paid
<1>5. CASE m' = paid /\ phase' = "idle"
  BY <1>2, <1>5, CountedStep DEF NumbersInv
<1>6. CASE m' = [paid EXCEPT !.pc = paid.pc + t.length] /\ phase' = "thread"
  <2>1. paid.pc + t.length \in Int /\ Numbers(paid)
    BY <1>1, <1>2 DEF Counts, Numbers
  <2>2. Counts(paid, m')
    BY <1>6, <2>1, PcCounts
  <2>3. m'.running = m.running
    BY <1>3, <1>6, <2>1, Zenon DEF Numbers, Fields
  <2>4. QED
    BY <1>2, <2>2, <2>3, CountedStep DEF Counts, NumbersInv
<1>7. QED
  BY <1>4, <1>5, <1>6

LEMMA AsmThreadCounts ==
  ASSUME TraceInv, NumbersInv, AsmThread
  PROVE  NumbersInv'
<1> DEFINE i == Head(left)
<1>1. /\ pause' = pause /\ setup.engine = "asm" /\ phase = "thread" /\ left # <<>>
      /\ i \in Instruction /\ Tail(left) \in Seq(Instruction) /\ Seen.running = m.running
      /\ m' = [Done EXCEPT !.pc = @ + Length(Tail(left))]
      /\ left' = IF Done.err = "none" THEN Tail(left) ELSE <<>>
  BY AsmThreadIs
<1>2. phase' \in {"prepare", "thread"} => i.op \notin Ecalls
  BY AsmThreadIs DEF TakenJump, Ecalls
<1>3. phase' \in {"idle", "head", "prepare", "thread"}
  BY AsmThreadIs
<1>4. left \in Seq(Instruction) /\ m.running
  BY <1>1 DEF TraceInv, ControlInv, NumbersInv, InLoop
<1>5. \A s \in Seq(Instruction) : Length(s) \in Nat
  BY LengthTypes
<1>6. Counts(m, Seen)
  <2>1. Numbers(m) /\ m.pc - Length(left) \in Int
    BY <1>4, <1>5 DEF NumbersInv, Numbers
  <2>2. QED
    BY <2>1, PcCounts DEF Seen
<1>7. Counts(Seen, Done)
  BY <1>1, <1>6, ExecuteCounts DEF Counts, Done
<1>8. Done.pc + Length(Tail(left)) \in Int /\ Numbers(Done)
  <2>1. Length(Tail(left)) \in Nat
    BY <1>1, LengthTypes
  <2>2. Numbers(Done) /\ Done.pc \in Int
    BY <1>7 DEF Counts, Numbers
  <2>3. QED
    BY <2>1, <2>2
<1>9. Counts(Done, m')
  BY <1>1, <1>8, PcCounts
<1>10. i.op \notin Ecalls => m'.running = m.running
  <2>1. m'.running = Done.running
    BY <1>1, <1>8, Zenon DEF Numbers, Fields
  <2>2. i.op \notin Ecalls => Done.running = Seen.running
    BY <1>6, ExecuteStays DEF Done, Counts, Numbers
  <2>3. QED
    BY <1>1, <2>1, <2>2
<1>11. Counts(m, m')
  BY <1>6, <1>7, <1>9 DEF Counts
<1> HIDE DEF i
<1>12. QED
  BY <1>1, <1>2, <1>3, <1>4, <1>10, <1>11, CountedStep DEF NumbersInv

LEMMA StepCounts ==
  ASSUME TraceInv, NumbersInv, MachineStep
  PROVE  NumbersInv'
<1>1. setup \in Setups /\ Numbers(m) /\ Typed(m)
  BY DEF TraceInv, MachineInv, NumbersInv
<1>2. CASE Pausing
  <2>1. m' = [m EXCEPT !.err = "Pause"] /\ phase' = "idle" /\ pause' = 0
    BY <1>2 DEF Pausing
  <2>2. Counts(m, m')
    BY <1>1, <2>1, ErrCounts DEF Errors
  <2>3. QED
    BY <2>1, <2>2, CountedStep
<1>3. CASE Finish
  BY <1>3 DEF Finish, NumbersInv, Numbers, InLoop
<1>4. CASE SeeInterrupt
  BY <1>4 DEF SeeInterrupt, NumbersInv, Numbers, InLoop
<1>5. CASE InterpreterStep
  <2>1. pause' = pause /\ phase' \in {"head", "idle"}
    BY <1>5 DEF InterpreterStep
  <2>2. PICK found \in {Decode(FreshCache, m.mem, m.pc)} :
          m' = IF found.ok THEN PayAndExecute(AfterReset, found.inst) ELSE Failed(AfterReset)
    BY <1>5 DEF InterpreterStep
  <2>3. found.inst \in Instruction
    BY <1>1, <2>2, FreshIsGood, DecodeFinds DEF Found, Typed
  <2>4. Counts(m, AfterReset)
    BY AfterResetCounts
  <2>5. Counts(m, m')
    BY <1>1, <2>2, <2>3, <2>4, PayAndExecuteCounts, FailedCounts DEF Counts
  <2>6. QED
    BY <2>1, <2>5, CountedStep DEF NumbersInv
<1>6. CASE TraceHead
  <2>1. pause' = pause /\ m.running
    BY <1>6 DEF TraceHead, Proceeds
  <2>2. (m' = AfterReset /\ phase' = "thread") \/ (m' = Failed(AfterReset) /\ phase' = "idle")
    BY <1>6 DEF TraceHead
  <2>3. Counts(m, AfterReset) /\ AfterReset.running = m.running
    BY AfterResetCounts
  <2>4. Counts(m, m')
    BY <2>2, <2>3, FailedCounts DEF Counts
  <2>5. QED
    BY <2>1, <2>2, <2>3, <2>4, CountedStep DEF NumbersInv
<1>7. CASE TraceThread
  <2> DEFINE i == Head(left)
  <2>1. /\ pause' = pause /\ phase = "thread" /\ setup.engine = "trace" /\ m' = PayAndExecute(m, i)
        /\ left' = IF m'.err = "none" THEN Tail(left) ELSE <<>>
        /\ phase' = IF m'.err # "none" THEN "idle" ELSE IF left' # <<>> THEN "thread" ELSE "head"
    BY <1>7 DEF TraceThread
  <2>2. i \in Instruction /\ (Tail(left) # <<>> => ~IsBasicBlockEnd(i)) /\ m.running
    BY <2>1, StraightTail DEF TraceInv, ControlInv, NumbersInv, InLoop
  <2> HIDE DEF i
  <2>3. Counts(m, m')
    BY <1>1, <2>1, <2>2, PayAndExecuteCounts
  <2>4. phase' \notin {"idle", "head"} => Tail(left) # <<>>
    BY <2>1
  <2>5. i.op \notin Ecalls => m'.running = m.running
    BY <1>1, <2>1, PayAndExecuteStays DEF Typed
  <2>6. QED
    BY <2>1, <2>2, <2>3, <2>4, <2>5, CallEndsBlock, CountedStep DEF NumbersInv
<1>8. CASE AsmHead
  <2>1. pause' = pause /\ m' = AfterReset /\ m.running
    BY <1>8 DEF AsmHead, Proceeds
  <2>2. QED
    BY <2>1, AfterResetCounts, CountedStep DEF NumbersInv
<1>9. CASE AsmHit
  <2> DEFINE t == traces[CalculateSlot(m.pc)]
  <2>1. pause' = pause /\ phase \in {"enter", "prepare"} /\ t.insts # <<>> /\ LoadTrace(t)
    BY <1>9 DEF AsmHit, TraceHit
  <2>2. Good(t, m.mem, Steady)
    BY <1>1, SlotTypes DEF TraceInv, TracesInv, GoodTraces, GoodFixed, Numbers
  <2> HIDE DEF t
  <2>3. QED
    BY <1>1, <2>1, <2>2, LoadTraceCounts DEF NumbersInv, InLoop
<1>10. CASE AsmMiss
  <2>1. /\ pause' = pause /\ phase \in {"enter", "prepare"}
        /\ (m' = m /\ phase' = "head") \/ (m' = Failed(m) /\ phase' = "idle")
    BY <1>10 DEF AsmMiss
  <2>2. Counts(m, m')
    BY <1>1, <2>1, FailedCounts DEF Counts
  <2>3. QED
    BY <2>1, <2>2, CountedStep DEF NumbersInv
<1>11. CASE AsmThread
  BY <1>11, AsmThreadCounts
<1>12. CASE AsmTraceEnd
  <2>1. phase = "thread" /\ pause' = pause
    BY <1>12 DEF AsmTraceEnd
  <2>2. CASE tail = NoPc
    BY <1>12, <2>1, <2>2 DEF AsmTraceEnd, NumbersInv, Numbers, InLoop
  <2>3. CASE tail # NoPc
    <3>1. LoadTrace(dynamic[tail]) /\ tail \in DOMAIN dynamic
      BY <1>12, <2>3 DEF AsmTraceEnd, TraceInv, ControlInv
    <3>2. Good(dynamic[tail], m.mem, Steady) /\ dynamic[tail].insts # <<>>
      BY <3>1 DEF TraceInv, TracesInv, GoodTraces, GoodDynamic
    <3>3. QED
      BY <1>1, <2>1, <3>1, <3>2, LoadTraceCounts DEF NumbersInv, InLoop
  <2>4. QED
    BY <2>2, <2>3
<1>13. QED
  BY <1>2, <1>3, <1>4, <1>5, <1>6, <1>7, <1>8, <1>9, <1>10, <1>11, <1>12 DEF MachineStep

(* One step for each action.                                               *)
LEMMA StepKeepsTraces ==
  ASSUME TraceInv, NumbersInv, LimitInv, MachineStep
  PROVE  TraceInv'
<1>1. m.pc \in Int
  BY DEF NumbersInv, Numbers
<1>2. CASE Pausing \/ Finish \/ SeeInterrupt
  BY <1>2, LookKeepsTraces
<1>3. CASE InterpreterStep
  BY <1>3, InterpreterStepKeepsTraces
<1>4. CASE TraceHead
  BY <1>1, <1>4, TraceHeadKeepsTraces
<1>5. CASE TraceThread
  <2>1. phase # "idle"
    BY <1>5 DEF TraceThread
  <2>2. QED
    BY <1>1, <1>5, <2>1, TraceThreadKeepsTraces DEF LimitInv
<1>6. CASE AsmHead
  BY <1>6, AsmHeadKeepsTraces
<1>7. CASE AsmHit
  BY <1>1, <1>7, AsmHitKeepsTraces
<1>8. CASE AsmMiss
  BY <1>1, <1>8, AsmMissKeepsTraces
<1>9. CASE AsmThread
  <2>1. phase # "idle"
    BY <1>9 DEF AsmThread
  <2>2. QED
    BY <1>1, <1>9, <2>1, AsmThreadKeepsTraces DEF LimitInv
<1>10. CASE AsmTraceEnd
  BY <1>1, <1>10, AsmTraceEndKeepsTraces
<1>11. QED
  BY <1>2, <1>3, <1>4, <1>5, <1>6, <1>7, <1>8, <1>9, <1>10 DEF MachineStep

(* The inductive invariant of the run loops.                               *)
RunInv == TraceInv /\ NumbersInv /\ LimitInv

LEMMA RunInvStep == RunInv /\ [Next]_vars => RunInv'
<1> SUFFICES ASSUME RunInv, [Next]_vars PROVE RunInv'
  OBVIOUS
<1> USE DEF RunInv
<1>0. LimitInv'
  BY LimitStep
<1>1. CASE Start
  BY <1>0, <1>1, StartKeepsTraces, StartCounts
<1>2. CASE Interrupt
  <2>1. NumbersInv'
    BY <1>2 DEF Interrupt, NumbersInv, Numbers, InLoop
  <2>2. QED
    BY <1>0, <1>2, <2>1, LookKeepsTraces
<1>3. CASE MachineStep
  BY <1>0, <1>3, StepKeepsTraces, StepCounts
<1>4. CASE UNCHANGED vars
  <2>1. NumbersInv'
    BY <1>4 DEF vars, NumbersInv, Numbers, InLoop
  <2>2. MachineInv' /\ TracesInv'
    BY <1>4, SameMachineTraces DEF vars, TraceInv, MachineInv, Typed, decoderVars, Dead
  <2>3. ControlInv'
    BY <1>4 DEF vars, TraceInv, ControlInv, Straight
  <2>4. ThreadInv'
    BY <1>4, SameThread DEF vars, TraceInv
  <2>5. QED
    BY <1>0, <2>1, <2>2, <2>3, <2>4 DEF TraceInv
<1>5. QED
  BY <1>1, <1>2, <1>3, <1>4 DEF Next

LEMMA RunInvInit == Init => RunInv
  BY TraceInit, NumbersInit, LimitInit DEF RunInv

(* Whatever the program, the engine, the decoder and the limits: cycles    *)
(* stay in 64 bits, threads are left over only while a trace runs, and a   *)
(* run that goes on has met no error and is not past the end of its guest. *)
THEOREM RunTypes == Spec => []RunTypeOK
<1>1. RunInv => RunTypeOK
  BY DEF RunInv, LimitInv, TraceInv, MachineInv, ControlInv, NumbersInv, Numbers, Errors, InLoop, RunTypeOK
<1>2. QED
  BY RunInvInit, RunInvStep, <1>1, PTL DEF Spec

(* Whatever is cached, memoized or built into a trace is what memory       *)
(* decodes to, on each of the machines: no store, loaded code, replaced    *)
(* program, other decoder or resumed run leaves a stale instruction behind.*)
(* A LUI that ends a trace because nothing behind it can be decoded would  *)
(* be fused with code that is loaded there; but a machine in front of one  *)
(* only fails, before it can make another system call.                     *)
THEOREM CachesHold == Spec => []CachedIsCurrent
<1>1. RunInv => CachedIsCurrent
  <2> SUFFICES ASSUME TraceInv, ~m.reset PROVE CachedIsCurrent
    BY DEF RunInv, CachedIsCurrent
  <2>1. /\ "current" \in Steady /\ CacheIsCurrent(icache, m.mem)
        /\ GoodTraces(traces, memo, dynamic, m.mem, Steady)
    BY DEF TraceInv, MachineInv, TracesInv, Steady, What, Both
  <2>2. ASSUME NEW t, Good(t, m.mem, Steady), Points(t, dynamic) PROVE CurrentTrace(t)
    <3>1. Len(t.insts) \in Nat
      BY <2>2 DEF Good
    <3>2. QED
      BY <2>1, <2>2, <3>1, CurrentIsInMem DEF Good, Points, CurrentTrace
  <2>3. \A slot \in DOMAIN traces : CurrentTrace(traces[slot])
    BY <2>1, <2>2 DEF GoodTraces, GoodFixed
  <2>4. \A pc \in DOMAIN memo : memo[pc].address = pc /\ CurrentTrace(memo[pc])
    BY <2>1, <2>2 DEF GoodTraces, GoodMemo
  <2>5. \A pc \in DOMAIN dynamic : dynamic[pc].address = pc /\ CurrentTrace(dynamic[pc])
    BY <2>1, <2>2 DEF GoodTraces, GoodDynamic, Points
  <2>6. QED
    BY <2>1, <2>3, <2>4, <2>5 DEF CachedIsCurrent, CacheIsCurrent
<1>2. QED
  BY RunInvInit, RunInvStep, <1>1, PTL DEF Spec

(***************************************************************************)
(* The line that the direct machine sees ahead                             *)
(***************************************************************************)

(* One more instruction of it.                                             *)
AheadFields == {"at", "count", "end"}
Ahead(mem, p) ==
  IF p.end # "open" THEN p
  ELSE IF ~Decodable(mem, p.at) THEN [p EXCEPT !.end = "broken"]
  ELSE [at    |-> p.at + InstAt(mem, p.at).len, count |-> p.count + 1,
        end   |-> IF IsBasicBlockEnd(InstAt(mem, p.at)) THEN "block" ELSE "open"]

NoneAhead(a) == [at |-> a, count |-> 0, end |-> "open"]
Aheads(mem, a, N, f) ==
  DOMAIN f = 0 .. N /\ f[0] = NoneAhead(a) /\ \A k \in 1 .. N : f[k] = Ahead(mem, f[k - 1])

LEMMA AheadsExist ==
  ASSUME NEW mem, NEW a
  PROVE  \A N \in Nat : \E f : Aheads(mem, a, N, f)
<1> DEFINE S == {N \in Nat : \E f : Aheads(mem, a, N, f)}
<1>1. 0 \in S
  <2>1. Aheads(mem, a, 0, [k \in 0 .. 0 |-> NoneAhead(a)])
    BY DEF Aheads
  <2>2. QED
    BY <2>1
<1>2. ASSUME NEW N \in Nat, N \in S PROVE N + 1 \in S
  <2>1. PICK f : Aheads(mem, a, N, f)
    BY <1>2
  <2> DEFINE g == [k \in 0 .. N + 1 |-> IF k = N + 1 THEN Ahead(mem, f[N]) ELSE f[k]]
  <2>2. /\ DOMAIN g = 0 .. N + 1 /\ g[0] = f[0] /\ g[N + 1] = Ahead(mem, f[N])
        /\ \A k \in 0 .. N : g[k] = f[k]
    OBVIOUS
  <2> HIDE DEF g
  <2>3. \A k \in 1 .. N + 1 : g[k] = Ahead(mem, g[k - 1])
    BY <2>1, <2>2 DEF Aheads
  <2>4. Aheads(mem, a, N + 1, g)
    BY <2>1, <2>2, <2>3 DEF Aheads
  <2>5. QED
    BY <2>4
<1> HIDE DEF S
<1>3. Nat \subseteq S
  BY <1>1, <1>2, AllNats
<1>4. QED
  BY <1>3 DEF S

(* The direct machine's step along the line.                               *)
LEMMA SameAhead ==
  ASSUME Mapped.mem = m.mem, NEW p
  PROVE  (CASE p.end # "open" -> p
            [] p.end = "open" /\ ~Direct!Decodable(Mapped.mem, p.at) -> [p EXCEPT !.end = "broken"]
            [] OTHER -> [at    |-> p.at + Direct!InMemory(p.at).len, count |-> p.count + 1,
                         end   |-> IF Direct!IsBasicBlockEnd(Direct!InMemory(p.at)) THEN "block" ELSE "open"])
         = Ahead(m.mem, p)
<1>1. Direct!Decodable(Mapped.mem, p.at) = Decodable(m.mem, p.at)
  BY SameDecodable
<1>2. Direct!InMemory(p.at) = InstAt(m.mem, p.at)
  BY SameDecodable, SameFuse DEF Direct!InMemory, InstAt
<1>3. Direct!IsBasicBlockEnd(InstAt(m.mem, p.at)) = IsBasicBlockEnd(InstAt(m.mem, p.at))
  BY Zenon DEF Direct!IsBasicBlockEnd, IsBasicBlockEnd, Direct!BlockEnds, BlockEnds, Direct!Ecalls, Ecalls,
               Direct!Jumps, Jumps
<1>4. QED
  BY <1>1, <1>2, <1>3, Zenon DEF Ahead

LEMMA LineFromIs ==
  ASSUME Mapped.mem = m.mem, NEW a
  PROVE  \E f : Aheads(m.mem, a, MemorySize + 1, f) /\ Direct!LineFrom(a) = f[MemorySize + 1]
<1> DEFINE N == MemorySize + 1
           Eq(f) ==
             f = [n \in 0 .. N |->
                    IF n = 0 THEN [at |-> a, count |-> 0, end |-> "open"]
                    ELSE LET p == f[n - 1]
                         IN  CASE p.end # "open" -> p
                               [] p.end = "open" /\ ~Direct!Decodable(Mapped.mem, p.at) -> [p EXCEPT !.end = "broken"]
                               [] OTHER -> [at    |-> p.at + Direct!InMemory(p.at).len, count |-> p.count + 1,
                                            end   |-> IF Direct!IsBasicBlockEnd(Direct!InMemory(p.at))
                                                      THEN "block" ELSE "open"]]
           line == CHOOSE f : Eq(f)
<1>1. Direct!LineFrom(a) = line[N]
  BY DEF Direct!LineFrom
<1>2. \A f : Eq(f) <=> f = [n \in 0 .. N |-> IF n = 0 THEN NoneAhead(a) ELSE Ahead(m.mem, f[n - 1])]
  BY SameAhead, Zenon DEF NoneAhead
<1>3. N \in Nat
  BY GuestCodeAssumption
<1> HIDE DEF N
<1>4. PICK f : Aheads(m.mem, a, N, f)
  BY <1>3, AheadsExist
<1> DEFINE g == [n \in 0 .. N |-> f[n]]
<1>5. g = [n \in 0 .. N |-> IF n = 0 THEN NoneAhead(a) ELSE Ahead(m.mem, g[n - 1])]
  BY <1>3, <1>4 DEF Aheads
<1>6. Eq(g)
  BY <1>2, <1>5, Zenon
<1> HIDE DEF Eq, g
<1>7. Eq(line)
  BY <1>6
<1> HIDE DEF line
<1>8. line = [n \in 0 .. N |-> IF n = 0 THEN NoneAhead(a) ELSE Ahead(m.mem, line[n - 1])]
  BY <1>2, <1>7
<1>9. DOMAIN line = 0 .. N
  BY <1>8, Zenon
<1>10. line[0] = NoneAhead(a)
  BY <1>3, <1>8
<1>11. ASSUME NEW n \in 1 .. N PROVE line[n] = Ahead(m.mem, line[n - 1])
  <2>1. n \in 0 .. N /\ n # 0
    BY <1>3
  <2>2. QED
    BY <1>8, <2>1, Zenon
<1>12. Aheads(m.mem, a, N, line)
  BY <1>9, <1>10, <1>11 DEF Aheads
<1>13. QED
  BY <1>1, <1>12 DEF N

(* The line only grows, until it ends.                                     *)
Grown(p, q) ==
  /\ DOMAIN q = AheadFields /\ q.count \in Nat /\ q.count >= p.count
  /\ p.end # "open" => q = p

LEMMA AheadGrows ==
  ASSUME NEW mem, NEW p, DOMAIN p = AheadFields, p.count \in Nat
  PROVE  Grown(p, Ahead(mem, p))
<1>1. CASE p.end # "open"
  BY <1>1 DEF Ahead, Grown
<1>2. CASE p.end = "open" /\ ~Decodable(mem, p.at)
  <2>1. Ahead(mem, p) = [p EXCEPT !.end = "broken"]
    BY <1>2 DEF Ahead
  <2>2. DOMAIN [p EXCEPT !.end = "broken"] = AheadFields /\ [p EXCEPT !.end = "broken"].count = p.count
    BY Zenon DEF AheadFields
  <2>3. QED
    BY <1>2, <2>1, <2>2 DEF Grown
<1>3. CASE p.end = "open" /\ Decodable(mem, p.at)
  <2>1. Ahead(mem, p).count = p.count + 1 /\ DOMAIN Ahead(mem, p) = AheadFields
    BY <1>3, Zenon DEF Ahead, AheadFields
  <2>2. QED
    BY <1>3, <2>1 DEF Grown
<1>4. QED
  BY <1>1, <1>2, <1>3

LEMMA LineGrows ==
  ASSUME NEW mem, NEW a, NEW N \in Nat, NEW f, Aheads(mem, a, N, f), NEW n \in 0 .. N,
         DOMAIN f[n] = AheadFields, f[n].count \in Nat
  PROVE  Grown(f[n], f[N])
<1> DEFINE S == {k \in Nat : n + k <= N => Grown(f[n], f[n + k])}
<1>1. 0 \in S
  BY DEF Grown
<1>2. ASSUME NEW k \in Nat, k \in S PROVE k + 1 \in S
  <2>1. CASE n + (k + 1) <= N
    <3>1. n + (k + 1) \in 1 .. N /\ (n + (k + 1)) - 1 = n + k /\ n + k <= N
      BY <2>1
    <3>2. f[n + (k + 1)] = Ahead(mem, f[n + k])
      BY <3>1 DEF Aheads
    <3>3. Grown(f[n], f[n + k])
      BY <1>2, <3>1
    <3>4. Grown(f[n + k], f[n + (k + 1)])
      BY <3>2, <3>3, AheadGrows DEF Grown
    <3>5. Grown(f[n], f[n + (k + 1)])
      BY <3>3, <3>4 DEF Grown
    <3>6. QED
      BY <3>5
  <2>2. CASE ~(n + (k + 1) <= N)
    BY <2>2
  <2>3. QED
    BY <2>1, <2>2
<1> HIDE DEF S
<1>3. Nat \subseteq S
  BY <1>1, <1>2, AllNats
<1>4. N - n \in S /\ n + (N - n) = N
  BY <1>3
<1>5. QED
  BY <1>4 DEF S

(* Along instructions that memory decodes to.                              *)
Along(p, a, insts, k) ==
  /\ DOMAIN p = AheadFields /\ p.at = a + Offset(insts, k) /\ p.count = k
  /\ p.end = IF k > 0 /\ IsBasicBlockEnd(insts[k]) THEN "block" ELSE "open"

LEMMA ShortLine ==
  ASSUME NEW mem \in Memory, NEW a \in Int, NEW insts \in Seq(Instruction), InMem(mem, a, insts)
  PROVE  Len(insts) \in 0 .. MemorySize
<1>1. Len(insts) \in Nat /\ MemorySize \in Nat
  BY GuestCodeAssumption
<1>2. CASE Len(insts) > 0
  <2>1. 1 \in 1 .. Len(insts) /\ Len(insts) \in 1 .. Len(insts)
    BY <1>1, <1>2
  <2>2. a + Offset(insts, 1 - 1) \in Addr /\ a + Offset(insts, Len(insts) - 1) \in Addr
    BY <2>1, WhatIsDecodable DEF InMem
  <2>3. Offset(insts, 0) = 0
    BY <1>1, OffsetIs
  <2>4. Offset(insts, Len(insts) - 1) \in Nat /\ Offset(insts, Len(insts) - 1) >= Len(insts) - 1
    <3>1. Len(insts) - 1 \in 0 .. Len(insts)
      BY <1>1, <1>2
    <3>2. QED
      BY <3>1, OffsetTypes
  <2>5. QED
    BY <1>1, <2>2, <2>3, <2>4 DEF Addr
<1>3. QED
  BY <1>1, <1>2

LEMMA LineAlong ==
  ASSUME NEW mem \in Memory, NEW a \in Int, NEW insts \in Seq(Instruction), Straight(insts), InMem(mem, a, insts),
         NEW N \in Nat, Len(insts) <= N, NEW f, Aheads(mem, a, N, f)
  PROVE  Along(f[Len(insts)], a, insts, Len(insts))
<1> DEFINE S == {k \in Nat : k <= Len(insts) => Along(f[k], a, insts, k)}
<1>1. Len(insts) \in Nat
  OBVIOUS
<1>2. 0 \in S
  <2>1. f[0] = NoneAhead(a) /\ Offset(insts, 0) = 0
    BY <1>1, OffsetIs DEF Aheads
  <2>2. DOMAIN f[0] = AheadFields /\ f[0].at = a /\ f[0].count = 0 /\ f[0].end = "open"
    BY <2>1 DEF NoneAhead, AheadFields
  <2>3. QED
    BY <2>1, <2>2 DEF Along
<1>3. ASSUME NEW k \in Nat, k \in S PROVE k + 1 \in S
  <2>1. CASE k + 1 <= Len(insts)
    <3>1. k + 1 \in 1 .. Len(insts) /\ k + 1 \in 1 .. N /\ (k + 1) - 1 = k /\ k <= Len(insts)
      BY <1>1, <2>1
    <3>2. Along(f[k], a, insts, k)
      BY <1>3, <3>1
    <3>3. f[k].end = "open" /\ f[k].at = a + Offset(insts, k) /\ f[k].count = k
      <4>1. k > 0 => k \in 1 .. Len(insts) - 1
        BY <1>1, <2>1
      <4>2. QED
        BY <3>2, <4>1 DEF Along, Straight
    <3>4. Decodable(mem, f[k].at) /\ InstAt(mem, f[k].at) = insts[k + 1]
      BY <3>1, <3>3 DEF InMem
    <3>5. f[k + 1] = Ahead(mem, f[k])
      BY <3>1 DEF Aheads
    <3>6. f[k + 1] = [at    |-> f[k].at + insts[k + 1].len, count |-> f[k].count + 1,
                      end   |-> IF IsBasicBlockEnd(insts[k + 1]) THEN "block" ELSE "open"]
      BY <3>3, <3>4, <3>5 DEF Ahead
    <3>7. Offset(insts, k + 1) = Offset(insts, k) + insts[k + 1].len
      BY <1>1, <3>1, OffsetIs
    <3>8. Offset(insts, k) \in Nat /\ insts[k + 1].len \in Nat
      <4>1. k \in 0 .. Len(insts)
        BY <1>1, <2>1
      <4>2. QED
        BY <3>1, <4>1, OffsetTypes, InstsTypes
    <3>9. a + Offset(insts, k + 1) = f[k].at + insts[k + 1].len
      BY <3>3, <3>7, <3>8
    <3>10. /\ DOMAIN f[k + 1] = AheadFields /\ f[k + 1].at = f[k].at + insts[k + 1].len
           /\ f[k + 1].count = f[k].count + 1
           /\ f[k + 1].end = IF IsBasicBlockEnd(insts[k + 1]) THEN "block" ELSE "open"
      BY <3>6 DEF AheadFields
    <3>11. k + 1 > 0
      OBVIOUS
    <3>12. Along(f[k + 1], a, insts, k + 1)
      BY <3>3, <3>9, <3>10, <3>11 DEF Along
    <3>13. QED
      BY <3>12
  <2>2. CASE ~(k + 1 <= Len(insts))
    BY <2>2
  <2>3. QED
    BY <2>1, <2>2
<1> HIDE DEF S
<1>4. Nat \subseteq S
  BY <1>2, <1>3, AllNats
<1>5. QED
  BY <1>1, <1>4 DEF S

(* The direct machine sees as far as a trace goes.                         *)
LEMMA LongLine ==
  ASSUME Mapped.mem = m.mem, m.mem \in Memory, NEW a \in Int, NEW insts \in Seq(Instruction), insts # <<>>,
         Straight(insts), InMem(m.mem, a, insts)
  PROVE  Len(insts) \in 1 .. Direct!LineFrom(a).count
<1>1. PICK f : Aheads(m.mem, a, MemorySize + 1, f) /\ Direct!LineFrom(a) = f[MemorySize + 1]
  BY LineFromIs
<1>2. MemorySize + 1 \in Nat /\ Len(insts) \in 1 .. MemorySize + 1
  <2>1. Len(insts) \in 0 .. MemorySize /\ Len(insts) # 0
    BY ShortLine
  <2>2. QED
    BY <2>1, GuestCodeAssumption
<1>3. Along(f[Len(insts)], a, insts, Len(insts))
  BY <1>1, <1>2, LineAlong
<1>4. Grown(f[Len(insts)], f[MemorySize + 1])
  BY <1>1, <1>2, <1>3, LineGrows DEF Along
<1>5. QED
  BY <1>1, <1>2, <1>3, <1>4 DEF Along, Grown

LEMMA OpenIsStraight == ASSUME NEW insts \in Seq(Instruction), Open(insts) PROVE Straight(insts)
  BY DEF Open, Straight

(* The direct machine sees that a doomed one must fail.                    *)
LEMMA DoomedLine ==
  ASSUME Mapped.mem = m.mem, m.mem \in Memory, NEW a \in Int, Doomed(m.mem, a)
  PROVE  Direct!LineFrom(a).end = "broken"
<1>1. PICK f : Aheads(m.mem, a, MemorySize + 1, f) /\ Direct!LineFrom(a) = f[MemorySize + 1]
  BY LineFromIs
<1>2. PICK insts \in Seq(Instruction) :
        InMem(m.mem, a, insts) /\ Open(insts) /\ ~Decodable(m.mem, a + Length(insts))
  BY DEF Doomed
<1> DEFINE n == Len(insts)
           p == f[n]
           q == f[n + 1]
<1>3. MemorySize + 1 \in Nat /\ n \in 0 .. MemorySize /\ n <= MemorySize + 1 /\ n + 1 \in 1 .. MemorySize + 1
  BY <1>2, ShortLine, GuestCodeAssumption
<1>4. Along(p, a, insts, n)
  BY <1>1, <1>2, <1>3, LineAlong, OpenIsStraight
<1> HIDE DEF n
<1>5. DOMAIN p = AheadFields /\ p.count \in Nat /\ p.end = "open" /\ ~Decodable(m.mem, p.at)
  <2>1. n > 0 => n \in 1 .. Len(insts)
    BY <1>3 DEF n
  <2>2. QED
    BY <1>2, <1>3, <1>4, <2>1 DEF Along, Open, Length, n
<1>6. q = Ahead(m.mem, p)
  <2>1. (n + 1) - 1 = n
    BY <1>3
  <2>2. QED
    BY <1>1, <1>3, <2>1 DEF Aheads
<1> HIDE DEF p, q
<1>7. q = [p EXCEPT !.end = "broken"]
  BY <1>5, <1>6 DEF Ahead
<1>8. DOMAIN q = AheadFields /\ q.count = p.count /\ q.end = "broken"
  BY <1>5, <1>7, Zenon DEF AheadFields
<1>9. Grown(q, f[MemorySize + 1])
  <2>1. n + 1 \in 0 .. MemorySize + 1
    BY <1>3
  <2>2. QED
    BY <1>1, <1>3, <1>5, <1>8, <2>1, LineGrows DEF q
<1>10. QED
  BY <1>1, <1>8, <1>9 DEF Grown


(***************************************************************************)
(* What the machine shows                                                  *)
(***************************************************************************)

(* The machine at the instruction that is next: the assembly machine has   *)
(* moved behind what is left of its trace, and has paid for it.            *)
AtNext(x, rest) ==
  IF setup.engine = "asm"
  THEN [x EXCEPT !.pc = @ - Length(rest), !.cycles = @ - Len(rest) * setup.price] ELSE x

LEMMA AtNextIs ==
  ASSUME NEW x, DOMAIN x = Fields, NEW rest
  PROVE  /\ DOMAIN AtNext(x, rest) = Fields
         /\ AtNext(x, rest).mem = x.mem /\ AtNext(x, rest).acc = x.acc /\ AtNext(x, rest).max = x.max
         /\ AtNext(x, rest).running = x.running /\ AtNext(x, rest).reset = x.reset /\ AtNext(x, rest).err = x.err
  BY Zenon DEF AtNext, Fields

LEMMA AtNextOfAsm ==
  ASSUME NEW x, DOMAIN x = Fields, NEW rest, setup.engine = "asm"
  PROVE  /\ AtNext(x, rest).pc = x.pc - Length(rest)
         /\ AtNext(x, rest).cycles = x.cycles - Len(rest) * setup.price
  BY Zenon DEF AtNext, Fields

(* Machines are the same that have the same in each of their fields.       *)
Whole(x) == x = [f \in Fields |-> x[f]]

LEMMA SameFields ==
  ASSUME NEW x, NEW y, Whole(x), Whole(y),
         /\ x.mem = y.mem /\ x.pc = y.pc /\ x.acc = y.acc /\ x.cycles = y.cycles
         /\ x.max = y.max /\ x.running = y.running /\ x.reset = y.reset /\ x.err = y.err
  PROVE  x = y
<1>1. \A f \in Fields : x[f] = y[f]
  BY Zenon DEF Fields
<1>2. QED
  BY <1>1, Zenon DEF Whole

LEMMA AtNextOfNone ==
  ASSUME NEW x, Numbers(x), Whole(x), setup.price \in Nat
  PROVE  AtNext(x, <<>>) = x
<1>1. x.pc - Length(<<>>) = x.pc /\ x.cycles - Len(<<>>) * setup.price = x.cycles
  <2>1. Length(<<>>) = 0 /\ Len(<<>>) = 0 /\ 0 * setup.price = 0
    BY NoLength
  <2>2. x.pc \in Int /\ x.cycles \in Int
    BY GuestCodeAssumption DEF Numbers
  <2>3. QED
    BY <2>1, <2>2
<1>2. [x EXCEPT !.pc = x.pc, !.cycles = x.cycles] = x
  <2> DEFINE y == [x EXCEPT !.pc = x.pc, !.cycles = x.cycles]
  <2>1. DOMAIN x = Fields
    BY DEF Numbers
  <2>2. Whole(y)
    BY <2>1, Zenon DEF Whole
  <2>3. /\ y.mem = x.mem /\ y.pc = x.pc /\ y.acc = x.acc /\ y.cycles = x.cycles
        /\ y.max = x.max /\ y.running = x.running /\ y.reset = x.reset /\ y.err = x.err
    BY <2>1, Zenon DEF Fields
  <2> HIDE DEF y
  <2>4. y = x
    BY <2>2, <2>3, SameFields, Zenon
  <2>5. QED
    BY <2>4 DEF y
<1>3. QED
  BY <1>1, <1>2, Zenon DEF AtNext

LEMMA MappedIs ==
  ASSUME DOMAIN m = Fields
  PROVE  Mapped = View(AtNext(m, left), phase = "new")
<1> DEFINE seen == AtNext(m, left)
<1>1. seen.err = m.err
  BY AtNextIs
<1>2. Mapped = LET alive == [seen EXCEPT !.reset = FALSE, !.running = phase = "new" \/ @]
               IN  CASE m.err = "Pause" -> [alive EXCEPT !.err = "none"]
                     [] m.err \in {"Error", "InvalidVersion", "CyclesOverflow"} ->
                          [alive EXCEPT !.pc = 0, !.cycles = 0, !.running = TRUE, !.err = "Error"]
                     [] OTHER -> alive
  BY Zenon DEF Mapped, AtNext
<1> HIDE DEF seen
<1>3. Mapped = View(seen, phase = "new")
  BY <1>1, <1>2, Zenon DEF View
<1>4. QED
  BY <1>3 DEF seen

LEMMA MappedWillBe ==
  ASSUME setup' = setup, DOMAIN m' = Fields
  PROVE  Mapped' = View(AtNext(m', left'), phase' = "new")
<1> DEFINE seen == AtNext(m', left')
<1>1. seen.err = m'.err
  BY AtNextIs
<1>2. seen = IF setup.engine = "asm"
             THEN [m' EXCEPT !.pc = @ - Length(left'), !.cycles = @ - Len(left') * setup.price] ELSE m'
  BY DEF AtNext
<1>3. (Length(left))' = Length(left')
  BY DEF Length, Offset
<1>4. Mapped' = LET alive == [seen EXCEPT !.reset = FALSE, !.running = phase' = "new" \/ @]
                IN  CASE m'.err = "Pause" -> [alive EXCEPT !.err = "none"]
                      [] m'.err \in {"Error", "InvalidVersion", "CyclesOverflow"} ->
                           [alive EXCEPT !.pc = 0, !.cycles = 0, !.running = TRUE, !.err = "Error"]
                      [] OTHER -> alive
  <2> HIDE DEF seen
  <2>1. QED
    BY <1>2, <1>3, Zenon DEF Mapped
<1> HIDE DEF seen
<1>5. Mapped' = View(seen, phase' = "new")
  BY <1>1, <1>4, Zenon DEF View
<1>6. QED
  BY <1>5 DEF seen

(* What was paid for the threads that are left is spent.                   *)
PaidFor == setup.engine = "asm" => m.cycles >= Len(left) * setup.price

(* Machines stay whole.                                                    *)
LEMMA SetWhole ==
  ASSUME NEW x, DOMAIN x = Fields, NEW f, NEW v
  PROVE  Whole([x EXCEPT ![f] = v])
  BY Zenon DEF Whole

LEMMA AddCyclesWhole == ASSUME NEW x, DOMAIN x = Fields, NEW c PROVE Whole(AddCycles(x, c))
  BY SetWhole, Zenon DEF AddCycles

LEMMA ExecuteWhole ==
  ASSUME NEW x, DOMAIN x = Fields, NEW i, NEW o
  PROVE  Whole(Execute(x, i, o))
<1> DEFINE next == [x EXCEPT !.pc = @ + i.len]
<1>1. DOMAIN next = Fields /\ Whole(next)
  BY Zenon DEF Whole
<1> HIDE DEF next
<1>2. \/ i.op \in Computing /\ Execute(x, i, o) = Compute(next, i)
      \/ i.op \in Ecalls /\ Execute(x, i, o) = Call(next, i, o)
      \/ Execute(x, i, o) = Store(next, i.arg)
      \/ Execute(x, i, o) = Failed(next)
      \/ Execute(x, i, o) = [x EXCEPT !.pc = Target(x, i)]
  BY Zenon DEF Execute, next, Computing, Ecalls, Jumps
<1>3. i.op \in Computing => Whole(Compute(next, i))
  BY <1>1, SetWhole, Zenon DEF Compute, Accumulate, Computing
<1>4. Whole(Exec(next, i.arg, o))
  BY <1>1, Zenon DEF Whole, Exec
<1>5. Whole(AddCyclesInSyscall(next, SyscallCycles))
  BY <1>1, Zenon DEF Whole, AddCyclesInSyscall
<1>6. Whole(LoadCode(next, i.arg)) /\ Whole(Store(next, i.arg)) /\ Whole(Failed(next))
  BY <1>1, SetWhole, Zenon DEF LoadCode, Store, Failed
<1>7. i.op \in Ecalls => Whole(Call(next, i, o))
  <2>1. i.op \in Ecalls =>
          \/ Call(next, i, o) = [next EXCEPT !.running = FALSE]
          \/ Call(next, i, o) = Exec(next, i.arg, o)
          \/ Call(next, i, o) = LoadCode(next, i.arg)
          \/ Call(next, i, o) = AddCyclesInSyscall(next, SyscallCycles)
          \/ Call(next, i, o) = Failed(next)
    BY Zenon DEF Call, Ecalls
  <2>2. Whole([next EXCEPT !.running = FALSE])
    BY <1>1, SetWhole
  <2>3. QED
    BY <1>4, <1>5, <1>6, <2>1, <2>2, Zenon
<1>8. Whole([x EXCEPT !.pc = Target(x, i)])
  BY SetWhole
<1>9. QED
  BY <1>2, <1>3, <1>6, <1>7, <1>8, Zenon

LEMMA PayAndExecuteWhole ==
  ASSUME NEW x, DOMAIN x = Fields, NEW i
  PROVE  Whole(PayAndExecute(x, i))
<1>1. Whole(Paid(x, i)) /\ DOMAIN Paid(x, i) = Fields
  BY AddCyclesWhole, Zenon DEF Paid, AddCycles
<1>2. QED
  BY <1>1, ExecuteWhole DEF PayAndExecute

(* The invariant under which every step is one of the direct machine.      *)
RefineInv == RunInv /\ RunnableInv /\ PaidFor /\ Whole(m)

(***************************************************************************)
(* Steps                                                                   *)
(***************************************************************************)
LEMMA LiveView ==
  ASSUME NEW x, Running(x)
  PROVE  View(x, FALSE) = [x EXCEPT !.reset = FALSE]
  BY Zenon DEF View, Running, Fields

LEMMA WholeView ==
  ASSUME NEW x, Running(x), Whole(x), x.reset = FALSE
  PROVE  View(x, FALSE) = x
<1> DEFINE y == [x EXCEPT !.reset = FALSE]
<1>1. Whole(y)
  BY SetWhole DEF Running
<1>2. /\ y.mem = x.mem /\ y.pc = x.pc /\ y.acc = x.acc /\ y.cycles = x.cycles
      /\ y.max = x.max /\ y.running = x.running /\ y.reset = x.reset /\ y.err = x.err
  BY Zenon DEF Running, Fields
<1>3. View(x, FALSE) = y
  BY LiveView
<1> HIDE DEF y
<1>4. QED
  BY <1>1, <1>2, <1>3, SameFields

(* A machine in its loop.                                                  *)
LEMMA LoopIs ==
  ASSUME RefineInv, phase \notin {"new", "idle"}, m.running
  PROVE  /\ setup \in Setups /\ setup.price \in Nat /\ Running(m) /\ Numbers(m) /\ Typed(m) /\ ~InvalidVersion
         /\ ~Direct!Refused
         /\ phase # "thread" => left = <<>> /\ AtNext(m, left) = m
         /\ Mapped = View(AtNext(m, left), FALSE)
<1>1. /\ setup \in Setups /\ Numbers(m) /\ Typed(m) /\ m.err = "none" /\ ~InvalidVersion /\ Whole(m)
  BY DEF RefineInv, RunInv, TraceInv, MachineInv, NumbersInv, LimitInv, RunnableInv, InLoop
<1>2. setup.price \in Nat
  BY <1>1, SetupTypes
<1>3. Running(m) /\ DOMAIN m = Fields
  BY <1>1 DEF Running, Numbers
<1>4. ~Direct!Refused
  BY <1>1 DEF Direct!Refused, InvalidVersion
<1>5. phase # "thread" => left = <<>> /\ AtNext(m, left) = m
  BY <1>1, <1>2, AtNextOfNone DEF RefineInv, RunInv, TraceInv, ControlInv
<1>6. Mapped = View(AtNext(m, left), FALSE)
  BY <1>3, MappedIs
<1>7. QED
  BY <1>1, <1>2, <1>3, <1>4, <1>5, <1>6

(* Nothing has happened to the direct machine.                             *)
LEMMA NothingSeen ==
  ASSUME setup' = setup, DOMAIN m' = Fields, NEW x, Mapped = View(x, FALSE), phase' # "new",
         View(AtNext(m', left'), FALSE) = View(x, FALSE)
  PROVE  UNCHANGED Direct!vars
<1>1. Mapped' = View(AtNext(m', left'), FALSE)
  BY MappedWillBe
<1>2. QED
  BY <1>1 DEF Direct!vars

(* A machine that decodes a line ahead fails at once where it must fail.   *)
LEMMA FailsAhead ==
  ASSUME setup' = setup, setup.engine # "interpreter", NEW x, Running(x), x.reset = FALSE, Mapped = x, x.mem = m.mem,
         m.mem \in Memory, x.pc \in Int, Doomed(m.mem, x.pc), Mapped' = View(Failed(x), FALSE)
  PROVE  Direct!Next
<1>1. Direct!Ready
  BY DEF Direct!Ready, Running
<1>2. Mapped' = Direct!Settle(Failed(x))
  BY FailedOutcome, SettleIsView
<1>3. Direct!Settle(Failed(x)) = Direct!Broken
  <2>1. Failed(x).err = "Error"
    BY Zenon DEF Failed, Running, Fields
  <2>2. QED
    BY <2>1, Zenon DEF Direct!Settle
<1>4. Direct!LineFrom(Mapped.pc).end = "broken"
  BY DoomedLine
<1>5. Direct!FailAhead
  BY <1>1, <1>2, <1>3, <1>4, Zenon DEF Direct!FailAhead
<1>6. QED
  BY <1>5 DEF Direct!Next

(* What a decoder cannot prepare is doomed.                                *)
LEMMA FailsDoomed ==
  ASSUME NEW mem, NEW pc \in Int, Fails(mem, pc)
  PROVE  Doomed(mem, pc)
<1>1. CASE \E line : Line(line, mem, pc) /\ ~line.ok
  BY <1>1, LineDoomed
<1>2. ASSUME NEW line, NEW next, Line(line, mem, pc), line.ok, ~line.end, Line(next, mem, line.at), ~next.ok
      PROVE  Doomed(mem, pc)
  <2>1. /\ line.insts \in Seq(Instruction) /\ Straight(line.insts) /\ InMem(mem, pc, line.insts)
        /\ line.insts # <<>> => line.at = pc + Length(line.insts) /\ ~IsBasicBlockEnd(line.insts[Len(line.insts)])
        /\ line.insts = <<>> => line.at = pc
    BY <1>2 DEF Line
  <2>2. line.at = pc + Length(line.insts) /\ Length(line.insts) \in Nat
    BY <2>1, NoLength, LengthTypes
  <2>3. Open(line.insts)
    BY <2>1, StraightIsOpen
  <2>4. line.at \in Int
    BY <2>2
  <2>5. Doomed(mem, line.at)
    BY <1>2, <2>4, LineDoomed
  <2>6. QED
    BY <2>1, <2>2, <2>3, <2>5, JoinDoomed
<1>3. QED
  BY <1>1, <1>2 DEF Fails

LEMMA MaskIsHere ==
  ASSUME NEW x, Mapped = x
  PROVE  Mask(x.pc) \in Direct!Here
  BY DEF Mask, Direct!Here

(* The trace machine.                                                      *)
LEMMA TraceHeadRefines ==
  ASSUME RefineInv, DOMAIN m' = Fields, TraceHead
  PROVE  [Direct!Next]_(Direct!vars)
<1> DEFINE kept == KeptOf(traces)
           slot == CalculateSlot(m.pc)
           x    == AfterReset
<1>1. setup' = setup /\ setup.engine = "trace" /\ phase = "head" /\ m.running
  BY DEF TraceHead, Proceeds
<1>2. /\ setup \in Setups /\ setup.price \in Nat /\ Running(m) /\ Numbers(m) /\ AtNext(m, left) = m
      /\ Mapped = View(m, FALSE)
  BY <1>1, LoopIs
<1>3. /\ CacheIsCurrent(FreshCache, m.mem) /\ x.mem = m.mem /\ x.pc = m.pc /\ x.reset = FALSE /\ Typed(x)
  BY FreshIsGood DEF RefineInv, RunInv
<1>4. Running(x) /\ Mapped = x
  <2>1. Running(x)
    BY <1>2, Zenon DEF Running, AfterReset, Fields
  <2>2. QED
    BY <1>2, <2>1, LiveView DEF AfterReset
<1>5. \/ phase' = "thread" /\ m' = x
      \/ \E line \in {DecodeLine(FreshCache, m.mem, m.pc, TraceItemLength)} :
           ~line.ok /\ phase' = "idle" /\ m' = Failed(x)
  BY DEF TraceHead
<1> HIDE DEF x
<1>6. Mapped' = View(m', FALSE)
  <2>1. AtNext(m', left') = m'
    BY <1>1 DEF AtNext
  <2>2. phase' # "new"
    BY <1>5
  <2>3. QED
    BY <1>1, <2>1, <2>2, MappedWillBe
<1>7. CASE phase' = "thread" /\ m' = x
  <2>1. View(x, FALSE) = x
    <3>1. Whole(x)
      BY <1>2, SetWhole DEF x, AfterReset, Running
    <3>2. QED
      BY <1>3, <1>4, <3>1, WholeView
  <2>2. QED
    BY <1>1, <1>4, <1>6, <1>7, <2>1 DEF Direct!vars
<1>8. ASSUME NEW line \in {DecodeLine(FreshCache, m.mem, m.pc, TraceItemLength)},
             ~line.ok, m' = Failed(x)
      PROVE  Direct!Next
  <2>1. m.pc \in Int /\ m.mem \in Memory
    BY <1>2, <1>3 DEF Numbers, Typed
  <2>2. Line(line, m.mem, m.pc)
    BY <1>2, <1>3, <1>8, <2>1, DecodedLine, VmRunAssumption
  <2>3. Doomed(m.mem, m.pc)
    BY <1>8, <2>1, <2>2, LineDoomed
  <2>4. QED
    BY <1>1, <1>3, <1>4, <1>6, <1>8, <2>1, <2>3, FailsAhead
<1>9. QED
  BY <1>5, <1>7, <1>8

LEMMA TraceThreadRefines ==
  ASSUME RefineInv, DOMAIN m' = Fields, TraceThread
  PROVE  Direct!Next
<1> DEFINE i == Head(left)
           a == Mask(m.pc)
<1>1. /\ setup' = setup /\ setup.engine = "trace" /\ phase = "thread" /\ m' = PayAndExecute(m, i)
      /\ phase' \in {"idle", "thread", "head"}
  BY DEF TraceThread
<1>2. left # <<>> /\ m.reset = FALSE /\ m.running
  <2>1. ~m.reset /\ left # <<>> /\ m.running
    BY <1>1 DEF RefineInv, RunInv, TraceInv, ControlInv, NumbersInv, InLoop
  <2>2. QED
    BY <2>1
<1>3. /\ setup.price \in Nat /\ Running(m) /\ ~Direct!Refused /\ Mapped = View(AtNext(m, left), FALSE) /\ m.pc \in Int
  BY <1>1, <1>2, LoopIs DEF Numbers
<1>4. AtNext(m, left) = m /\ AtNext(m', left') = m' /\ SeenPc = m.pc
  BY <1>1 DEF AtNext, SeenPc
<1>5. Mapped = m
  BY <1>2, <1>3, <1>4, WholeView DEF RefineInv
<1>6. Mapped' = View(m', FALSE)
  BY <1>1, <1>4, MappedWillBe
<1>7. Decodable(m.mem, a) /\ i = InstAt(m.mem, a)
  BY <1>1, <1>2, <1>3, <1>4, ThreadIs DEF RefineInv, RunInv, NextThread
<1> HIDE DEF i
<1>8. a \in Direct!Here
  BY <1>5, MaskIsHere
<1> HIDE DEF a
<1>9. Outcome(m, m')
  BY <1>1, <1>3, PayAndExecuteOutcome
<1>10. QED
  BY <1>1, <1>2, <1>3, <1>5, <1>6, <1>7, <1>8, <1>9, StepRefines

(* The assembly machine.                                                   *)
LEMMA AsmHeadRefines ==
  ASSUME RefineInv, DOMAIN m' = Fields, AsmHead
  PROVE  UNCHANGED Direct!vars
<1>1. /\ setup' = setup /\ phase = "head" /\ m.running /\ phase' = "enter" /\ m' = AfterReset /\ left' = left
  BY DEF AsmHead, Proceeds
<1>2. /\ Running(m) /\ AtNext(m, left) = m /\ Mapped = View(m, FALSE) /\ setup.price \in Nat /\ left = <<>>
  BY <1>1, LoopIs
<1>3. Running(AfterReset) /\ AfterReset.reset = FALSE
  BY <1>2, Zenon DEF Running, AfterReset, Fields
<1>4. Whole(AfterReset)
  BY <1>2, SetWhole DEF AfterReset, Running
<1>5. AtNext(m', left') = m'
  <2>1. Numbers(m')
    BY <1>1, AfterResetCounts DEF RefineInv, RunInv, Counts
  <2>2. QED
    BY <1>1, <1>2, <1>4, <2>1, AtNextOfNone
<1>6. View(m', FALSE) = View(m, FALSE)
  BY <1>1, <1>2, <1>3, <1>4, LiveView, WholeView DEF AfterReset
<1>7. QED
  BY <1>1, <1>2, <1>5, <1>6, NothingSeen

(* A trace is paid for as a whole, or refused as a whole where the machine *)
(* could pay for some of it.                                               *)
LEMMA LoadTraceRefines ==
  ASSUME RefineInv, DOMAIN m' = Fields, setup.engine = "asm", phase \in {"enter", "prepare", "thread"}, left = <<>>,
         NEW t, Good(t, m.mem, Steady), t.insts # <<>>, t.address = Mask(m.pc), LoadTrace(t), setup' = setup
  PROVE  [Direct!Next]_(Direct!vars)
<1> DEFINE n    == Len(t.insts)
           paid == AddCycles(m, t.cycles)
           a    == Mask(m.pc)
<1>1. m.reset = FALSE /\ m.running
  <2>1. ~m.reset /\ m.running
    BY DEF RefineInv, RunInv, TraceInv, ControlInv, NumbersInv, InLoop
  <2>2. QED
    BY <2>1
<1>2. /\ setup.price \in Nat /\ Running(m) /\ Numbers(m) /\ Typed(m) /\ AtNext(m, left) = m /\ Whole(m)
      /\ Mapped = View(AtNext(m, left), FALSE)
  BY <1>1, LoopIs, AtNextOfNone DEF RefineInv
<1>3. Mapped = m
  BY <1>1, <1>2, WholeView
<1>4. /\ t.insts \in Seq(Instruction) /\ Straight(t.insts) /\ t.cycles = n * setup.price
      /\ t.length = Length(t.insts) /\ InMem(m.mem, a, t.insts)
  <2>1. "current" \in Steady
    BY <1>1 DEF Steady, What, Both
  <2>2. QED
    BY <2>1 DEF Good
<1>5. m.pc \in Int /\ m.cycles \in Int /\ t.length \in Nat /\ t.cycles \in Nat
  <2>1. n \in Nat
    BY <1>4
  <2>2. \A b, c \in Nat : b * c \in Nat
    OBVIOUS
  <2>3. QED
    BY <1>2, <1>4, <2>1, <2>2, LengthTypes, GuestCodeAssumption DEF Numbers
<1>6. /\ DOMAIN paid = Fields /\ Whole(paid) /\ Counts(m, paid)
      /\ paid.mem = m.mem /\ paid.acc = m.acc /\ paid.max = m.max /\ paid.running = m.running
      /\ paid.reset = m.reset /\ paid.pc = m.pc
      /\ paid.err \in {"none", "CyclesOverflow", "CyclesExceeded"}
      /\ paid.err = "none" => paid.cycles = m.cycles + t.cycles
  <2>1. Whole(paid) /\ Counts(m, paid)
    BY <1>2, <1>5, AddCyclesWhole, ChargeCounts DEF Numbers
  <2>2. DOMAIN m = Fields /\ m.err = "none"
    BY <1>2 DEF Running
  <2>3. QED
    BY <2>1, <2>2, Zenon DEF AddCycles, Fields
<1>7. CASE paid.err # "none"
  <2>1. m' = paid /\ phase' = "idle" /\ left' = <<>>
    BY <1>7 DEF LoadTrace
  <2>2. Mapped' = View(paid, FALSE)
    <3>1. AtNext(paid, <<>>) = paid
      BY <1>2, <1>6, AtNextOfNone DEF Counts
    <3>2. QED
      BY <2>1, <3>1, MappedWillBe
  <2>3. Outcome(m, paid)
    <3>1. paid.running \in BOOLEAN /\ paid.cycles \in Nat /\ paid.running
      BY <1>1, <1>6, GuestCodeAssumption DEF Counts, Numbers
    <3>2. QED
      BY <1>6, <1>7, <3>1 DEF Outcome
  <2>4. Mapped' = Direct!Settle(paid)
    BY <1>1, <1>2, <1>3, <2>2, <2>3, SettleIsView
  <2>5. paid = Direct!AddCycles(Mapped, n * setup.price)
    BY <1>3, <1>4, SameAddCycles
  <2>6. a \in Direct!Here /\ a \in Int
    BY <1>3, <1>5, MaskIsHere, MaskTypes
  <2>7. n \in 1 .. Direct!LineFrom(a).count
    BY <1>2, <1>3, <1>4, <2>6, LongLine DEF Typed
  <2>8. Direct!Ready
    BY <1>2, <1>3 DEF Direct!Ready, Running
  <2> HIDE DEF n, a, paid
  <2>9. Direct!ShortAhead
    BY <1>7, <2>4, <2>5, <2>6, <2>7, <2>8 DEF Direct!ShortAhead
  <2>10. QED
    BY <2>9 DEF Direct!Next, LoadTrace
<1>8. CASE paid.err = "none"
  <2> DEFINE seen == AtNext(m', left')
  <2>1. m' = [paid EXCEPT !.pc = @ + t.length] /\ phase' = "thread" /\ left' = t.insts
    BY <1>8 DEF LoadTrace
  <2>2. DOMAIN m' = Fields /\ m'.pc = m.pc + t.length /\ m'.cycles = m.cycles + t.cycles
        /\ m'.mem = m.mem /\ m'.acc = m.acc /\ m'.max = m.max /\ m'.running = m.running
        /\ m'.reset = m.reset /\ m'.err = m.err
    <3>1. m.err = "none"
      BY <1>2 DEF Running
    <3>2. QED
      BY <1>6, <1>8, <2>1, <3>1, Zenon DEF Fields
  <2>3. /\ seen.pc = m.pc /\ seen.cycles = m.cycles
    <3>1. seen.pc = m'.pc - Length(left') /\ seen.cycles = m'.cycles - Len(left') * setup.price
      BY <2>2, AtNextOfAsm
    <3>2. seen.pc = (m.pc + t.length) - t.length /\ seen.cycles = (m.cycles + t.cycles) - t.cycles
      BY <1>4, <2>1, <2>2, <3>1
    <3>3. QED
      BY <1>5, <3>2
  <2>4. /\ seen.mem = m.mem /\ seen.acc = m.acc /\ seen.max = m.max /\ seen.running = m.running
        /\ seen.reset = m.reset /\ seen.err = m.err
    BY <2>2, AtNextIs
  <2>5. Whole(seen)
    BY <2>2, Zenon DEF Whole, AtNext
  <2> HIDE DEF seen
  <2>6. seen = m
    BY <1>2, <2>3, <2>4, <2>5, SameFields
  <2>7. QED
    BY <1>2, <2>1, <2>6, NothingSeen DEF seen
<1>9. QED
  BY <1>7, <1>8

LEMMA AsmHitRefines ==
  ASSUME RefineInv, DOMAIN m' = Fields, AsmHit
  PROVE  [Direct!Next]_(Direct!vars)
<1> DEFINE t == traces[CalculateSlot(m.pc)]
<1>1. setup' = setup /\ phase \in {"enter", "prepare"} /\ TraceHit(t, m.pc) /\ LoadTrace(t)
  BY DEF AsmHit
<1>2. Good(t, m.mem, Steady)
  BY SlotTypes DEF RefineInv, RunInv, TraceInv, TracesInv, GoodTraces, GoodFixed, NumbersInv, Numbers
<1>3. setup.engine = "asm" /\ left = <<>>
  BY <1>1 DEF RefineInv, RunInv, TraceInv, ControlInv
<1> HIDE DEF t
<1>4. t.insts # <<>> /\ t.address = Mask(m.pc)
  BY <1>1, <1>3 DEF TraceHit, Mask
<1>5. QED
  BY <1>1, <1>2, <1>3, <1>4, LoadTraceRefines

LEMMA AsmTraceEndRefines ==
  ASSUME RefineInv, DOMAIN m' = Fields, AsmTraceEnd
  PROVE  [Direct!Next]_(Direct!vars)
<1>1. setup' = setup /\ phase = "thread" /\ setup.engine = "asm" /\ left = <<>>
  BY DEF AsmTraceEnd
<1>2. CASE tail = NoPc
  <2>1. phase' = "enter" /\ UNCHANGED <<m, left, tail>>
    BY <1>2 DEF AsmTraceEnd
  <2>2. m.running
    BY <1>1 DEF RefineInv, RunInv, NumbersInv, InLoop
  <2>3. Mapped = View(AtNext(m, left), FALSE)
    BY <1>1, <2>2, LoopIs
  <2>4. QED
    BY <1>1, <2>1, <2>3, NothingSeen
<1>3. CASE tail # NoPc
  <2>1. LoadTrace(dynamic[tail])
    BY <1>3 DEF AsmTraceEnd
  <2>2. tail \in DOMAIN dynamic
    BY <1>1, <1>3 DEF RefineInv, RunInv, TraceInv, ControlInv
  <2>3. /\ Good(dynamic[tail], m.mem, Steady) /\ dynamic[tail].insts # <<>> /\ dynamic[tail].address = tail
    BY <2>2 DEF RefineInv, RunInv, TraceInv, TracesInv, GoodTraces, GoodDynamic
  <2>4. tail = Mask(m.pc)
    <3>1. tail = Mask(SeenPc) + Length(left) /\ Length(left) = 0 /\ SeenPc = m.pc /\ m.pc \in Int
      BY <1>1, <1>3, NoLength DEF RefineInv, RunInv, TraceInv, ThreadInv, SeenPc, NumbersInv, Numbers
    <3>2. QED
      BY <3>1, MaskTypes
  <2>5. QED
    BY <1>1, <2>1, <2>3, <2>4, LoadTraceRefines
<1>4. QED
  BY <1>2, <1>3

LEMMA AsmMissRefines ==
  ASSUME RefineInv, DOMAIN m' = Fields, AsmMiss
  PROVE  [Direct!Next]_(Direct!vars)
<1> DEFINE made == PrepareTraces(m.pc)
<1>1. /\ phase \in {"enter", "prepare"} /\ UNCHANGED <<setup, left>>
      /\ (phase' = "head" /\ m' = m) \/ (~made.ok /\ m' = Failed(m) /\ phase' = "idle")
  BY DEF AsmMiss
<1>2. setup.engine = "asm" /\ left = <<>> /\ m.reset = FALSE /\ m.running
  <2>1. setup.engine = "asm" /\ left = <<>> /\ ~m.reset /\ m.running
    BY <1>1 DEF RefineInv, RunInv, TraceInv, ControlInv, NumbersInv, InLoop
  <2>2. QED
    BY <2>1
<1>3. /\ setup.price \in Nat /\ Running(m) /\ Numbers(m) /\ Typed(m) /\ AtNext(m, left) = m
      /\ Mapped = View(m, FALSE)
  BY <1>1, <1>2, LoopIs
<1>4. Mapped = m
  BY <1>2, <1>3, WholeView DEF RefineInv
<1>5. CASE phase' = "head" /\ m' = m
  BY <1>1, <1>3, <1>5, NothingSeen
<1>6. CASE ~made.ok /\ m' = Failed(m) /\ phase' = "idle"
  <2>1. GoodMemo(memo, dynamic, m.mem, {}) /\ GoodDynamic(dynamic, m.mem, {})
    BY FewerAreGood DEF RefineInv, RunInv, TraceInv, TracesInv, GoodTraces
  <2>2. Prepared(made, m.mem, m.pc, {})
    BY <1>2, <1>3, <2>1, PrepareTracesIs DEF RefineInv, RunInv, TraceInv, MachineInv, Typed
  <2> HIDE DEF made
  <2>3. Doomed(m.mem, m.pc)
    BY <1>3, <1>6, <2>2, FailsDoomed DEF Prepared, Numbers
  <2>4. Mapped' = View(Failed(m), FALSE)
    <3>1. Numbers(m') /\ Whole(m')
      BY <1>3, <1>6, FailedCounts, SetWhole DEF Counts, Failed, Numbers
    <3>2. AtNext(m', left') = m'
      BY <1>1, <1>2, <1>3, <3>1, AtNextOfNone
    <3>3. QED
      BY <1>1, <1>6, <3>2, MappedWillBe
  <2>5. QED
    BY <1>1, <1>2, <1>3, <1>4, <2>3, <2>4, FailsAhead DEF Numbers, Typed
<1>7. QED
  BY <1>1, <1>5, <1>6

(* Executing an instruction that makes no system call neither reads nor    *)
(* changes the cycles.                                                     *)
SameBut(y, x) ==
  /\ y.mem = x.mem /\ y.pc = x.pc /\ y.acc = x.acc /\ y.max = x.max
  /\ y.running = x.running /\ y.reset = x.reset /\ y.err = x.err

LEMMA ComputeForAnyCycles ==
  ASSUME NEW x, NEW y, DOMAIN x = Fields, DOMAIN y = Fields, SameBut(y, x), NEW i, i.op \in Computing
  PROVE  /\ SameBut(Compute(y, i), Compute(x, i))
         /\ Compute(y, i).cycles = y.cycles /\ Compute(x, i).cycles = x.cycles
<1>1. CASE i.op \in {"ADD", "ADDIW"}
  BY <1>1, Zenon DEF Compute, Accumulate, SameBut, Fields
<1>2. CASE i.op \in {"LUI", "CUSTOM_LOAD_IMM"}
  BY <1>2, Zenon DEF Compute, SameBut, Fields
<1>3. CASE i.op = "FENCE"
  BY <1>3, Zenon DEF Compute, SameBut
<1>4. QED
  BY <1>1, <1>2, <1>3 DEF Computing

LEMMA ExecuteForAnyCycles ==
  ASSUME NEW x, NEW y, DOMAIN x = Fields, DOMAIN y = Fields, SameBut(y, x), NEW i, i.op \notin Ecalls, NEW o
  PROVE  /\ SameBut(Execute(y, i, o), Execute(x, i, o))
         /\ Execute(y, i, o).cycles = y.cycles /\ Execute(x, i, o).cycles = x.cycles
<1> DEFINE xx == [x EXCEPT !.pc = @ + i.len]
           yy == [y EXCEPT !.pc = @ + i.len]
<1>1. /\ DOMAIN xx = Fields /\ DOMAIN yy = Fields /\ SameBut(yy, xx)
      /\ yy.cycles = y.cycles /\ xx.cycles = x.cycles
  BY Zenon DEF SameBut, Fields
<1> HIDE DEF xx, yy
<1>2. CASE i.op \in Computing
  <2>1. Execute(x, i, o) = Compute(xx, i) /\ Execute(y, i, o) = Compute(yy, i)
    BY <1>2, Zenon DEF Execute, Computing, Jumps, Ecalls, xx, yy
  <2>2. QED
    BY <1>1, <1>2, <2>1, ComputeForAnyCycles
<1>3. CASE i.op \in Jumps
  <2>1. Execute(x, i, o) = [x EXCEPT !.pc = Target(x, i)] /\ Execute(y, i, o) = [y EXCEPT !.pc = Target(y, i)]
    BY <1>3, Zenon DEF Execute, Computing, Jumps, Ecalls
  <2>2. Target(y, i) = Target(x, i)
    BY <1>3, Zenon DEF Target, SameBut, Jumps
  <2>3. \A pc : /\ SameBut([y EXCEPT !.pc = pc], [x EXCEPT !.pc = pc])
                /\ [y EXCEPT !.pc = pc].cycles = y.cycles /\ [x EXCEPT !.pc = pc].cycles = x.cycles
    BY Zenon DEF SameBut, Fields
  <2>4. Execute(y, i, o) = [y EXCEPT !.pc = Target(x, i)]
    BY <2>1, <2>2
  <2>5. QED
    BY <2>1, <2>3, <2>4, Zenon
<1>4. CASE i.op = "STORE"
  <2>1. Execute(x, i, o) = Store(xx, i.arg) /\ Execute(y, i, o) = Store(yy, i.arg)
    BY <1>4, Zenon DEF Execute, Computing, Jumps, Ecalls, xx, yy
  <2>2. SameBut(Store(yy, i.arg), Store(xx, i.arg)) /\ Store(yy, i.arg).cycles = yy.cycles
        /\ Store(xx, i.arg).cycles = xx.cycles
    BY <1>1, Zenon DEF Store, Failed, SameBut, Fields
  <2>3. QED
    BY <1>1, <2>1, <2>2
<1>5. CASE i.op \notin Computing \cup Jumps \cup Ecalls \cup {"STORE"}
  <2>1. Execute(x, i, o) = Failed(xx) /\ Execute(y, i, o) = Failed(yy)
    BY <1>5, Zenon DEF Execute, xx, yy
  <2>2. SameBut(Failed(yy), Failed(xx)) /\ Failed(yy).cycles = yy.cycles /\ Failed(xx).cycles = xx.cycles
    BY <1>1, Zenon DEF Failed, SameBut, Fields
  <2>3. QED
    BY <1>1, <2>1, <2>2
<1>6. QED
  BY <1>2, <1>3, <1>4, <1>5

(* What a thread executes was paid for with its trace: the direct machine  *)
(* pays for it now, and has what the threads behind it cost.               *)
Rest == Len(Tail(left)) * setup.price

LEMMA AsmThreadPays ==
  ASSUME RefineInv, AsmThread
  PROVE  LET x == AtNext(m, left)
             y == PayAndExecute(x, Head(left))
         IN  /\ Running(x) /\ x.reset = FALSE /\ x.mem = m.mem /\ x.pc = SeenPc /\ Mapped = x
             /\ Whole(y) /\ SameBut(y, Done) /\ Numbers(Done) /\ Rest \in Nat
             /\ y.cycles = Done.cycles - Rest /\ Done.max = m.max
             /\ Tail(left) = <<>> => Rest = 0
             /\ Tail(left) # <<>> => Done.cycles = m.cycles /\ Done.err \in {"none", "Error"}
             /\ Rest <= m.cycles
<1> DEFINE i    == Head(left)
           x    == AtNext(m, left)
           y    == PayAndExecute(x, i)
           c    == m.cycles - Rest
           paid == [x EXCEPT !.cycles = c]
<1>1. /\ setup' = setup /\ setup.engine = "asm" /\ phase = "thread" /\ ~m.reset /\ left # <<>>
      /\ i \in Instruction /\ (Tail(left) # <<>> => ~IsBasicBlockEnd(i))
  BY AsmThreadIs DEF RefineInv, RunInv
<1>2. m.running /\ m.reset = FALSE /\ left \in Seq(Instruction)
  BY <1>1 DEF RefineInv, RunInv, TraceInv, ControlInv, NumbersInv, InLoop
<1>3. /\ setup.price \in Nat /\ Running(m) /\ Numbers(m) /\ Typed(m) /\ Mapped = View(x, FALSE)
  BY <1>1, <1>2, LoopIs
<1>4. /\ DOMAIN x = Fields /\ Whole(x) /\ Running(x) /\ x.reset = FALSE /\ x.max = m.max /\ x.mem = m.mem
      /\ x.acc = m.acc /\ x.running = m.running /\ x.err = m.err
      /\ x.pc = SeenPc /\ x.cycles = m.cycles - Len(left) * setup.price
  <2>1. DOMAIN m = Fields
    BY <1>3 DEF Running
  <2>2. x.pc = SeenPc /\ x.cycles = m.cycles - Len(left) * setup.price
    BY <1>1, <2>1, AtNextOfAsm DEF SeenPc
  <2>3. Whole(x)
    BY <1>1, <2>1, Zenon DEF Whole, AtNext
  <2>4. /\ DOMAIN x = Fields /\ x.mem = m.mem /\ x.max = m.max /\ x.running = m.running /\ x.reset = m.reset
        /\ x.err = m.err /\ x.acc = m.acc
    BY <2>1, AtNextIs
  <2> HIDE DEF x
  <2>5. QED
    BY <1>2, <1>3, <2>2, <2>3, <2>4 DEF Running
<1>5. Mapped = x
  BY <1>3, <1>4, WholeView
<1> HIDE DEF x, y
<1>6. /\ Len(left) \in Nat \ {0} /\ Len(Tail(left)) \in Nat /\ Len(left) = Len(Tail(left)) + 1
      /\ (Tail(left) = <<>> => Len(Tail(left)) = 0)
  <2>1. /\ Len(left) \in Nat \ {0} /\ Len(Tail(left)) = Len(left) - 1
    BY <1>1, <1>2, TailOffsets
  <2>2. Tail(left) = <<>> => Len(Tail(left)) = 0
    BY NoLength
  <2>3. QED
    BY <2>1, <2>2
<1>7. Rest \in Nat /\ Len(left) * setup.price = Rest + setup.price /\ (Tail(left) = <<>> => Rest = 0)
  <2>1. \A a, b \in Nat : a * b \in Nat /\ 0 * b = 0
    OBVIOUS
  <2>2. QED
    BY <1>3, <1>6, <2>1, NextMultiple DEF Rest
<1>8. m.cycles \in Nat /\ m.cycles <= U64Max /\ U64Max \in Nat /\ ~(m.cycles > m.max)
  BY <1>3, GuestCodeAssumption DEF Numbers, Running, RefineInv, RunInv, LimitInv, Settled
<1>9. m.cycles >= Rest + setup.price
  BY <1>1, <1>7 DEF RefineInv, PaidFor
<1>10. c \in Nat /\ c <= m.cycles /\ c <= U64Max /\ x.cycles + setup.price = c
  <2>1. x.cycles = m.cycles - (Rest + setup.price)
    BY <1>4, <1>7
  <2>2. Rest \in Nat /\ setup.price \in Nat /\ m.cycles \in Nat /\ m.cycles <= U64Max /\ U64Max \in Nat
    BY <1>3, <1>7, <1>8
  <2>3. QED
    BY <1>9, <2>1, <2>2
<1>11. m.max \in Nat
  <2>1. m.max \in {FirstLimit} \cup Limits
    BY DEF RefineInv, RunInv, NumbersInv
  <2>2. Limits \subseteq Nat /\ FirstLimit \in Nat
    BY VmRunAssumption, GuestCodeAssumption
  <2>3. QED
    BY <2>1, <2>2
<1>12. ~(c > m.max) /\ ~(c > U64Max)
  BY <1>8, <1>10, <1>11
<1> HIDE DEF c
<1>13. Paid(x, i) = paid
  BY <1>4, <1>10, <1>12, Zenon DEF Paid, InstructionCycles, AddCycles
<1>14. DOMAIN paid = Fields /\ Whole(paid) /\ SameBut(paid, Seen) /\ paid.cycles = c /\ paid.err = "none"
       /\ Whole(Seen) /\ DOMAIN Seen = Fields /\ Seen.cycles = m.cycles /\ Seen.err = "none" /\ Seen.max = m.max
  <2>1. DOMAIN m = Fields /\ m.err = "none"
    BY <1>3 DEF Running
  <2>2. /\ DOMAIN Seen = Fields /\ Whole(Seen) /\ Seen.cycles = m.cycles /\ Seen.err = "none" /\ Seen.max = m.max
        /\ Seen.mem = m.mem /\ Seen.acc = m.acc /\ Seen.running = m.running /\ Seen.reset = m.reset
        /\ Seen.pc = m.pc - Length(left)
    BY <2>1, Zenon DEF Seen, Whole, Fields
  <2>3. SeenPc = m.pc - Length(left)
    BY <1>1 DEF SeenPc
  <2>4. /\ DOMAIN paid = Fields /\ Whole(paid) /\ paid.cycles = c /\ paid.err = x.err /\ paid.max = x.max
        /\ paid.mem = x.mem /\ paid.acc = x.acc /\ paid.running = x.running /\ paid.reset = x.reset /\ paid.pc = x.pc
    BY <1>4, Zenon DEF Whole, Fields
  <2>5. QED
    BY <1>2, <1>4, <2>1, <2>2, <2>3, <2>4 DEF SameBut
<1> HIDE DEF paid
<1>15. y = Execute(paid, i, setup.override) /\ Done = Execute(Seen, i, setup.override)
  BY <1>13, <1>14 DEF PayAndExecute, Done, y
<1> HIDE DEF i
<1>16. Whole(y)
  BY <1>14, <1>15, ExecuteWhole
<1>17. Numbers(Done) /\ Done.max = m.max
  <2>1. m.pc - Length(left) \in Int
    BY <1>2, <1>3, LengthTypes DEF Numbers
  <2>2. Counts(m, Seen)
    BY <1>3, <2>1, PcCounts DEF Seen
  <2>3. QED
    BY <1>1, <1>15, <2>2, ExecuteCounts DEF Counts
<1>18. CASE Tail(left) # <<>>
  <2>1. i.op \notin Ecalls /\ i.op \notin Jumps
    BY <1>1, <1>18, CallEndsBlock
  <2>2. SameBut(y, Done) /\ y.cycles = c /\ Done.cycles = m.cycles
    BY <1>14, <1>15, <2>1, ExecuteForAnyCycles
  <2>3. Done.err \in {"none", "Error"}
    BY <1>14, <1>15, <2>1, PlainExecute
  <2>4. QED
    <3>1. Rest <= m.cycles /\ y.cycles = Done.cycles - Rest
      BY <1>3, <1>7, <1>8, <1>9, <2>2 DEF c
    <3>2. QED
      BY <1>4, <1>5, <1>7, <1>16, <1>17, <1>18, <2>2, <2>3, <3>1 DEF x, y, i
<1>19. CASE Tail(left) = <<>>
  <2>1. c = m.cycles
    BY <1>7, <1>8, <1>19 DEF c
  <2>2. paid = Seen
    BY <1>14, <2>1, SameFields DEF SameBut
  <2>3. y = Done
    BY <1>15, <2>2
  <2>4. y.cycles = Done.cycles - Rest
    BY <1>7, <1>17, <1>19, <2>3 DEF Numbers
  <2>5. SameBut(y, Done)
    BY <2>3 DEF SameBut
  <2>6. QED
    <3>1. Rest <= m.cycles
      BY <1>3, <1>7, <1>8, <1>9
    <3>2. QED
      BY <1>4, <1>5, <1>7, <1>16, <1>17, <1>19, <2>4, <2>5, <3>1 DEF x, y, i
<1>20. QED
  BY <1>18, <1>19

(* Of a machine that failed, neither the pc nor the cycles is seen.        *)
LEMMA FailedView ==
  ASSUME NEW x, NEW y, DOMAIN x = Fields, DOMAIN y = Fields, x.err = "Error", y.err = "Error",
         x.mem = y.mem, x.acc = y.acc, x.max = y.max
  PROVE  View(x, FALSE) = View(y, FALSE)
<1> DEFINE V(z) == [z EXCEPT !.reset = FALSE, !.pc = 0, !.cycles = 0, !.running = TRUE, !.err = "Error"]
<1>1. ASSUME NEW z, DOMAIN z = Fields, z.err = "Error"
      PROVE  /\ View(z, FALSE) = V(z) /\ Whole(V(z))
             /\ V(z).mem = z.mem /\ V(z).acc = z.acc /\ V(z).max = z.max
             /\ V(z).reset = FALSE /\ V(z).pc = 0 /\ V(z).cycles = 0 /\ V(z).running = TRUE /\ V(z).err = "Error"
  <2>1. View(z, FALSE) = V(z)
    BY <1>1, Zenon DEF View, Fields
  <2>2. Whole(V(z))
    BY <1>1, Zenon DEF Whole
  <2>3. /\ V(z).mem = z.mem /\ V(z).acc = z.acc /\ V(z).max = z.max
        /\ V(z).reset = FALSE /\ V(z).pc = 0 /\ V(z).cycles = 0 /\ V(z).running = TRUE /\ V(z).err = "Error"
    BY <1>1, Zenon DEF Fields
  <2>4. QED
    BY <2>1, <2>2, <2>3
<1> HIDE DEF V
<1>2. V(x) = V(y)
  BY <1>1, SameFields
<1>3. QED
  BY <1>1, <1>2

LEMMA AsmThreadRefines ==
  ASSUME RefineInv, RunInv', AsmThread
  PROVE  Direct!Next
<1> DEFINE x    == AtNext(m, left)
           y    == PayAndExecute(x, Head(left))
           seen == AtNext(m', left')
           a    == Mask(SeenPc)
<1>1. /\ setup' = setup /\ setup.engine = "asm" /\ phase = "thread" /\ left # <<>>
      /\ Tail(left) \in Seq(Instruction)
      /\ m' = [Done EXCEPT !.pc = @ + Length(Tail(left))]
      /\ left' = IF Done.err = "none" THEN Tail(left) ELSE <<>>
      /\ phase' \in {"idle", "head", "prepare", "thread"}
  BY AsmThreadIs DEF RefineInv, RunInv
<1>2. /\ Running(x) /\ x.reset = FALSE /\ x.mem = m.mem /\ x.pc = SeenPc /\ Mapped = x
      /\ Whole(y) /\ SameBut(y, Done) /\ Numbers(Done) /\ Rest \in Nat
      /\ y.cycles = Done.cycles - Rest /\ Done.max = m.max
      /\ Tail(left) = <<>> => Rest = 0
      /\ Tail(left) # <<>> => Done.cycles = m.cycles /\ Done.err \in {"none", "Error"}
  BY AsmThreadPays
<1>3. /\ setup.price \in Nat /\ ~Direct!Refused /\ m.pc \in Int
  <2>1. m.running
    BY <1>1 DEF RefineInv, RunInv, NumbersInv, InLoop
  <2>2. QED
    BY <1>1, <2>1, LoopIs DEF Numbers
<1>4. Decodable(m.mem, a) /\ Head(left) = InstAt(m.mem, a)
  BY <1>1, <1>3, ThreadIs DEF RefineInv, RunInv, NextThread
<1>5. Outcome(x, y)
  BY <1>2, <1>3, PayAndExecuteOutcome
<1>6. a \in Direct!Here
  BY <1>2, MaskIsHere
<1>7. y = IF Decodable(x.mem, a) THEN PayAndExecute(x, InstAt(x.mem, a)) ELSE Failed(x)
  BY <1>2, <1>4
<1>8. DOMAIN m' = Fields /\ Numbers(m')
  BY DEF RunInv, NumbersInv, Numbers
<1>9. Mapped' = View(seen, FALSE)
  BY <1>1, <1>8, MappedWillBe
<1> HIDE DEF x, y, a
<1>10. /\ DOMAIN m' = Fields /\ Whole(m') /\ m'.pc = Done.pc + Length(Tail(left)) /\ m'.cycles = Done.cycles
       /\ m'.mem = Done.mem /\ m'.acc = Done.acc /\ m'.max = Done.max /\ m'.running = Done.running
       /\ m'.reset = Done.reset /\ m'.err = Done.err
  BY <1>1, <1>2, Zenon DEF Numbers, Whole, Fields
<1>11. /\ seen.pc = m'.pc - Length(left') /\ seen.cycles = m'.cycles - Len(left') * setup.price
       /\ DOMAIN seen = Fields /\ Whole(seen)
       /\ seen.mem = m'.mem /\ seen.acc = m'.acc /\ seen.max = m'.max /\ seen.running = m'.running
       /\ seen.reset = m'.reset /\ seen.err = m'.err
  <2>1. Whole(seen)
    BY <1>1, <1>10, Zenon DEF Whole, AtNext
  <2>2. DOMAIN m' = Fields /\ setup.engine = "asm"
    BY <1>1, <1>10
  <2>3. seen.pc = m'.pc - Length(left') /\ seen.cycles = m'.cycles - Len(left') * setup.price
    BY <2>2, AtNextOfAsm
  <2>4. /\ DOMAIN seen = Fields
        /\ seen.mem = m'.mem /\ seen.acc = m'.acc /\ seen.max = m'.max /\ seen.running = m'.running
        /\ seen.reset = m'.reset /\ seen.err = m'.err
    BY <2>2, AtNextIs
  <2> HIDE DEF seen
  <2>5. QED
    BY <2>1, <2>3, <2>4
<1>12. Done.pc \in Int /\ Done.cycles \in Int /\ Length(Tail(left)) \in Nat
  <2>1. Numbers(Done) /\ Tail(left) \in Seq(Instruction)
    BY <1>1, <1>2
  <2>2. Done.pc \in Int /\ Done.cycles \in 0 .. U64Max /\ U64Max \in Nat
    BY <2>1, GuestCodeAssumption DEF Numbers
  <2>3. Length(Tail(left)) \in Nat
    BY <2>1, LengthTypes
  <2>4. Done.cycles \in Int
    BY <2>2
  <2>5. QED
    BY <2>2, <2>3, <2>4, Zenon
<1>13. ASSUME seen.pc = Done.pc, seen.cycles = y.cycles PROVE seen = y
  BY <1>2, <1>10, <1>11, <1>13, SameFields DEF SameBut
<1>14. CASE Tail(left) = <<>>
  <2>1. left' = <<>> /\ Length(Tail(left)) = 0 /\ Len(left') * setup.price = 0 /\ Length(left') = 0
    <3>1. left' = <<>>
      BY <1>1, <1>14
    <3>2. 0 * setup.price = 0
      BY <1>3
    <3>3. QED
      BY <1>14, <3>1, <3>2, NoLength
  <2>2. seen.pc = Done.pc /\ seen.cycles = y.cycles
    BY <1>2, <1>10, <1>11, <1>12, <1>14, <2>1
  <2>3. QED
    BY <1>1, <1>2, <1>3, <1>5, <1>6, <1>7, <1>9, <1>13, <2>2, StepRefines
<1>15. CASE Tail(left) # <<>> /\ Done.err = "none"
  <2>1. left' = Tail(left)
    BY <1>1, <1>15
  <2>2. seen.pc = Done.pc
    BY <1>10, <1>11, <1>12, <2>1
  <2>3. seen.cycles = y.cycles
    BY <1>2, <1>10, <1>11, <1>15, <2>1 DEF Rest
  <2>4. QED
    BY <1>1, <1>2, <1>3, <1>5, <1>6, <1>7, <1>9, <1>13, <2>2, <2>3, StepRefines
<1>16. CASE Tail(left) # <<>> /\ Done.err # "none"
  <2>1. Done.err = "Error"
    BY <1>2, <1>16
  <2>2. DOMAIN y = Fields
    BY <1>5 DEF Outcome
  <2>3. View(seen, FALSE) = View(y, FALSE)
    BY <1>2, <1>10, <1>11, <2>1, <2>2, FailedView DEF SameBut
  <2>4. QED
    BY <1>1, <1>2, <1>3, <1>5, <1>6, <1>7, <1>9, <2>3, StepRefines
<1>17. QED
  BY <1>14, <1>15, <1>16

(***************************************************************************)
(* Every step is one of the direct machine                                 *)
(***************************************************************************)
LEMMA StartMoves ==
  ASSUME RefineInv, RunInv', Whole(m'), Start
  PROVE  [Direct!Next]_(Direct!vars)
<1>1. setup' = setup /\ setup \in Setups /\ left' = left /\ phase \in {"new", "idle"}
  BY DEF Start, RefineInv, RunnableInv
<1>2. setup.price \in Nat /\ left = <<>>
  BY <1>1, SetupTypes DEF RefineInv, RunInv, TraceInv, ControlInv
<1>3. Numbers(m) /\ Whole(m) /\ Numbers(m') /\ DOMAIN m = Fields /\ DOMAIN m' = Fields
  <2>1. Numbers(m) /\ Whole(m)
    BY DEF RefineInv, RunInv, NumbersInv
  <2>2. Numbers(m')
    BY DEF RunInv, NumbersInv, Numbers
  <2>3. QED
    BY <2>1, <2>2 DEF Numbers
<1>4. AtNext(m, left) = m /\ AtNext(m', left') = m'
  BY <1>1, <1>2, <1>3, AtNextOfNone
<1>5. Mapped = View(m, phase = "new") /\ Mapped' = View(m', phase' = "new")
  BY <1>1, <1>3, <1>4, MappedIs, MappedWillBe
<1>6. QED
  BY <1>5, StartRefines DEF RefineInv, RunInv

(* Nothing moves but what is outside of the machine.                       *)
LEMMA LookMoves ==
  ASSUME RefineInv, UNCHANGED <<setup, m, left>>, (phase' = "new") = (phase = "new")
  PROVE  UNCHANGED Direct!vars
<1>1. DOMAIN m = Fields /\ DOMAIN m' = Fields
  BY DEF RefineInv, RunInv, NumbersInv, Numbers
<1>2. Mapped = View(AtNext(m, left), phase = "new")
  BY <1>1, MappedIs
<1>3. Mapped' = View(AtNext(m', left'), phase' = "new")
  BY <1>1, MappedWillBe
<1>4. QED
  BY <1>2, <1>3 DEF Direct!vars

(* A run that pauses is, to the direct machine, one that goes on.          *)
LEMMA PausingMoves ==
  ASSUME RefineInv, RunInv', Pausing
  PROVE  UNCHANGED Direct!vars
<1>1. /\ setup' = setup /\ phase = "pausing" /\ phase' = "idle" /\ m' = [m EXCEPT !.err = "Pause"] /\ left' = left
  BY DEF Pausing
<1>2. m.running
  BY <1>1 DEF RefineInv, RunnableInv
<1>3. /\ setup.price \in Nat /\ Running(m) /\ left = <<>> /\ AtNext(m, left) = m /\ Mapped = View(m, FALSE)
  BY <1>1, <1>2, LoopIs
<1>4. DOMAIN m = Fields /\ DOMAIN m' = Fields /\ Numbers(m') /\ Whole(m')
  BY <1>1, <1>3, SetWhole DEF Running, RunInv, NumbersInv, Numbers
<1>5. AtNext(m', left') = m'
  BY <1>1, <1>3, <1>4, AtNextOfNone
<1>6. View(m', FALSE) = View(m, FALSE)
  BY <1>1, <1>3, Zenon DEF View, Running, Fields
<1>7. QED
  BY <1>1, <1>3, <1>4, <1>5, <1>6, NothingSeen

LEMMA InterpreterMoves ==
  ASSUME RefineInv, InterpreterStep
  PROVE  Direct!Next
<1>1. setup.engine = "interpreter" /\ phase = "head"
  BY DEF InterpreterStep, Proceeds
<1>2. /\ Interprets /\ Typed(m) /\ DOMAIN icache = 0 .. CacheSize - 1 /\ (~m.reset => CacheIsCurrent(icache, m.mem))
      /\ traces = EmptyTraces /\ memo = NoTraces /\ dynamic = NoTraces
  BY <1>1 DEF RefineInv, RunInv, TraceInv, MachineInv, TracesInv, Interprets
<1>3. RefinementInv
  BY <1>1, <1>2 DEF RefinementInv, InterpreterInv, RefineInv, RunInv
<1>4. QED
  BY <1>2, <1>3, InterpreterStepRefines

(***************************************************************************)
(* The machine stays whole, may be run on, and has paid for its threads    *)
(***************************************************************************)
LEMMA RunWhole == ASSUME NEW x, DOMAIN x = Fields, Run(x) PROVE Whole(m')
<1>1. Whole([x EXCEPT !.err = "InvalidVersion"])
  BY Zenon DEF Whole
<1>2. Whole([x EXCEPT !.running = TRUE, !.err = "none"])
  BY Zenon DEF Whole
<1>3. QED
  BY <1>1, <1>2, Zenon DEF Run

LEMMA LoadTraceWhole == ASSUME DOMAIN m = Fields, NEW t, LoadTrace(t) PROVE Whole(m')
<1> DEFINE paid == AddCycles(m, t.cycles)
<1>1. Whole(paid) /\ DOMAIN paid = Fields
  BY AddCyclesWhole, Zenon DEF AddCycles
<1>2. m' = paid \/ m' = [paid EXCEPT !.pc = @ + t.length]
  BY DEF LoadTrace
<1> HIDE DEF paid
<1>3. Whole([paid EXCEPT !.pc = @ + t.length])
  BY <1>1, SetWhole
<1>4. QED
  BY <1>1, <1>2, <1>3

LEMMA NextWhole ==
  ASSUME Whole(m), [Next]_vars
  PROVE  Whole(m')
<1>0. DOMAIN m = Fields
  BY Zenon DEF Whole
<1>a. DOMAIN AfterReset = Fields /\ Whole(AfterReset)
  BY <1>0, SetWhole, Zenon DEF AfterReset
<1>b. ASSUME NEW x, DOMAIN x = Fields PROVE Whole(Failed(x))
  BY <1>b, SetWhole DEF Failed
<1>1. CASE Start
  <2>1. PICK x : DOMAIN x = Fields /\ Run(x)
    <3>1. \A limit : DOMAIN [m EXCEPT !.max = limit] = Fields
      BY <1>0, Zenon
    <3>2. QED
      BY <1>0, <1>1, <3>1, Zenon DEF Start
  <2>2. QED
    BY <2>1, RunWhole
<1>2. CASE m' = m
  BY <1>2
<1>3. CASE Pausing
  BY <1>0, <1>3, SetWhole DEF Pausing
<1>4. CASE InterpreterStep
  <2>1. m' = Failed(AfterReset) \/ \E i : m' = PayAndExecute(AfterReset, i)
    BY <1>4 DEF InterpreterStep
  <2>2. QED
    BY <1>a, <1>b, <2>1, PayAndExecuteWhole
<1>5. CASE TraceHead
  <2>1. m' = AfterReset \/ m' = Failed(AfterReset)
    BY <1>5 DEF TraceHead
  <2>2. QED
    BY <1>a, <1>b, <2>1
<1>6. CASE TraceThread
  BY <1>0, <1>6, PayAndExecuteWhole DEF TraceThread
<1>7. CASE AsmHead
  BY <1>a, <1>7 DEF AsmHead
<1>8. CASE \E t : LoadTrace(t)
  BY <1>0, <1>8, LoadTraceWhole
<1>9. CASE AsmMiss
  BY <1>0, <1>b, <1>9, SetWhole DEF AsmMiss
<1>10. CASE AsmThread
  <2>1. m' = [Done EXCEPT !.pc = @ + Length(Tail(left))]
    BY <1>10, Zenon DEF AsmThread, Seen, Done
  <2>2. DOMAIN Seen = Fields
    BY <1>0, Zenon DEF Seen
  <2>3. DOMAIN Done = Fields
    <3>1. Whole(Done)
      BY <2>2, ExecuteWhole DEF Done
    <3>2. QED
      BY <3>1, Zenon DEF Whole
  <2>4. QED
    BY <2>1, <2>3, SetWhole
<1>11. Start \/ Interrupt \/ MachineStep \/ UNCHANGED vars
  BY DEF Next
<1>12. CASE Interrupt \/ Finish \/ SeeInterrupt \/ UNCHANGED vars
  BY <1>2, <1>12 DEF Interrupt, Finish, SeeInterrupt, vars
<1>13. CASE AsmHit
  BY <1>8, <1>13 DEF AsmHit
<1>14. CASE AsmTraceEnd
  BY <1>2, <1>8, <1>14 DEF AsmTraceEnd
<1>15. QED
  BY <1>1, <1>3, <1>4, <1>5, <1>6, <1>7, <1>9, <1>10, <1>11, <1>12, <1>13, <1>14 DEF MachineStep

(* What ends a run that can be run on leaves the machine running.          *)
LEMMA StepRuns ==
  ASSUME RefineInv, MachineStep
  PROVE  /\ setup' = setup /\ InLoop
         /\ m'.err \in {"Pause", "CyclesExceeded"} \/ phase' = "pausing" => m'.running
<1>1. setup' = setup
  BY SetupStays DEF Next
<1>2. InLoop
  BY DEF MachineStep, Pausing, Finish, SeeInterrupt, InterpreterStep, TraceHead, TraceThread, AsmHead, AsmHit, AsmMiss,
         AsmThread, AsmTraceEnd, Proceeds, InLoop
<1>3. /\ DOMAIN m = Fields /\ m.err = "none" /\ (phase # "head" => m.running) /\ m.running \in BOOLEAN
      /\ setup.price \in Nat
  BY <1>2, SetupTypes DEF RefineInv, RunInv, NumbersInv, Numbers, LimitInv, InLoop, RunnableInv
<1>4. Running(m) \/ ~m.running
  BY <1>3 DEF Running
<1>5. DOMAIN AfterReset = Fields /\ AfterReset.err = "none" /\ AfterReset.running = m.running
  BY <1>3, Zenon DEF AfterReset, Fields
<1>6. Failed(m).err = "Error" /\ Failed(AfterReset).err = "Error"
  BY <1>3, <1>5, Zenon DEF Failed, Fields
<1> DEFINE Runs == m'.err \in {"Pause", "CyclesExceeded"} \/ phase' = "pausing" => m'.running
<1>7. CASE Pausing
  <2>1. m'.running = m.running /\ m.running
    BY <1>3, <1>7, Zenon DEF Pausing, Fields
  <2>2. QED
    BY <1>1, <1>2, <2>1
<1>8. CASE Finish
  <2>1. m'.err = "none" /\ phase' = "idle"
    BY <1>3, <1>8 DEF Finish
  <2>2. QED
    BY <1>1, <1>2, <2>1
<1>9. CASE SeeInterrupt
  <2>1. m'.running = m.running /\ m.running
    BY <1>3, <1>9 DEF SeeInterrupt
  <2>2. QED
    BY <1>1, <1>2, <2>1
<1>10. CASE InterpreterStep
  <2>1. Running(AfterReset)
    BY <1>3, <1>5, <1>10 DEF InterpreterStep, Proceeds, Running
  <2>2. m' = Failed(AfterReset) \/ \E i : m' = PayAndExecute(AfterReset, i)
    BY <1>10 DEF InterpreterStep
  <2>3. Outcome(AfterReset, m')
    BY <1>3, <2>1, <2>2, FailedOutcome, PayAndExecuteOutcome
  <2>4. phase' \in {"head", "idle"}
    BY <1>10 DEF InterpreterStep
  <2>5. QED
    BY <1>1, <1>2, <2>3, <2>4 DEF Outcome
<1>11. CASE TraceHead
  <2>1. (m' = AfterReset \/ m' = Failed(AfterReset)) /\ phase' \in {"thread", "idle"}
    BY <1>11 DEF TraceHead
  <2>2. QED
    BY <1>1, <1>2, <1>5, <1>6, <2>1
<1>12. CASE TraceThread
  <2>1. Running(m) /\ m' = PayAndExecute(m, Head(left)) /\ phase' \in {"idle", "thread", "head"}
    BY <1>3, <1>4, <1>12 DEF TraceThread
  <2>2. Outcome(m, m')
    BY <1>3, <2>1, PayAndExecuteOutcome
  <2>3. QED
    BY <1>1, <1>2, <2>1, <2>2 DEF Outcome
<1>13. CASE AsmHead
  <2>1. m' = AfterReset /\ phase' = "enter"
    BY <1>13 DEF AsmHead
  <2>2. QED
    BY <1>1, <1>2, <1>5, <2>1
<1>14. ASSUME NEW t, LoadTrace(t), phase \in {"enter", "prepare", "thread"} PROVE Runs
  <2> DEFINE paid == AddCycles(m, t.cycles)
  <2>1. DOMAIN paid = Fields /\ paid.running = m.running /\ m.running
    BY <1>3, <1>14, Zenon DEF AddCycles, Fields
  <2>2. (m' = paid \/ m' = [paid EXCEPT !.pc = @ + t.length]) /\ phase' \in {"idle", "thread"}
    BY <1>14 DEF LoadTrace
  <2> HIDE DEF paid
  <2>3. m'.running = m.running
    BY <2>1, <2>2, Zenon DEF Fields
  <2>4. QED
    BY <2>1, <2>2, <2>3
<1>15. CASE AsmHit
  BY <1>1, <1>2, <1>14, <1>15 DEF AsmHit
<1>16. CASE AsmMiss
  <2>1. (m' = m \/ m' = Failed(m)) /\ phase' \in {"head", "idle"}
    BY <1>16 DEF AsmMiss
  <2>2. QED
    BY <1>1, <1>2, <1>3, <1>6, <2>1
<1>17. CASE AsmThread
  <2>1. /\ m' = [Done EXCEPT !.pc = @ + Length(Tail(left))] /\ phase' \in {"idle", "head", "prepare", "thread"}
        /\ phase = "thread"
    BY <1>17, AsmThreadIs DEF RefineInv, RunInv
  <2>2. Running(Seen)
    BY <1>3, <2>1, Zenon DEF Running, Seen, Fields
  <2>3. Outcome(Seen, Done)
    BY <2>2, ExecuteOutcome DEF Done
  <2>4. DOMAIN Done = Fields
    BY <2>3 DEF Outcome
  <2>5. m'.err = Done.err /\ m'.running = Done.running
    BY <2>1, <2>4, Zenon DEF Fields
  <2>6. QED
    BY <1>1, <1>2, <2>1, <2>3, <2>5 DEF Outcome
<1>18. CASE AsmTraceEnd
  <2>1. CASE tail = NoPc
    <3>1. m' = m /\ phase' = "enter"
      BY <1>18, <2>1 DEF AsmTraceEnd
    <3>2. QED
      BY <1>1, <1>2, <1>3, <3>1
  <2>2. CASE tail # NoPc
    BY <1>1, <1>2, <1>14, <1>18, <2>2 DEF AsmTraceEnd
  <2>3. QED
    BY <2>1, <2>2
<1>19. QED
  BY <1>7, <1>8, <1>9, <1>10, <1>11, <1>12, <1>13, <1>15, <1>16, <1>17, <1>18 DEF MachineStep

LEMMA NextRunnable ==
  ASSUME RefineInv, RunInv', [Next]_vars
  PROVE  RunnableInv'
<1>1. CASE Start
  BY <1>1, StartIsRunnable DEF RefineInv, RunInv, NumbersInv, Numbers
<1>2. CASE UNCHANGED <<setup, m, phase>>
  BY <1>2 DEF RefineInv, RunnableInv, InLoop, InvalidVersion
<1>3. CASE MachineStep
  <2>1. /\ setup' = setup /\ InLoop
        /\ m'.err \in {"Pause", "CyclesExceeded"} \/ phase' = "pausing" => m'.running
    BY <1>3, StepRuns
  <2>2. setup \in Setups /\ ~InvalidVersion
    BY <2>1 DEF RefineInv, RunnableInv
  <2>3. m'.running \in BOOLEAN /\ m'.cycles \in Nat
    BY GuestCodeAssumption DEF RunInv, NumbersInv, Numbers
  <2>4. QED
    BY <2>1, <2>2, <2>3 DEF RunnableInv, InvalidVersion
<1>4. QED
  BY <1>1, <1>2, <1>3 DEF Next, Interrupt, vars

LEMMA NonePaidFor ==
  ASSUME setup' = setup, setup.price \in Nat, RunInv', left' = <<>>
  PROVE  PaidFor'
<1>1. Len(left') = 0 /\ 0 * setup.price = 0
  BY NoLength
<1>2. m'.cycles \in Nat
  BY GuestCodeAssumption DEF RunInv, NumbersInv, Numbers
<1>3. QED
  BY <1>1, <1>2 DEF PaidFor

LEMMA LoadTracePays ==
  ASSUME RefineInv, RunInv', setup' = setup, NEW t, LoadTrace(t), NEW what, Good(t, m.mem, what)
  PROVE  PaidFor'
<1> DEFINE paid == AddCycles(m, t.cycles)
<1>1. setup.price \in Nat /\ DOMAIN m = Fields /\ m.cycles \in Nat
  BY SetupTypes, GuestCodeAssumption DEF RefineInv, RunInv, NumbersInv, Numbers, RunnableInv
<1>2. CASE paid.err # "none"
  BY <1>1, <1>2, NonePaidFor DEF LoadTrace
<1>3. CASE paid.err = "none"
  <2>1. m' = [paid EXCEPT !.pc = @ + t.length] /\ left' = t.insts
    BY <1>3 DEF LoadTrace
  <2>2. DOMAIN paid = Fields /\ paid.cycles = m.cycles + t.cycles
    BY <1>1, <1>3, Zenon DEF AddCycles, Fields
  <2> HIDE DEF paid
  <2>3. m'.cycles = m.cycles + t.cycles
    BY <2>1, <2>2, Zenon DEF Fields
  <2>4. t.cycles = Len(t.insts) * setup.price /\ t.cycles \in Nat
    <3>1. t.cycles = Len(t.insts) * setup.price /\ Len(t.insts) \in Nat
      BY DEF Good
    <3>2. \A b, c \in Nat : b * c \in Nat
      OBVIOUS
    <3>3. QED
      BY <1>1, <3>1, <3>2
  <2>5. m'.cycles >= t.cycles
    BY <1>1, <2>3, <2>4
  <2>6. QED
    BY <2>1, <2>4, <2>5 DEF PaidFor
<1>4. QED
  BY <1>2, <1>3

LEMMA NextPaidFor ==
  ASSUME RefineInv, RunInv', [Next]_vars
  PROVE  PaidFor'
<1>1. setup' = setup /\ setup.price \in Nat /\ Numbers(m)
  BY SetupStays, SetupTypes DEF RefineInv, RunnableInv, RunInv, NumbersInv
<1>2. CASE UNCHANGED <<setup, m, left>>
  BY <1>2 DEF RefineInv, PaidFor
<1>3. CASE phase # "thread" /\ left' = left
  <2>1. left = <<>>
    BY <1>3 DEF RefineInv, RunInv, TraceInv, ControlInv
  <2>2. QED
    BY <1>1, <1>3, <2>1, NonePaidFor
<1>4. CASE setup.engine # "asm"
  BY <1>1, <1>4 DEF PaidFor
<1>5. CASE AsmHit
  <2>1. Good(traces[CalculateSlot(m.pc)], m.mem, Steady)
    BY <1>1, SlotTypes DEF RefineInv, RunInv, TraceInv, TracesInv, GoodTraces, GoodFixed, Numbers
  <2>2. LoadTrace(traces[CalculateSlot(m.pc)])
    BY <1>5 DEF AsmHit
  <2>3. QED
    BY <1>1, <2>1, <2>2, LoadTracePays
<1>6. CASE AsmTraceEnd /\ tail # NoPc
  <2>1. phase = "thread" /\ setup.engine = "asm" /\ LoadTrace(dynamic[tail])
    BY <1>6 DEF AsmTraceEnd
  <2>2. Good(dynamic[tail], m.mem, Steady)
    BY <1>6, <2>1 DEF RefineInv, RunInv, TraceInv, ControlInv, TracesInv, GoodTraces, GoodDynamic
  <2>3. QED
    BY <1>1, <2>1, <2>2, LoadTracePays
<1>7. CASE AsmThread
  <2>1. /\ m' = [Done EXCEPT !.pc = @ + Length(Tail(left))]
        /\ left' = IF Done.err = "none" THEN Tail(left) ELSE <<>>
    BY <1>7, AsmThreadIs DEF RefineInv, RunInv
  <2>2. CASE left' = <<>>
    BY <1>1, <2>2, NonePaidFor
  <2>3. CASE left' # <<>>
    <3>1. left' = Tail(left) /\ Tail(left) # <<>>
      BY <2>1, <2>3
    <3>2. Done.cycles = m.cycles /\ Rest <= m.cycles /\ Numbers(Done) /\ Rest \in Nat
      BY <1>7, <3>1, AsmThreadPays
    <3>3. m'.cycles = Done.cycles
      BY <2>1, <3>2, Zenon DEF Numbers, Fields
    <3>4. m.cycles \in Nat
      BY <1>1, GuestCodeAssumption DEF Numbers
    <3>5. m'.cycles >= Rest
      BY <3>2, <3>3, <3>4
    <3>6. QED
      BY <1>1, <3>1, <3>5 DEF PaidFor, Rest
  <2>4. QED
    BY <2>2, <2>3
<1>8. CASE Start
  BY <1>3, <1>8 DEF Start
<1>9. CASE Pausing \/ AsmHead \/ AsmMiss
  BY <1>3, <1>9 DEF Pausing, AsmHead, AsmMiss, Proceeds
<1>10. CASE InterpreterStep \/ TraceHead \/ TraceThread
  BY <1>4, <1>10 DEF InterpreterStep, TraceHead, TraceThread
<1>11. CASE Interrupt \/ Finish \/ SeeInterrupt \/ (AsmTraceEnd /\ tail = NoPc) \/ UNCHANGED vars
  BY <1>2, <1>11 DEF Interrupt, Finish, SeeInterrupt, AsmTraceEnd, vars
<1>12. QED
  BY <1>5, <1>6, <1>7, <1>8, <1>9, <1>10, <1>11 DEF Next, MachineStep

LEMMA RefineInvStep == RefineInv /\ [Next]_vars => RefineInv'
<1> SUFFICES ASSUME RefineInv, [Next]_vars PROVE RefineInv'
  OBVIOUS
<1>1. RunInv'
  BY RunInvStep DEF RefineInv
<1>2. Whole(m)'
  <2>1. Whole(m')
    BY NextWhole DEF RefineInv
  <2>2. QED
    BY <2>1 DEF Whole, Fields
<1>3. QED
  BY <1>1, <1>2, NextRunnable, NextPaidFor DEF RefineInv

LEMMA InitRefined == Init => RefineInv /\ Direct!Init
<1> SUFFICES ASSUME Init PROVE RefineInv /\ Direct!Init
  OBVIOUS
<1>1. m = [mem |-> Images[setup.image], pc |-> 0, acc |-> 0, cycles |-> 0, max |-> FirstLimit,
           running |-> FALSE, reset |-> FALSE, err |-> "none"]
  BY DEF Init
<1>2. /\ DOMAIN m = Fields /\ Whole(m) /\ m.cycles = 0 /\ m.err = "none"
  BY <1>1, Zenon DEF Whole, Fields
<1>3. setup.price \in Nat /\ left = <<>> /\ phase = "new"
  BY SetupTypes DEF Init
<1>4. RunInv /\ RunnableInv
  BY RunInvInit, RunnableInit
<1>5. PaidFor
  <2>1. Len(left) = 0 /\ 0 * setup.price = 0
    BY <1>3, NoLength
  <2>2. QED
    BY <1>2, <2>1 DEF PaidFor
<1>6. Direct!Init
  <2>1. AtNext(m, left) = m
    BY <1>2, <1>3, <1>4, AtNextOfNone DEF RunInv, NumbersInv
  <2>2. Mapped = View(m, TRUE)
    BY <1>2, <1>3, <2>1, MappedIs
  <2>3. View(m, TRUE).err = "none" /\ View(m, TRUE).running
    BY <1>2, Zenon DEF View, Fields
  <2>4. QED
    BY <2>2, <2>3 DEF Direct!Init
<1>7. QED
  BY <1>2, <1>4, <1>5, <1>6 DEF RefineInv

(* One step for each action.                                               *)
LEMMA EngineMoves == RefineInv /\ [Next]_vars => [Direct!Next]_(Direct!vars)
<1> SUFFICES ASSUME RefineInv, [Next]_vars PROVE [Direct!Next]_(Direct!vars)
  OBVIOUS
<1>1. RunInv' /\ DOMAIN m' = Fields
  <2>1. RunInv'
    BY RunInvStep DEF RefineInv
  <2>2. QED
    BY <2>1 DEF RunInv, NumbersInv, Numbers
<1>2. CASE Start
  <2>1. Whole(m')
    BY NextWhole DEF RefineInv
  <2>2. QED
    BY <1>1, <1>2, <2>1, StartMoves
<1>3. CASE Interrupt
  BY <1>3, LookMoves DEF Interrupt
<1>4. CASE Pausing
  BY <1>1, <1>4, PausingMoves
<1>5. CASE Finish
  BY <1>5, LookMoves DEF Finish
<1>6. CASE SeeInterrupt
  BY <1>6, LookMoves DEF SeeInterrupt
<1>7. CASE InterpreterStep
  BY <1>7, InterpreterMoves
<1>8. CASE TraceHead
  BY <1>1, <1>8, TraceHeadRefines
<1>9. CASE TraceThread
  BY <1>1, <1>9, TraceThreadRefines
<1>10. CASE AsmHead
  BY <1>1, <1>10, AsmHeadRefines
<1>11. CASE AsmHit
  BY <1>1, <1>11, AsmHitRefines
<1>12. CASE AsmMiss
  BY <1>1, <1>12, AsmMissRefines
<1>13. CASE AsmThread
  BY <1>1, <1>13, AsmThreadRefines
<1>14. CASE AsmTraceEnd
  BY <1>1, <1>14, AsmTraceEndRefines
<1>15. CASE UNCHANGED vars
  BY <1>15, LookMoves DEF vars
<1>16. QED
  BY <1>2, <1>3, <1>4, <1>5, <1>6, <1>7, <1>8, <1>9, <1>10, <1>11, <1>12, <1>13, <1>14, <1>15 DEF Next, MachineStep

(* For every program, engine, decoder, cache, trace length and limit, each *)
(* run loop computes what a machine does that decodes every instruction    *)
(* from memory and pays for it when it executes it: through interrupts,    *)
(* pauses, resumed runs, jumps into and out of traces, code that is loaded *)
(* and programs that are replaced.  It differs only in that it may fail,   *)
(* or run out of cycles, at the start of a straight line at whose end it   *)
(* must, and in that it may look at 32 bits of its pc before version 2.    *)
THEOREM EnginesRefine == Spec => ImplementsDirectMachine
<1>1. Init => RefineInv /\ Direct!Init
  BY InitRefined
<1>2. RefineInv /\ [Next]_vars => RefineInv'
  BY RefineInvStep
<1>3. RefineInv /\ [Next]_vars => [Direct!Next]_(Direct!vars)
  BY EngineMoves
<1>4. QED
  BY <1>1, <1>2, <1>3, PTL DEF Spec, ImplementsDirectMachine, Direct!Spec
================================================================================
